---------------------------- MODULE MgmtUart_proofs ----------------------------
(***************************************************************************)
(* What the scanner of the management link does with bytes that come in    *)
(* pieces, for all bytes, sizes and budgets.  The scanner is a recursive   *)
(* function; what is said of it is shown by induction on the position,     *)
(* from the end of the buffer to its beginning.                            *)
(***************************************************************************)
EXTENDS MgmtUart, SequenceTheorems, WellFoundedInduction, TLAPS

Bytes == Seq(Nat)

-----------------------------------------------------------------------------
(* Induction on a set of positions.                                        *)
LEMMA LeastOf ==
  ASSUME NEW T, T \subseteq Nat, T # {}
  PROVE  \E x \in T : \A y \in T : x <= y
<1> DEFINE R == {p \in Nat \X Nat : p[1] < p[2]}
<1>1. IsWellFoundedOn(R, Nat)
  BY NatLessThanWellFounded DEF OpToRel
<1>2. PICK x \in T : \A y \in T : ~(<<y, x>> \in R)
  <2> HIDE DEF R
  <2> QED BY <1>1, WFMin
<1>3. ASSUME NEW y \in T PROVE x <= y
  <2>1. x \in Nat /\ y \in Nat
    OBVIOUS
  <2>2. ~(y < x)
    BY <1>2, <2>1
  <2> QED BY <2>1, <2>2
<1> QED BY <1>3

LEMMA Upwards ==
  ASSUME NEW N \in Nat, NEW S, 0 \in S, \A i \in 1 .. N : i - 1 \in S => i \in S
  PROVE  \A i \in 0 .. N : i \in S
<1> DEFINE T == (0 .. N) \ S
<1> SUFFICES ASSUME T # {} PROVE FALSE
  OBVIOUS
<1>1. PICK x \in T : \A y \in T : x <= y
  <2>1. T \subseteq Nat
    OBVIOUS
  <2> HIDE DEF T
  <2> QED BY <2>1, LeastOf
<1>2. x \in 1 .. N /\ x - 1 \in 0 .. N /\ ~(x <= x - 1)
  BY <1>1
<1> QED BY <1>1, <1>2

LEMMA Downwards ==
  ASSUME NEW N \in Nat, NEW S,
         \A i \in 1 .. N : (\A j \in i + 1 .. N : j \in S) => i \in S
  PROVE  \A i \in 1 .. N : i \in S
<1> DEFINE T == {m \in 0 .. N : \A j \in N - m + 1 .. N : j \in S}
<1>1. 0 \in T
  OBVIOUS
<1>2. ASSUME NEW m \in 1 .. N, m - 1 \in T PROVE m \in T
  <2>1. N - m + 1 \in 1 .. N /\ N - (m - 1) + 1 = (N - m + 1) + 1
    OBVIOUS
  <2>2. N - m + 1 \in S
    BY <1>2, <2>1
  <2>3. \A j \in N - m + 1 .. N : j = N - m + 1 \/ j \in (N - m + 1) + 1 .. N
    OBVIOUS
  <2> QED BY <1>2, <2>1, <2>2, <2>3
<1> HIDE DEF T
<1>3. N \in T
  BY <1>1, <1>2, Upwards
<1> QED BY <1>3 DEF T

-----------------------------------------------------------------------------
(* The check sum is a number: crc16 is the function that its equation      *)
(* describes, since there is one up to every length.                       *)
Sum(s, c, i) == IF i = 0 THEN 7 ELSE (c[i - 1] * 263 + s[i] + 1) % 65521

LEMMA SumExists ==
  ASSUME NEW s \in Bytes
  PROVE  \E g : g = [i \in 0 .. Len(s) |-> Sum(s, g, i)]
<1> DEFINE S == {k \in 0 .. Len(s) : \E g : g = [i \in 0 .. k |-> Sum(s, g, i)]}
<1>1. Len(s) \in Nat
  BY LenProperties DEF Bytes
<1>2. 0 \in S
  <2> DEFINE h == [i \in 0 .. 0 |-> 7]
  <2>1. h = [i \in 0 .. 0 |-> Sum(s, h, i)]
    BY DEF Sum
  <2> QED BY <1>1, <2>1
<1>3. ASSUME NEW k \in 1 .. Len(s), k - 1 \in S PROVE k \in S
  <2>1. PICK g : g = [i \in 0 .. k - 1 |-> Sum(s, g, i)]
    BY <1>3
  <2> DEFINE h == [i \in 0 .. k |-> Sum(s, g, i)]
  <2>2. ASSUME NEW i \in 0 .. k PROVE Sum(s, h, i) = Sum(s, g, i)
    <3>1. CASE i = 0
      BY <3>1 DEF Sum
    <3>2. CASE i # 0
      <4>1. i - 1 \in 0 .. k - 1 /\ i - 1 \in 0 .. k
        BY <3>2
      <4>2. h[i - 1] = Sum(s, g, i - 1)
        BY <4>1
      <4>3. g[i - 1] = Sum(s, g, i - 1)
        BY <2>1, <4>1
      <4> HIDE DEF h
      <4> QED BY <3>2, <4>2, <4>3 DEF Sum
    <3> QED BY <3>1, <3>2
  <2>3. h = [i \in 0 .. k |-> Sum(s, h, i)]
    BY <2>2
  <2> HIDE DEF h
  <2> QED BY <1>3, <2>3
<1> HIDE DEF S
<1>4. \A k \in 0 .. Len(s) : k \in S
  BY <1>1, <1>2, <1>3, Upwards
<1>5. Len(s) \in S
  BY <1>1, <1>4
<1> QED BY <1>5 DEF S

LEMMA CrcIsNat == ASSUME NEW s \in Bytes PROVE crc16(s) \in Nat
<1> DEFINE crc == CHOOSE g : g = [i \in 0 .. Len(s) |-> Sum(s, g, i)]
           S == {k \in 0 .. Len(s) : crc[k] \in Nat}
<1>1. Len(s) \in Nat /\ \A i \in 1 .. Len(s) : s[i] \in Nat
  BY LenProperties, ElementOfSeq DEF Bytes
<1>2. crc16(s) = crc[Len(s)]
  BY DEF crc16, Sum
<1>3. crc = [i \in 0 .. Len(s) |-> Sum(s, crc, i)]
  <2> HIDE DEF S
  <2> QED BY SumExists, Zenon
<1> HIDE DEF crc
<1>4. \A i \in 0 .. Len(s) : crc[i] = Sum(s, crc, i)
  BY <1>3
<1>5. 0 \in S
  BY <1>1, <1>4 DEF Sum
<1>6. ASSUME NEW k \in 1 .. Len(s), k - 1 \in S PROVE k \in S
  <2>1. crc[k] = (crc[k - 1] * 263 + s[k] + 1) % 65521
    BY <1>4 DEF Sum
  <2>2. crc[k - 1] \in Nat /\ s[k] \in Nat
    BY <1>1, <1>6
  <2> QED BY <2>1, <2>2
<1> HIDE DEF S
<1>7. \A k \in 0 .. Len(s) : k \in S
  BY <1>1, <1>5, <1>6, Upwards
<1> QED BY <1>1, <1>2, <1>7 DEF S

-----------------------------------------------------------------------------
(* The scanner, position by position.                                      *)
LEMMA BytesAre ==
  ASSUME NEW buf \in Bytes
  PROVE  /\ Len(buf) \in Nat /\ DOMAIN buf = 1 .. Len(buf)
         /\ \A i \in 1 .. Len(buf) : buf[i] \in Nat
BY LenProperties, ElementOfSeq DEF Bytes

LEMMA FirstIs ==
  ASSUME NEW buf \in Bytes, NEW i \in Nat \ {0}, Starts(buf, i) # {}
  PROVE  /\ First(buf, i) \in Starts(buf, i)
         /\ First(buf, i) \in i .. Len(buf) - 1
         /\ \A q \in Starts(buf, i) : First(buf, i) <= q
<1>1. Starts(buf, i) \subseteq i .. Len(buf) - 1 /\ Starts(buf, i) \subseteq Nat
  BY BytesAre DEF Starts
<1>2. \E p \in Starts(buf, i) : \A q \in Starts(buf, i) : p <= q
  BY <1>1, LeastOf
<1> QED BY <1>1, <1>2 DEF First

(* Where the scanner goes on behind what it has judged.                    *)
LEMMA JudgedIs ==
  ASSUME NEW buf \in Bytes, NEW sof \in 1 .. Len(buf), ~Short(buf, sof)
  PROVE  /\ LenAt(buf, sof) \in Nat /\ sof + 8 <= Len(buf)
         /\ ~Overlong(buf, sof) => sof + LenAt(buf, sof) + 8 <= Len(buf)
         /\ Behind(buf, sof) \in sof + 1 .. Len(buf) + 1
<1>1. Len(buf) \in Nat /\ Len(buf) - sof + 1 >= 9
  BY BytesAre DEF Short
<1>2. buf[sof + 5] \in Nat /\ buf[sof + 6] \in Nat
  BY <1>1, BytesAre
<1>3. LenAt(buf, sof) \in Nat
  <2>1. (sof + 5) + 1 = sof + 6
    OBVIOUS
  <2> QED BY <1>2, <2>1 DEF LenAt, u16le
<1>4. ~Overlong(buf, sof) => sof + LenAt(buf, sof) + 8 <= Len(buf)
  BY <1>1, <1>3 DEF Short
<1>5. Intact(buf, sof) => ~Overlong(buf, sof)
  BY DEF Intact
<1>6. Behind(buf, sof) = sof + 1 \/ (Intact(buf, sof) /\ Behind(buf, sof) = sof + (LenAt(buf, sof) + 9))
  BY DEF Behind, Resync
<1> HIDE DEF Resync
<1> QED BY <1>1, <1>3, <1>4, <1>5, <1>6

(* One equation of scan_from, with f for what it finds from later          *)
(* positions on.                                                           *)
Step(buf, f, i) ==
  IF Starts(buf, i) = {} THEN Found(<<>>, NoStart(buf, i))
  ELSE IF Short(buf, First(buf, i)) THEN Found(<<>>, From(buf, First(buf, i)))
  ELSE Found(Taken(buf, First(buf, i)) \o f[Behind(buf, First(buf, i))].frames,
             f[Behind(buf, First(buf, i))].rest)

LEMMA StepLocal ==
  ASSUME NEW buf \in Bytes, NEW i \in 1 .. Len(buf) + 1, NEW f, NEW g,
         \A j \in i + 1 .. Len(buf) + 1 : f[j] = g[j]
  PROVE  Step(buf, f, i) = Step(buf, g, i)
<1>1. CASE Starts(buf, i) = {} \/ Short(buf, First(buf, i))
  BY <1>1 DEF Step
<1>2. CASE ~(Starts(buf, i) = {} \/ Short(buf, First(buf, i)))
  <2>1. i \in Nat \ {0} /\ Len(buf) \in Nat
    BY BytesAre
  <2>2. First(buf, i) \in i .. Len(buf) - 1
    BY <1>2, <2>1, FirstIs
  <2>3. First(buf, i) \in 1 .. Len(buf)
    BY <2>1, <2>2
  <2>4. Behind(buf, First(buf, i)) \in First(buf, i) + 1 .. Len(buf) + 1
    BY <1>2, <2>3, JudgedIs
  <2>5. Behind(buf, First(buf, i)) \in i + 1 .. Len(buf) + 1
    BY <2>1, <2>2, <2>4
  <2> QED BY <1>2, <2>5 DEF Step
<1> QED BY <1>1, <1>2

LEMMA ScanExists ==
  ASSUME NEW buf \in Bytes
  PROVE  \E g : g = [i \in 1 .. Len(buf) + 1 |-> Step(buf, g, i)]
<1> DEFINE N == Len(buf) + 1
           S == {k \in 1 .. N : \E g : g = [i \in k .. N |-> Step(buf, g, i)]}
<1>1. N \in Nat \ {0}
  BY BytesAre
<1>2. ASSUME NEW k \in 1 .. N, \A j \in k + 1 .. N : j \in S PROVE k \in S
  <2>1. PICK g : k < N => g = [i \in k + 1 .. N |-> Step(buf, g, i)]
    <3>1. CASE k < N
      <4>1. k + 1 \in S
        BY <1>1, <1>2, <3>1
      <4> QED BY <4>1
    <3>2. CASE ~(k < N)
      BY <3>2
    <3> QED BY <3>1, <3>2
  <2> DEFINE h == [i \in k .. N |-> Step(buf, g, i)]
  <2>2. ASSUME NEW i \in k .. N PROVE Step(buf, h, i) = Step(buf, g, i)
    <3>1. ASSUME NEW j \in i + 1 .. N PROVE h[j] = g[j]
      <4>1. j \in k + 1 .. N /\ j \in k .. N /\ k < N
        BY <1>1, <3>1
      <4>2. h[j] = Step(buf, g, j)
        BY <4>1
      <4>3. g[j] = Step(buf, g, j)
        BY <2>1, <4>1
      <4> HIDE DEF h
      <4> QED BY <4>2, <4>3
    <3>2. i \in 1 .. Len(buf) + 1
      BY <1>1
    <3> HIDE DEF h
    <3> QED BY <3>1, <3>2, StepLocal
  <2>3. h = [i \in k .. N |-> Step(buf, h, i)]
    BY <2>2
  <2> HIDE DEF h
  <2> QED BY <2>3
<1> HIDE DEF S
<1>3. \A k \in 1 .. N : k \in S
  BY <1>1, <1>2, Downwards
<1>4. 1 \in S
  BY <1>1, <1>3
<1> QED BY <1>4 DEF S

LEMMA ScanIs ==
  ASSUME NEW buf \in Bytes
  PROVE  \A i \in 1 .. Len(buf) + 1 : scan_from(buf)[i] = Step(buf, scan_from(buf), i)
<1> DEFINE from == CHOOSE g : g = [i \in 1 .. Len(buf) + 1 |-> Step(buf, g, i)]
<1>1. scan_from(buf) = from
  BY DEF scan_from, Step
<1>2. from = [i \in 1 .. Len(buf) + 1 |-> Step(buf, from, i)]
  BY ScanExists, Zenon
<1> HIDE DEF from
<1> QED BY <1>1, <1>2

(* What is found are frames, and what is left is the end of the buffer.    *)
FrameSet == [type : Nat, id : Nat, payload : Bytes]

LEMMA FromIs ==
  ASSUME NEW buf \in Bytes, NEW i \in 1 .. Len(buf) + 1
  PROVE  /\ From(buf, i) \in Bytes /\ Len(From(buf, i)) = Len(buf) - i + 1
         /\ \A k \in 1 .. Len(buf) - i + 1 : From(buf, i)[k] = buf[i + k - 1]
<1>1. Len(buf) \in Nat /\ \A k \in i .. Len(buf) : buf[k] \in Nat
  BY BytesAre
<1>2. /\ SubSeq(buf, i, Len(buf)) \in Seq(Nat)
      /\ Len(SubSeq(buf, i, Len(buf))) = IF i <= Len(buf) THEN Len(buf) - i + 1 ELSE 0
      /\ \A k \in 1 .. Len(buf) - i + 1 : SubSeq(buf, i, Len(buf))[k] = buf[i + k - 1]
  BY <1>1, SubSeqProperties
<1> QED BY <1>1, <1>2 DEF From, Bytes

(* What is judged is read from the bytes behind its start only: the same   *)
(* bytes elsewhere, or with more behind them, are judged the same.         *)
Agrees(s, a, t, b) ==
  /\ Len(t) - b >= Len(s) - a
  /\ \A m \in 0 .. Len(s) - a : t[b + m] = s[a + m]

LEMMA SameSubSeq ==
  ASSUME NEW s \in Bytes, NEW t \in Bytes, NEW a \in 1 .. Len(s), NEW b \in 1 .. Len(t),
         Agrees(s, a, t, b), NEW u \in Nat, NEW v \in Int, a + v <= Len(s)
  PROVE  /\ SubSeq(t, b + u, b + v) = SubSeq(s, a + u, a + v)
         /\ SubSeq(s, a + u, a + v) \in Bytes
<1>1. Len(s) \in Nat /\ Len(t) \in Nat /\ b + v <= Len(t)
  BY BytesAre DEF Agrees
<1>2. /\ \A k \in a + u .. a + v : s[k] \in Nat
      /\ \A k \in b + u .. b + v : t[k] \in Nat
  BY <1>1, BytesAre
<1>3. /\ SubSeq(s, a + u, a + v) \in Seq(Nat)
      /\ Len(SubSeq(s, a + u, a + v)) = IF a + u <= a + v THEN a + v - (a + u) + 1 ELSE 0
      /\ \A k \in 1 .. a + v - (a + u) + 1 : SubSeq(s, a + u, a + v)[k] = s[a + u + k - 1]
  BY <1>1, <1>2, SubSeqProperties
<1>4. /\ SubSeq(t, b + u, b + v) \in Seq(Nat)
      /\ Len(SubSeq(t, b + u, b + v)) = IF b + u <= b + v THEN b + v - (b + u) + 1 ELSE 0
      /\ \A k \in 1 .. b + v - (b + u) + 1 : SubSeq(t, b + u, b + v)[k] = t[b + u + k - 1]
  BY <1>1, <1>2, SubSeqProperties
<1> DEFINE x == SubSeq(s, a + u, a + v)
           y == SubSeq(t, b + u, b + v)
<1>5. Len(x) = Len(y) /\ Len(x) \in Nat /\ (Len(x) > 0 => Len(x) = v - u + 1)
  BY <1>3, <1>4
<1>6. ASSUME NEW k \in 1 .. Len(x) PROVE y[k] = x[k]
  <2>1. k \in 1 .. v - u + 1
    BY <1>5
  <2>2. x[k] = s[a + u + k - 1] /\ y[k] = t[b + u + k - 1]
    BY <2>1, <1>3, <1>4
  <2>3. u + k - 1 \in 0 .. Len(s) - a
    BY <1>1, <2>1
  <2>4. t[b + (u + k - 1)] = s[a + (u + k - 1)]
    BY <2>3 DEF Agrees
  <2>5. b + (u + k - 1) = b + u + k - 1 /\ a + (u + k - 1) = a + u + k - 1
    BY <2>1
  <2> HIDE DEF x, y
  <2> QED BY <2>2, <2>4, <2>5
<1>7. x \in Seq(Nat) /\ y \in Seq(Nat)
  BY <1>3, <1>4
<1> HIDE DEF x, y
<1>8. x = y
  BY <1>5, <1>6, <1>7, SeqEqual
<1> QED BY <1>7, <1>8 DEF x, y, Bytes

LEMMA SameJudged ==
  ASSUME NEW s \in Bytes, NEW t \in Bytes, NEW a \in 1 .. Len(s), NEW b \in 1 .. Len(t),
         Agrees(s, a, t, b), ~Short(s, a)
  PROVE  /\ ~Short(t, b)
         /\ Taken(t, b) = Taken(s, a)
         /\ Behind(t, b) - b = Behind(s, a) - a
         /\ Taken(s, a) \in Seq(FrameSet)
         /\ Overlong(t, b) <=> Overlong(s, a)
         /\ LenAt(t, b) = LenAt(s, a)
<1>1. /\ Len(s) \in Nat /\ Len(t) \in Nat /\ Len(s) - a + 1 >= 9
      /\ LenAt(s, a) \in Nat /\ (~Overlong(s, a) => a + LenAt(s, a) + 8 <= Len(s))
  BY BytesAre, JudgedIs
<1>2. ASSUME NEW k \in 0 .. Len(s) - a
      PROVE  t[b + k] = s[a + k] /\ s[a + k] \in Nat
  <2>1. a + k \in 1 .. Len(s)
    BY <1>1
  <2> QED BY <2>1, BytesAre DEF Agrees
<1>3. /\ t[b + 2] = s[a + 2] /\ t[b + 3] = s[a + 3] /\ t[b + 4] = s[a + 4]
      /\ t[b + 5] = s[a + 5] /\ t[b + 6] = s[a + 6]
      /\ s[a + 3] \in Nat /\ s[a + 4] \in Nat
  BY <1>1, <1>2
<1>4. LenAt(t, b) = LenAt(s, a)
  <2>1. (a + 5) + 1 = a + 6 /\ (b + 5) + 1 = b + 6
    OBVIOUS
  <2> QED BY <1>3, <2>1 DEF LenAt, u16le
<1>5. Overlong(t, b) <=> Overlong(s, a)
  BY <1>3, <1>4 DEF Overlong
<1>6. ~Short(t, b)
  <2>1. Len(t) - b >= Len(s) - a
    BY DEF Agrees
  <2> QED BY <1>1, <1>4, <1>5, <2>1 DEF Short
<1> DEFINE l == LenAt(s, a)
<1>7. CASE Overlong(s, a)
  <2>1. ~Intact(s, a) /\ ~Intact(t, b)
    BY <1>5, <1>7 DEF Intact
  <2>2. Taken(t, b) = <<>> /\ Taken(s, a) = <<>>
    BY <2>1 DEF Taken
  <2>3. Behind(t, b) = b + 1 /\ Behind(s, a) = a + 1
    BY <1>5, <1>7, <2>1 DEF Behind
  <2>4. <<>> \in Seq(FrameSet)
    OBVIOUS
  <2> QED BY <1>1, <1>4, <1>5, <1>6, <2>2, <2>3, <2>4
<1>8. CASE ~Overlong(s, a)
  <2>1. l \in Nat /\ a + l + 8 <= Len(s)
    BY <1>1, <1>8
  <2>2. SubSeq(t, b + 2, b + 6 + l) = SubSeq(s, a + 2, a + 6 + l)
    <3> DEFINE v == 6 + l
               u == 2
    <3>1. v \in Int /\ a + v <= Len(s) /\ u \in Nat
      BY <1>1, <2>1
    <3>2. /\ SubSeq(t, b + u, b + v) = SubSeq(s, a + u, a + v)
          /\ SubSeq(s, a + u, a + v) \in Bytes
      <4> HIDE DEF l, u, v
      <4> QED BY <3>1, SameSubSeq
    <3>3. a + v = a + 6 + l /\ b + v = b + 6 + l
      BY <2>1
    <3> QED BY <3>2, <3>3
  <2>3. /\ SubSeq(t, b + 7, b + 6 + l) = SubSeq(s, a + 7, a + 6 + l)
        /\ SubSeq(s, a + 7, a + 6 + l) \in Bytes
    <3> DEFINE v == 6 + l
               u == 7
    <3>1. v \in Int /\ a + v <= Len(s) /\ u \in Nat
      BY <1>1, <2>1
    <3>2. /\ SubSeq(t, b + u, b + v) = SubSeq(s, a + u, a + v)
          /\ SubSeq(s, a + u, a + v) \in Bytes
      <4> HIDE DEF l, u, v
      <4> QED BY <3>1, SameSubSeq
    <3>3. a + v = a + 6 + l /\ b + v = b + 6 + l
      BY <2>1
    <3> QED BY <3>2, <3>3
  <2>4. u16le(t, b + 7 + l) = u16le(s, a + 7 + l)
    <3>1. 7 + l \in 0 .. Len(s) - a /\ 8 + l \in 0 .. Len(s) - a
      BY <1>1, <2>1
    <3>2. t[b + (7 + l)] = s[a + (7 + l)] /\ t[b + (8 + l)] = s[a + (8 + l)]
      <4> HIDE DEF l
      <4> QED BY <1>2, <3>1
    <3>3. /\ b + 7 + l = b + (7 + l) /\ (b + 7 + l) + 1 = b + (8 + l)
          /\ a + 7 + l = a + (7 + l) /\ (a + 7 + l) + 1 = a + (8 + l)
      <4> HIDE DEF l
      <4> QED BY <2>1
    <3> HIDE DEF l
    <3> QED BY <3>2, <3>3 DEF u16le
  <2>5. Intact(t, b) <=> Intact(s, a)
    BY <1>3, <1>4, <1>5, <2>2, <2>4 DEF Intact
  <2>6. FrameAt(t, b) = FrameAt(s, a) /\ FrameAt(s, a) \in FrameSet
    BY <1>3, <1>4, <2>3 DEF FrameAt, FrameSet
  <2>7. Taken(t, b) = Taken(s, a) /\ Taken(s, a) \in Seq(FrameSet)
    <3>1. <<>> \in Seq(FrameSet) /\ <<FrameAt(s, a)>> \in Seq(FrameSet)
      BY <2>6
    <3> QED BY <2>5, <2>6, <3>1 DEF Taken
  <2>8. Behind(t, b) - b = Behind(s, a) - a
    <3>1. CASE Intact(s, a)
      <4>1. Behind(t, b) = b + (l + 9) /\ Behind(s, a) = a + (l + 9)
        BY <1>4, <2>5, <3>1 DEF Behind
      <4> QED BY <2>1, <4>1
    <3>2. CASE ~Intact(s, a)
      <4>1. Behind(t, b) = b + 1 /\ Behind(s, a) = a + 1
        BY <1>5, <1>8, <2>5, <3>2 DEF Behind, Resync
      <4> QED BY <4>1
    <3> QED BY <3>1, <3>2
  <2> QED BY <1>4, <1>5, <1>6, <2>7, <2>8
<1> QED BY <1>7, <1>8

LEMMA FirstOf ==
  ASSUME NEW buf \in Bytes, NEW i \in Nat \ {0}, NEW p \in Starts(buf, i),
         \A q \in Starts(buf, i) : p <= q
  PROVE  First(buf, i) = p
<1>1. First(buf, i) \in Starts(buf, i) /\ First(buf, i) \in i .. Len(buf) - 1
  BY FirstIs
<1>2. p \in Int /\ First(buf, i) \in Int
  BY <1>1, BytesAre DEF Starts
<1>3. First(buf, i) <= p
  BY FirstIs
<1> QED BY <1>1, <1>2, <1>3

(* A scan that begins later finds what a scan of the later bytes finds.    *)
LEMMA FromFrom ==
  ASSUME NEW buf \in Bytes, NEW j \in 1 .. Len(buf) + 1,
         NEW p \in 1 .. Len(From(buf, j)) + 1
  PROVE  /\ p + j - 1 \in 1 .. Len(buf) + 1
         /\ From(From(buf, j), p) = From(buf, p + j - 1)
<1> DEFINE s == From(buf, j)
           i == p + j - 1
<1>1. s \in Bytes /\ Len(s) = Len(buf) - j + 1 /\ Len(buf) \in Nat
  BY BytesAre, FromIs
<1>2. i \in 1 .. Len(buf) + 1 /\ Len(buf) - i + 1 = Len(s) - p + 1
  BY <1>1
<1>3. /\ From(buf, i) \in Bytes /\ Len(From(buf, i)) = Len(buf) - i + 1
      /\ \A k \in 1 .. Len(buf) - i + 1 : From(buf, i)[k] = buf[i + k - 1]
  <2> HIDE DEF i
  <2> QED BY <1>2, FromIs
<1>4. /\ From(s, p) \in Bytes /\ Len(From(s, p)) = Len(s) - p + 1
      /\ \A k \in 1 .. Len(s) - p + 1 : From(s, p)[k] = s[p + k - 1]
  <2> HIDE DEF s
  <2> QED BY <1>1, FromIs
<1>5. ASSUME NEW k \in 1 .. Len(s) - p + 1 PROVE From(s, p)[k] = From(buf, i)[k]
  <2>1. p + k - 1 \in 1 .. Len(buf) - j + 1
    BY <1>1
  <2>2. s[p + k - 1] = buf[j + (p + k - 1) - 1]
    BY <2>1, FromIs
  <2>3. From(buf, i)[k] = buf[i + k - 1] /\ From(s, p)[k] = s[p + k - 1]
    BY <1>2, <1>3, <1>4
  <2>4. i + k - 1 = j + (p + k - 1) - 1
    BY <2>1
  <2> HIDE DEF s, i
  <2> QED BY <2>2, <2>3, <2>4
<1> HIDE DEF s, i
<1>6. From(s, p) = From(buf, i)
  BY <1>2, <1>3, <1>4, <1>5, SeqEqual DEF Bytes
<1> QED BY <1>2, <1>6 DEF s, i

LEMMA Shift ==
  ASSUME NEW buf \in Bytes, NEW j \in 1 .. Len(buf) + 1
  PROVE  \A k \in 1 .. Len(From(buf, j)) + 1 :
           scan_from(From(buf, j))[k] = scan_from(buf)[k + j - 1]
<1> DEFINE s == From(buf, j)
           N == Len(s) + 1
           S == {k \in 1 .. N : scan_from(s)[k] = scan_from(buf)[k + j - 1]}
<1>1. /\ s \in Bytes /\ Len(s) = Len(buf) - j + 1 /\ Len(buf) \in Nat /\ Len(s) \in Nat
      /\ \A k \in 1 .. Len(s) : s[k] = buf[k + j - 1]
  <2>1. /\ s \in Bytes /\ Len(s) = Len(buf) - j + 1 /\ Len(buf) \in Nat
        /\ \A k \in 1 .. Len(buf) - j + 1 : s[k] = buf[j + k - 1]
    BY BytesAre, FromIs
  <2> QED BY <2>1
<1>2. \A p \in 1 .. N : From(s, p) = From(buf, p + j - 1)
  BY FromFrom
<1> HIDE DEF s
<1>3. ASSUME NEW k \in 1 .. N, \A i \in k + 1 .. N : i \in S PROVE k \in S
  <2> DEFINE i == k + j - 1
  <2>1. i \in 1 .. Len(buf) + 1 /\ i \in Nat \ {0} /\ k \in Nat \ {0}
    BY <1>1
  <2>2. /\ scan_from(s)[k] = Step(s, scan_from(s), k)
        /\ scan_from(buf)[i] = Step(buf, scan_from(buf), i)
    <3> HIDE DEF i
    <3> QED BY <1>1, <2>1, ScanIs
  <2>3. \A p \in Starts(s, k) : p + j - 1 \in Starts(buf, i)
    <3> SUFFICES ASSUME NEW p \in Starts(s, k) PROVE p + j - 1 \in Starts(buf, i)
      OBVIOUS
    <3>1. p \in k .. Len(s) - 1 /\ s[p] = SOF1 /\ s[p + 1] = SOF2
      BY DEF Starts
    <3>2. p \in 1 .. Len(s) /\ p + 1 \in 1 .. Len(s) /\ p + 1 + j - 1 = (p + j - 1) + 1
      BY <1>1, <2>1, <3>1
    <3>3. buf[p + j - 1] = SOF1 /\ buf[(p + j - 1) + 1] = SOF2
      BY <1>1, <3>1, <3>2
    <3>4. p + j - 1 \in i .. Len(buf) - 1
      BY <1>1, <2>1, <3>1
    <3> QED BY <3>3, <3>4 DEF Starts
  <2>4. \A p \in Starts(buf, i) : p - j + 1 \in Starts(s, k)
    <3> SUFFICES ASSUME NEW p \in Starts(buf, i) PROVE p - j + 1 \in Starts(s, k)
      OBVIOUS
    <3>1. p \in i .. Len(buf) - 1 /\ buf[p] = SOF1 /\ buf[p + 1] = SOF2
      BY DEF Starts
    <3>2. p - j + 1 \in k .. Len(s) - 1 /\ p - j + 1 \in 1 .. Len(s) /\ p - j + 2 \in 1 .. Len(s)
      BY <1>1, <2>1, <3>1
    <3>3. s[p - j + 1] = buf[p] /\ s[p - j + 2] = buf[p + 1]
      <4>1. (p - j + 1) + j - 1 = p /\ (p - j + 2) + j - 1 = p + 1
        BY <1>1, <3>1
      <4> QED BY <1>1, <3>2, <4>1
    <3>4. (p - j + 1) + 1 = p - j + 2
      BY <3>1
    <3> QED BY <3>1, <3>2, <3>3, <3>4 DEF Starts
  <2>5. CASE Starts(s, k) = {}
    <3>1. Starts(buf, i) = {}
      BY <2>4, <2>5
    <3>2. NoStart(s, k) = NoStart(buf, i)
      <4>1. k > Len(s) <=> i > Len(buf)
        BY <1>1
      <4>2. k <= Len(s) => s[Len(s)] = buf[Len(buf)]
        <5>1. k <= Len(s) => Len(s) \in 1 .. Len(s) /\ Len(s) + j - 1 = Len(buf)
          BY <1>1
        <5> QED BY <1>1, <5>1
      <4> QED BY <1>1, <2>1, <4>1, <4>2 DEF NoStart
    <3>3. scan_from(s)[k] = scan_from(buf)[i]
      BY <2>2, <2>5, <3>1, <3>2 DEF Step
    <3> QED BY <3>3
  <2>6. CASE Starts(s, k) # {}
    <3> DEFINE a == First(s, k)
               b == First(buf, i)
    <3>1. /\ a \in Starts(s, k) /\ a \in k .. Len(s) - 1
          /\ \A q \in Starts(s, k) : a <= q
      BY <1>1, <2>1, <2>6, FirstIs
    <3>2. b = a + j - 1
      <4>1. a + j - 1 \in Starts(buf, i)
        <5> HIDE DEF a, i
        <5> QED BY <2>3, <3>1
      <4>2. ASSUME NEW q \in Starts(buf, i) PROVE a + j - 1 <= q
        <5>1. a <= q - j + 1
          <6> HIDE DEF a, i
          <6> QED BY <2>4, <3>1
        <5>2. q \in Int
          BY <1>1, <2>1 DEF Starts
        <5> HIDE DEF a
        <5> QED BY <1>1, <3>1, <5>1, <5>2
      <4> DEFINE c == a + j - 1
      <4> HIDE DEF c, i
      <4>3. c \in Starts(buf, i) /\ \A q \in Starts(buf, i) : c <= q
        BY <4>1, <4>2 DEF c
      <4>4. First(buf, i) = c
        BY <2>1, <4>3, FirstOf
      <4> QED BY <4>4 DEF c
    <3> HIDE DEF a, b
    <3>3. /\ Starts(buf, i) # {} /\ a \in 1 .. Len(s) /\ b \in 1 .. Len(buf)
          /\ Len(buf) - b = Len(s) - a
      BY <1>1, <2>3, <2>6, <3>1, <3>2
    <3>4. Agrees(s, a, buf, b) /\ Agrees(buf, b, s, a)
      <4>1. ASSUME NEW q \in 0 .. Len(s) - a PROVE buf[b + q] = s[a + q]
        <5>1. a + q \in 1 .. Len(s) /\ (a + q) + j - 1 = b + q
          BY <1>1, <3>1, <3>2
        <5> QED BY <1>1, <5>1
      <4> DEFINE x == Len(s) - a
                 y == Len(buf) - b
      <4>2. x \in Int /\ y \in Int /\ x = y
        BY <1>1, <3>3
      <4>3. \A m \in 0 .. x : buf[b + m] = s[a + m]
        BY <4>1
      <4> HIDE DEF x, y
      <4>4. /\ x >= y /\ y >= x
            /\ \A m \in 0 .. x : buf[b + m] = s[a + m]
            /\ \A m \in 0 .. y : s[a + m] = buf[b + m]
        BY <4>2, <4>3
      <4>5. Agrees(s, a, buf, b) /\ Agrees(buf, b, s, a)
        BY <4>4 DEF Agrees, x, y
      <4> QED BY <4>5
    <3>5. CASE Short(s, a)
      <4>1. Short(buf, b)
        BY <1>1, <3>3, <3>4, <3>5, SameJudged
      <4>2. From(s, a) = From(buf, b)
        <5>1. a \in 1 .. N
          BY <1>1, <3>3
        <5> QED BY <1>2, <3>2, <5>1
      <4>3. scan_from(s)[k] = scan_from(buf)[i]
        BY <2>2, <2>6, <3>3, <3>5, <4>1, <4>2 DEF Step, a, b
      <4> QED BY <4>3
    <3>6. CASE ~Short(s, a)
      <4>1. /\ ~Short(buf, b) /\ Taken(buf, b) = Taken(s, a)
            /\ Behind(buf, b) - b = Behind(s, a) - a
        BY <1>1, <3>3, <3>4, <3>6, SameJudged
      <4>2. Behind(s, a) \in a + 1 .. Len(s) + 1 /\ Behind(buf, b) \in b + 1 .. Len(buf) + 1
        BY <1>1, <3>3, <3>6, <4>1, JudgedIs
      <4>3. Behind(s, a) \in k + 1 .. N /\ Behind(buf, b) = Behind(s, a) + j - 1
        <5> DEFINE x == Behind(s, a)
                   y == Behind(buf, b)
        <5>1. /\ y - b = x - a /\ x \in a + 1 .. Len(s) + 1 /\ y \in b + 1 .. Len(buf) + 1
              /\ a \in Nat /\ b \in Nat /\ k \in Nat /\ k <= a /\ j \in Nat
          BY <1>1, <3>1, <3>3, <4>1, <4>2
        <5> HIDE DEF x, y
        <5>2. x \in k + 1 .. N
          BY <1>1, <5>1
        <5>3. y = x + j - 1
          BY <1>1, <3>2, <5>1
        <5> QED BY <5>2, <5>3 DEF x, y
      <4>4. scan_from(s)[Behind(s, a)] = scan_from(buf)[Behind(buf, b)]
        BY <1>3, <4>3
      <4>5. scan_from(s)[k] = scan_from(buf)[i]
        BY <2>2, <2>6, <3>3, <3>6, <4>1, <4>4 DEF Step, a, b
      <4> QED BY <4>5
    <3> QED BY <3>5, <3>6
  <2> QED BY <2>5, <2>6
<1>4. N \in Nat
  BY <1>1
<1> HIDE DEF S, N
<1>5. \A k \in 1 .. N : k \in S
  BY <1>3, <1>4, Downwards
<1> QED BY <1>5 DEF S, N, s

(* What a scan leaves is where a frame may have begun, and has no frame in *)
(* it; a buffer of MAXFRAME is enough for it.                              *)
Left(buf, i, j) ==
  /\ scan_from(buf)[i].rest = From(buf, j)
  /\ scan_from(buf)[j].frames = <<>>
  /\ Len(buf) - j + 1 <= MAXFRAME

LEMMA FoundIs ==
  ASSUME NEW buf \in Bytes, NEW i \in 1 .. Len(buf) + 1
  PROVE  LET f == scan_from(buf)[i]
             sof == First(buf, i)
         IN  /\ Starts(buf, i) = {} =>
                   f.frames = <<>> /\ f.rest = NoStart(buf, i)
             /\ Starts(buf, i) # {} =>
                   /\ sof \in Starts(buf, i) /\ sof \in 1 .. Len(buf) /\ sof >= i
                   /\ Short(buf, sof) => f.frames = <<>> /\ f.rest = From(buf, sof)
                   /\ ~Short(buf, sof) =>
                        /\ f.frames = Taken(buf, sof) \o scan_from(buf)[Behind(buf, sof)].frames
                        /\ f.rest = scan_from(buf)[Behind(buf, sof)].rest
                        /\ Behind(buf, sof) \in i + 1 .. Len(buf) + 1
                        /\ Taken(buf, sof) \in Seq(FrameSet)
<1>1. Len(buf) \in Nat /\ i \in Nat \ {0}
  BY BytesAre
<1> DEFINE f == scan_from(buf)[i]
           sof == First(buf, i)
<1>2. f = Step(buf, scan_from(buf), i)
  BY ScanIs
<1>3. ASSUME Starts(buf, i) = {}
      PROVE  f.frames = <<>> /\ f.rest = NoStart(buf, i)
  BY <1>2, <1>3 DEF Step, Found
<1>4. ASSUME Starts(buf, i) # {}
      PROVE  sof \in Starts(buf, i) /\ sof \in 1 .. Len(buf) /\ sof >= i
  BY <1>1, <1>4, FirstIs
<1>5. ASSUME Starts(buf, i) # {}, Short(buf, sof)
      PROVE  f.frames = <<>> /\ f.rest = From(buf, sof)
  BY <1>2, <1>5 DEF Step, Found
<1>6. ASSUME Starts(buf, i) # {}, ~Short(buf, sof)
      PROVE  /\ f.frames = Taken(buf, sof) \o scan_from(buf)[Behind(buf, sof)].frames
             /\ f.rest = scan_from(buf)[Behind(buf, sof)].rest
             /\ Behind(buf, sof) \in i + 1 .. Len(buf) + 1
             /\ Taken(buf, sof) \in Seq(FrameSet)
  <2>1. f = Found(Taken(buf, sof) \o scan_from(buf)[Behind(buf, sof)].frames,
                  scan_from(buf)[Behind(buf, sof)].rest)
    BY <1>2, <1>6 DEF Step
  <2>2. sof \in 1 .. Len(buf) /\ sof >= i
    BY <1>4, <1>6
  <2> HIDE DEF f, sof
  <2>3. Behind(buf, sof) \in sof + 1 .. Len(buf) + 1
    BY <1>6, <2>2, JudgedIs
  <2>4. Agrees(buf, sof, buf, sof)
    BY <1>1, <2>2 DEF Agrees
  <2>5. Taken(buf, sof) \in Seq(FrameSet)
    BY <1>6, <2>2, <2>4, SameJudged
  <2>6. /\ f.frames = Taken(buf, sof) \o scan_from(buf)[Behind(buf, sof)].frames
        /\ f.rest = scan_from(buf)[Behind(buf, sof)].rest
    BY <2>1 DEF Found
  <2>7. Behind(buf, sof) \in i + 1 .. Len(buf) + 1
    BY <1>1, <2>2, <2>3
  <2> QED BY <2>5, <2>6, <2>7
<1> QED BY <1>3, <1>4, <1>5, <1>6

LEMMA ShortFits ==
  ASSUME NEW buf \in Bytes, NEW sof \in 1 .. Len(buf), Short(buf, sof)
  PROVE  Len(buf) - sof + 1 <= MAXFRAME
<1>1. MAXPAY \in Nat /\ BLOB_MAX_PAYLOAD \in Nat /\ MAXFRAME \in Nat
      /\ MAXPAY + 8 <= MAXFRAME /\ BLOB_MAX_PAYLOAD + 8 <= MAXFRAME
  BY UartAssumption
<1>2. Len(buf) - sof + 1 \in Nat
  BY BytesAre
<1>3. CASE Len(buf) - sof + 1 < 9
  BY <1>1, <1>2, <1>3
<1>4. CASE Len(buf) - sof + 1 >= 9
  <2>1. ~Overlong(buf, sof) /\ Len(buf) - sof + 1 < LenAt(buf, sof) + 9
    BY <1>2, <1>4 DEF Short
  <2>2. buf[sof + 5] \in Nat /\ buf[sof + 6] \in Nat
    BY <1>4, BytesAre
  <2>3. LenAt(buf, sof) \in Nat
    <3>1. (sof + 5) + 1 = sof + 6
      OBVIOUS
    <3> QED BY <2>2, <3>1 DEF LenAt, u16le
  <2>4. LenAt(buf, sof) <= MAXPAY \/ LenAt(buf, sof) <= BLOB_MAX_PAYLOAD
    BY <1>1, <2>1, <2>3 DEF Overlong, type_cap
  <2> QED BY <1>1, <1>2, <2>1, <2>3, <2>4
<1> QED BY <1>2, <1>3, <1>4

LEMMA NoStartIs ==
  ASSUME NEW buf \in Bytes, NEW i \in 1 .. Len(buf) + 1
  PROVE  NoStart(buf, i) = From(buf, IF i > Len(buf) THEN i ELSE Len(buf))
<1>1. Len(buf) \in Nat /\ \A k \in 1 .. Len(buf) : buf[k] \in Nat
  BY BytesAre
<1>2. CASE i > Len(buf)
  <2>1. From(buf, i) \in Bytes /\ Len(From(buf, i)) = Len(buf) - i + 1
    BY FromIs
  <2>2. Len(From(buf, i)) = 0
    BY <1>1, <1>2, <2>1
  <2>3. From(buf, i) = <<>>
    BY <2>1, <2>2, EmptySeq DEF Bytes
  <2> QED BY <1>2, <2>3 DEF NoStart
<1>3. CASE ~(i > Len(buf))
  <2> DEFINE l == Len(buf)
             x == From(buf, l)
             y == <<buf[l]>>
  <2>1. l \in 1 .. Len(buf) + 1 /\ Len(buf) - l + 1 = 1
    BY <1>1, <1>3
  <2>2. x \in Bytes /\ Len(x) = 1 /\ x[1] = buf[l + 1 - 1]
    <3>1. /\ x \in Bytes /\ Len(x) = Len(buf) - l + 1
          /\ \A k \in 1 .. Len(buf) - l + 1 : x[k] = buf[l + k - 1]
      <4> HIDE DEF l
      <4> QED BY <2>1, FromIs
    <3> HIDE DEF l, x
    <3> QED BY <2>1, <3>1
  <2>3. y \in Seq(Nat) /\ Len(y) = 1 /\ y[1] = buf[l]
    BY <1>1, <1>3
  <2>4. l + 1 - 1 = l
    BY <1>1
  <2> HIDE DEF x, y
  <2>5. x = y
    BY <2>2, <2>3, <2>4, SeqEqual DEF Bytes
  <2> QED BY <1>3, <2>5 DEF NoStart, x, y
<1> QED BY <1>2, <1>3

LEMMA ScanType ==
  ASSUME NEW buf \in Bytes
  PROVE  \A i \in 1 .. Len(buf) + 1 :
           /\ scan_from(buf)[i].frames \in Seq(FrameSet)
           /\ \E j \in i .. Len(buf) + 1 : Left(buf, i, j)
<1> DEFINE N == Len(buf) + 1
           S == {i \in 1 .. N : /\ scan_from(buf)[i].frames \in Seq(FrameSet)
                                /\ \E j \in i .. N : Left(buf, i, j)}
<1>1. N \in Nat /\ Len(buf) \in Nat
  BY BytesAre
<1>2. ASSUME NEW i \in 1 .. N, \A k \in i + 1 .. N : k \in S PROVE i \in S
  <2> DEFINE sof == First(buf, i)
  <2>0. <<>> \in Seq(FrameSet)
    OBVIOUS
  <2>1. CASE Starts(buf, i) = {}
    <3> DEFINE j == IF i > Len(buf) THEN i ELSE Len(buf)
    <3>1. scan_from(buf)[i].frames = <<>> /\ scan_from(buf)[i].rest = NoStart(buf, i)
      BY <2>1, FoundIs
    <3>2. j \in i .. N /\ j \in 1 .. Len(buf) + 1 /\ Len(buf) - j + 1 <= 1
      BY <1>1
    <3>3. scan_from(buf)[i].rest = From(buf, j)
      BY <3>1, NoStartIs
    <3>4. scan_from(buf)[j].frames = <<>>
      <4>1. j .. (Len(buf) - 1) = {}
        BY <1>1
      <4>2. Starts(buf, j) = {}
        <5> HIDE DEF j
        <5> QED BY <4>1 DEF Starts
      <4> HIDE DEF j
      <4> QED BY <3>2, <4>2, FoundIs
    <3>5. 1 <= MAXFRAME /\ MAXFRAME \in Nat
      BY UartAssumption
    <3>6. Len(buf) - j + 1 <= MAXFRAME
      BY <1>1, <3>2, <3>5
    <3> HIDE DEF j
    <3>7. Left(buf, i, j)
      BY <3>3, <3>4, <3>6 DEF Left
    <3> QED BY <2>0, <3>1, <3>2, <3>7
  <2>2. CASE Starts(buf, i) # {} /\ Short(buf, sof)
    <3>1. /\ scan_from(buf)[i].frames = <<>> /\ scan_from(buf)[i].rest = From(buf, sof)
          /\ sof \in Starts(buf, i) /\ sof \in 1 .. Len(buf) /\ sof >= i
      BY <2>2, FoundIs
    <3>2. First(buf, sof) = sof /\ Starts(buf, sof) # {}
      <4>1. sof \in Starts(buf, sof) /\ \A q \in Starts(buf, sof) : sof <= q
        BY <1>1, <3>1 DEF Starts
      <4>2. sof \in Nat \ {0}
        BY <3>1
      <4> HIDE DEF sof
      <4> QED BY <4>1, <4>2, FirstOf
    <3>3. sof \in 1 .. Len(buf) + 1 /\ sof \in i .. N
      BY <1>1, <3>1
    <3>4. scan_from(buf)[sof].frames = <<>>
      <4>1. Short(buf, First(buf, sof))
        BY <2>2, <3>2
      <4> HIDE DEF sof
      <4> QED BY <3>2, <3>3, <4>1, FoundIs
    <3>5. Len(buf) - sof + 1 <= MAXFRAME
      BY <2>2, <3>1, ShortFits
    <3>6. Left(buf, i, sof)
      BY <3>1, <3>4, <3>5 DEF Left
    <3> QED BY <2>0, <3>1, <3>3, <3>6
  <2>3. CASE Starts(buf, i) # {} /\ ~Short(buf, sof)
    <3> DEFINE b == Behind(buf, sof)
    <3>1. /\ scan_from(buf)[i].frames = Taken(buf, sof) \o scan_from(buf)[b].frames
          /\ scan_from(buf)[i].rest = scan_from(buf)[b].rest
          /\ b \in i + 1 .. N /\ Taken(buf, sof) \in Seq(FrameSet)
      BY <2>3, FoundIs
    <3> HIDE DEF b, sof
    <3>2. b \in S
      BY <1>2, <3>1
    <3>3. scan_from(buf)[b].frames \in Seq(FrameSet) /\ \E j \in b .. N : Left(buf, b, j)
      BY <3>2
    <3>4. scan_from(buf)[i].frames \in Seq(FrameSet)
      BY <3>1, <3>3, ConcatProperties
    <3>5. \E j \in i .. N : Left(buf, i, j)
      BY <1>1, <3>1, <3>3 DEF Left
    <3> QED BY <3>4, <3>5
  <2> QED BY <2>1, <2>2, <2>3
<1> HIDE DEF S
<1>3. \A i \in 1 .. N : i \in S
  BY <1>1, <1>2, Downwards
<1> QED BY <1>3 DEF S

(* Fewer bytes than the shortest frame has hold none; nor does what a scan *)
(* leaves.                                                                 *)
LEMMA NothingShort ==
  ASSUME NEW buf \in Bytes, Len(buf) < 9
  PROVE  scan(buf).frames = <<>>
<1>1. Len(buf) \in Nat /\ 1 \in 1 .. Len(buf) + 1
  BY BytesAre
<1>2. \A sof \in 1 .. Len(buf) : Short(buf, sof)
  BY <1>1 DEF Short
<1>3. scan_from(buf)[1].frames = <<>>
  BY <1>1, <1>2, FoundIs
<1> QED BY <1>3 DEF scan

LEMMA RestIs ==
  ASSUME NEW buf \in Bytes
  PROVE  /\ scan(buf).frames \in Seq(FrameSet)
         /\ scan(buf).rest \in Bytes
         /\ Len(scan(buf).rest) \in Nat
         /\ Len(scan(buf).rest) <= Len(buf)
         /\ Len(scan(buf).rest) <= MAXFRAME
         /\ \E j \in 1 .. Len(buf) + 1 : Left(buf, 1, j)
         /\ scan(scan(buf).rest).frames = <<>>
<1>1. Len(buf) \in Nat /\ 1 \in 1 .. Len(buf) + 1
  BY BytesAre
<1>2. /\ scan_from(buf)[1].frames \in Seq(FrameSet)
      /\ \E j \in 1 .. Len(buf) + 1 : Left(buf, 1, j)
  BY <1>1, ScanType
<1>3. PICK j \in 1 .. Len(buf) + 1 : Left(buf, 1, j)
  BY <1>2
<1>4. /\ scan(buf).rest = From(buf, j) /\ scan_from(buf)[j].frames = <<>>
      /\ Len(buf) - j + 1 <= MAXFRAME
  BY <1>3 DEF Left, scan
<1>5. From(buf, j) \in Bytes /\ Len(From(buf, j)) = Len(buf) - j + 1
  BY FromIs
<1>6. scan_from(From(buf, j))[1] = scan_from(buf)[1 + j - 1]
  <2>1. 1 \in 1 .. Len(From(buf, j)) + 1
    BY <1>1, <1>5
  <2> QED BY <2>1, Shift
<1>7. 1 + j - 1 = j
  OBVIOUS
<1> QED BY <1>1, <1>2, <1>3, <1>4, <1>5, <1>6, <1>7 DEF scan

Joins(x, y, z) == x \o (y \o z) = (x \o y) \o z

LEMMA Joined ==
  ASSUME NEW E, NEW x \in Seq(E), NEW y \in Seq(E), NEW z \in Seq(E)
  PROVE  Joins(x, y, z)
BY ConcatAssociative, Z3 DEF Joins

LEMMA LeftIsOne ==
  ASSUME NEW buf \in Bytes, NEW i \in 1 .. Len(buf) + 1, NEW j \in 1 .. Len(buf) + 1,
         From(buf, i) = From(buf, j)
  PROVE  i = j
<1>1. Len(From(buf, i)) = Len(buf) - i + 1 /\ Len(From(buf, j)) = Len(buf) - j + 1
  BY FromIs
<1>2. Len(buf) - i + 1 = Len(buf) - j + 1
  BY <1>1
<1>3. Len(buf) \in Nat
  BY BytesAre
<1> QED BY <1>2, <1>3

(* Where it begins does not matter as long as the first start is the same. *)
LEMMA SameStart ==
  ASSUME NEW buf \in Bytes, NEW i \in 1 .. Len(buf) + 1, NEW j \in 1 .. Len(buf) + 1,
         Starts(buf, i) = Starts(buf, j)
  PROVE  scan_from(buf)[i].frames = scan_from(buf)[j].frames
<1>1. First(buf, i) = First(buf, j)
  BY DEF First
<1>2. CASE Starts(buf, i) = {}
  BY <1>2, FoundIs
<1>3. CASE Starts(buf, i) # {} /\ Short(buf, First(buf, i))
  BY <1>1, <1>3, FoundIs
<1>4. CASE Starts(buf, i) # {} /\ ~Short(buf, First(buf, i))
  <2> DEFINE sof == First(buf, i)
  <2>1. scan_from(buf)[i].frames = Taken(buf, sof) \o scan_from(buf)[Behind(buf, sof)].frames
    BY <1>4, FoundIs
  <2>2. /\ Starts(buf, j) # {} /\ ~Short(buf, First(buf, j))
        /\ First(buf, j) = sof
    BY <1>1, <1>4
  <2>3. scan_from(buf)[j].frames = Taken(buf, sof) \o scan_from(buf)[Behind(buf, sof)].frames
    <3> HIDE DEF sof
    <3>1. scan_from(buf)[j].frames = Taken(buf, First(buf, j)) \o scan_from(buf)[Behind(buf, First(buf, j))].frames
      BY <2>2, FoundIs
    <3> QED BY <2>2, <3>1
  <2> QED BY <2>1, <2>3
<1> QED BY <1>2, <1>3, <1>4

(* The scanner may be stopped anywhere: what it finds when more bytes have *)
(* come is what it had found, and then what it finds in what was left      *)
(* together with the new ones.                                             *)
LEMMA ScanOn ==
  ASSUME NEW buf \in Bytes, NEW more \in Bytes
  PROVE  \A i \in 1 .. Len(buf) + 1 : \A j \in 1 .. Len(buf) + 1 :
           scan_from(buf)[i].rest = From(buf, j) =>
             scan_from(buf \o more)[i].frames =
               scan_from(buf)[i].frames \o scan_from(buf \o more)[j].frames
<1> DEFINE N == Len(buf) + 1
           s == buf \o more
           Holds(i) == \A j \in 1 .. N :
                         scan_from(buf)[i].rest = From(buf, j) =>
                           scan_from(s)[i].frames = scan_from(buf)[i].frames \o scan_from(s)[j].frames
           S == {i \in 1 .. N : Holds(i)}
<1>1. /\ N \in Nat /\ Len(buf) \in Nat /\ Len(more) \in Nat
      /\ s \in Bytes /\ Len(s) = Len(buf) + Len(more) /\ Len(s) \in Nat
      /\ \A k \in 1 .. Len(buf) : s[k] = buf[k]
  <2>1. /\ s \in Seq(Nat) /\ Len(s) = Len(buf) + Len(more)
        /\ \A k \in 1 .. Len(buf) + Len(more) :
              s[k] = IF k <= Len(buf) THEN buf[k] ELSE more[k - Len(buf)]
    BY ConcatProperties DEF Bytes
  <2>2. Len(buf) \in Nat /\ Len(more) \in Nat
    BY BytesAre
  <2> QED BY <2>1, <2>2 DEF Bytes
<1> HIDE DEF s
<1>2. ASSUME NEW i \in 1 .. N, \A k \in i + 1 .. N : k \in S PROVE i \in S
  <2> DEFINE sof == First(buf, i)
  <2>0. i \in Nat \ {0} /\ i \in 1 .. Len(s) + 1 /\ N <= Len(s) + 1
    BY <1>1
  <2>1. ASSUME NEW p \in i .. Len(buf) - 1
        PROVE  p \in Starts(s, i) <=> p \in Starts(buf, i)
    <3>1. p \in i .. Len(s) - 1 /\ s[p] = buf[p] /\ s[p + 1] = buf[p + 1]
      BY <1>1, <2>0
    <3> QED BY <3>1 DEF Starts
  <2> SUFFICES ASSUME NEW j \in 1 .. N, scan_from(buf)[i].rest = From(buf, j)
               PROVE  scan_from(s)[i].frames = scan_from(buf)[i].frames \o scan_from(s)[j].frames
    OBVIOUS
  <2>2. j \in 1 .. Len(s) + 1
    BY <1>1
  <2>3. /\ scan_from(s)[i].frames \in Seq(FrameSet) /\ scan_from(s)[j].frames \in Seq(FrameSet)
        /\ scan_from(buf)[i].frames \in Seq(FrameSet)
    BY <1>1, <2>0, <2>2, ScanType
  <2>4. CASE Starts(buf, i) = {}
    <3> DEFINE l == IF i > Len(buf) THEN i ELSE Len(buf)
    <3>1. scan_from(buf)[i].frames = <<>> /\ scan_from(buf)[i].rest = From(buf, l)
      BY <2>4, FoundIs, NoStartIs
    <3>2. l \in 1 .. N
      BY <1>1
    <3>3. j = l
      <4> HIDE DEF l
      <4> QED BY <3>1, <3>2, LeftIsOne
    <3>4. Starts(s, i) = Starts(s, j)
      <4>1. Starts(s, j) \subseteq Starts(s, i)
        BY <1>1, <2>0, <3>3 DEF Starts
      <4>2. ASSUME NEW p \in Starts(s, i) PROVE p \in Starts(s, j)
        <5>1. p \in i .. Len(s) - 1 /\ s[p] = SOF1 /\ s[p + 1] = SOF2
          BY DEF Starts
        <5>2. ~(p \in i .. Len(buf) - 1)
          BY <2>1, <2>4
        <5>3. p \in j .. Len(s) - 1
          BY <1>1, <2>0, <3>3, <5>1, <5>2
        <5> QED BY <5>1, <5>3 DEF Starts
      <4> QED BY <4>1, <4>2
    <3>5. scan_from(s)[i].frames = scan_from(s)[j].frames
      BY <1>1, <2>0, <2>2, <3>4, SameStart
    <3> QED BY <2>3, <3>1, <3>5, ConcatEmptySeq
  <2>5. CASE Starts(buf, i) # {}
    <3>1. sof \in Starts(buf, i) /\ sof \in 1 .. Len(buf) /\ sof >= i
      BY <2>5, FoundIs
    <3>2. sof \in i .. Len(buf) - 1
      BY <3>1 DEF Starts
    <3>3. sof \in Starts(s, i)
      <4> HIDE DEF sof
      <4> QED BY <2>1, <3>1, <3>2
    <3>4. ASSUME NEW q \in Starts(s, i) PROVE sof <= q
      <4>1. q \in i .. Len(s) - 1
        BY DEF Starts
      <4>2. CASE q \in i .. Len(buf) - 1
        <5>1. q \in Starts(buf, i)
          BY <2>1, <4>2
        <5> QED BY <2>0, <5>1, <2>5, FirstIs
      <4>3. CASE ~(q \in i .. Len(buf) - 1)
        <5> HIDE DEF sof
        <5> QED BY <1>1, <2>0, <3>2, <4>1, <4>3
      <4> QED BY <4>2, <4>3
    <3>5. First(s, i) = sof
      <4> HIDE DEF sof
      <4> QED BY <1>1, <2>0, <3>3, <3>4, FirstOf
    <3> HIDE DEF sof
    <3>6. CASE Short(buf, sof)
      <4>1. scan_from(buf)[i].frames = <<>> /\ scan_from(buf)[i].rest = From(buf, sof)
        BY <2>5, <3>6, FoundIs DEF sof
      <4>2. sof \in 1 .. Len(buf) + 1
        BY <1>1, <3>1
      <4>3. j = sof
        BY <4>1, <4>2, LeftIsOne
      <4>4. sof \in 1 .. Len(s) + 1 /\ sof \in Nat \ {0}
        BY <1>1, <3>1
      <4>5. /\ sof \in Starts(s, sof) /\ \A q \in Starts(s, sof) : sof <= q
            /\ Starts(s, sof) # {}
        <5>1. sof \in i .. Len(s) - 1 /\ s[sof] = SOF1 /\ s[sof + 1] = SOF2
          BY <3>3 DEF Starts
        <5>2. sof \in sof .. Len(s) - 1 /\ \A q \in sof .. Len(s) - 1 : sof <= q
          BY <1>1, <4>4, <5>1
        <5>3. sof \in Starts(s, sof)
          BY <5>1, <5>2 DEF Starts
        <5>4. Starts(s, sof) \subseteq sof .. Len(s) - 1
          BY DEF Starts
        <5> QED BY <5>2, <5>3, <5>4
      <4>6. First(s, sof) = sof
        BY <1>1, <4>4, <4>5, FirstOf
      <4>7. Starts(s, i) = Starts(s, sof)
        <5>1. Starts(s, sof) \subseteq Starts(s, i)
          BY <1>1, <2>0, <3>1 DEF Starts
        <5>2. ASSUME NEW q \in Starts(s, i) PROVE q \in Starts(s, sof)
          <6>1. q \in i .. Len(s) - 1 /\ s[q] = SOF1 /\ s[q + 1] = SOF2 /\ sof <= q
            BY <3>4 DEF Starts
          <6>2. q \in sof .. Len(s) - 1
            BY <1>1, <2>0, <4>4, <6>1
          <6> QED BY <6>1, <6>2 DEF Starts
        <5> QED BY <5>1, <5>2
      <4>8. scan_from(s)[i].frames = scan_from(s)[sof].frames
        BY <1>1, <2>0, <4>4, <4>7, SameStart
      <4> QED BY <2>3, <4>1, <4>3, <4>8, ConcatEmptySeq
    <3>7. CASE ~Short(buf, sof)
      <4> DEFINE b == Behind(buf, sof)
      <4>1. /\ scan_from(buf)[i].frames = Taken(buf, sof) \o scan_from(buf)[b].frames
            /\ scan_from(buf)[i].rest = scan_from(buf)[b].rest
            /\ b \in i + 1 .. N /\ Taken(buf, sof) \in Seq(FrameSet)
        BY <2>5, <3>7, FoundIs DEF sof
      <4>2. Agrees(buf, sof, s, sof)
        <5>1. ASSUME NEW m \in 0 .. Len(buf) - sof PROVE s[sof + m] = buf[sof + m]
          <6>1. sof + m \in 1 .. Len(buf)
            BY <1>1, <3>1
          <6> QED BY <1>1, <6>1
        <5>2. Len(s) - sof >= Len(buf) - sof
          BY <1>1, <3>1
        <5> QED BY <5>1, <5>2 DEF Agrees
      <4>3. sof \in 1 .. Len(s)
        BY <1>1, <3>1
      <4>4. /\ ~Short(s, sof) /\ Taken(s, sof) = Taken(buf, sof)
            /\ Behind(s, sof) - sof = b - sof
        BY <1>1, <3>1, <3>7, <4>2, <4>3, SameJudged
      <4>5. Behind(s, sof) = b
        <5>1. Behind(s, sof) \in sof + 1 .. Len(s) + 1
          BY <1>1, <4>3, <4>4, JudgedIs
        <5> HIDE DEF b
        <5> QED BY <3>1, <4>1, <4>4, <5>1
      <4>6. scan_from(s)[i].frames = Taken(buf, sof) \o scan_from(s)[b].frames
        <5>1. Starts(s, i) # {} /\ ~Short(s, First(s, i))
          BY <3>3, <3>5, <4>4
        <5>2. scan_from(s)[i].frames =
                Taken(s, First(s, i)) \o scan_from(s)[Behind(s, First(s, i))].frames
          BY <1>1, <2>0, <5>1, FoundIs
        <5> QED BY <3>5, <4>4, <4>5, <5>2
      <4> HIDE DEF b
      <4>7. b \in S
        BY <1>2, <4>1
      <4>8. scan_from(s)[b].frames = scan_from(buf)[b].frames \o scan_from(s)[j].frames
        BY <4>1, <4>7
      <4>9. scan_from(buf)[b].frames \in Seq(FrameSet)
        <5>1. b \in 1 .. Len(buf) + 1
          BY <1>1, <4>1
        <5> QED BY <5>1, ScanType
      <4> DEFINE x == Taken(buf, sof)
                 y == scan_from(buf)[b].frames
                 z == scan_from(s)[j].frames
      <4>10. x \in Seq(FrameSet) /\ y \in Seq(FrameSet) /\ z \in Seq(FrameSet)
        BY <2>3, <4>1, <4>9
      <4>11. /\ scan_from(s)[i].frames = x \o (y \o z)
             /\ scan_from(buf)[i].frames = x \o y
        BY <4>1, <4>6, <4>8
      <4> HIDE DEF x, y, z
      <4>12. Joins(x, y, z)
        BY <4>10, Joined
      <4>13. x \o (y \o z) = (x \o y) \o z
        BY <4>12 DEF Joins
      <4> QED BY <4>11, <4>13 DEF z
    <3> QED BY <3>6, <3>7
  <2> QED BY <2>4, <2>5
<1> HIDE DEF S
<1>3. \A i \in 1 .. N : i \in S
  BY <1>1, <1>2, Downwards
<1> QED BY <1>3 DEF S, s

LEMMA BytesJoin ==
  ASSUME NEW s \in Bytes, NEW t \in Bytes
  PROVE  /\ s \o t \in Bytes /\ Len(s \o t) = Len(s) + Len(t)
         /\ s \o <<>> = s /\ <<>> \o s = s
BY ConcatProperties, ConcatEmptySeq DEF Bytes

LEMMA BytesJoined ==
  ASSUME NEW x \in Bytes, NEW y \in Bytes, NEW z \in Bytes
  PROVE  Joins(x, y, z)
<1>1. x \in Seq(Nat) /\ y \in Seq(Nat) /\ z \in Seq(Nat)
  BY DEF Bytes
<1> QED BY <1>1, Joined

LEMMA FromJoin ==
  ASSUME NEW buf \in Bytes, NEW more \in Bytes, NEW j \in 1 .. Len(buf) + 1
  PROVE  From(buf \o more, j) = From(buf, j) \o more
<1> DEFINE s == buf \o more
           x == From(s, j)
           y == From(buf, j)
           z == y \o more
<1>1. /\ Len(buf) \in Nat /\ Len(more) \in Nat /\ s \in Bytes /\ Len(s) = Len(buf) + Len(more)
      /\ \A k \in 1 .. Len(buf) + Len(more) :
           s[k] = IF k <= Len(buf) THEN buf[k] ELSE more[k - Len(buf)]
  BY BytesAre, ConcatProperties DEF Bytes
<1> HIDE DEF s
<1>2. j \in 1 .. Len(s) + 1
  BY <1>1
<1>3. /\ x \in Bytes /\ Len(x) = Len(s) - j + 1
      /\ \A k \in 1 .. Len(s) - j + 1 : x[k] = s[j + k - 1]
  BY <1>1, <1>2, FromIs
<1>4. /\ y \in Bytes /\ Len(y) = Len(buf) - j + 1
      /\ \A k \in 1 .. Len(buf) - j + 1 : y[k] = buf[j + k - 1]
  BY FromIs
<1> HIDE DEF x, y
<1>5. /\ z \in Seq(Nat) /\ Len(z) = Len(y) + Len(more)
      /\ \A k \in 1 .. Len(y) + Len(more) : z[k] = IF k <= Len(y) THEN y[k] ELSE more[k - Len(y)]
  BY <1>4, ConcatProperties DEF Bytes
<1> HIDE DEF z
<1>6. Len(x) = Len(z)
  BY <1>1, <1>3, <1>4, <1>5
<1>7. ASSUME NEW k \in 1 .. Len(x) PROVE x[k] = z[k]
  <2>1. /\ k \in 1 .. Len(s) - j + 1 /\ k \in 1 .. Len(y) + Len(more)
        /\ j + k - 1 \in 1 .. Len(buf) + Len(more)
    BY <1>1, <1>3, <1>4
  <2>2. x[k] = s[j + k - 1]
    BY <1>3, <2>1
  <2>3. CASE k <= Len(y)
    <3>1. j + k - 1 <= Len(buf) /\ k \in 1 .. Len(buf) - j + 1
      BY <1>1, <1>4, <2>1, <2>3
    <3>2. s[j + k - 1] = buf[j + k - 1] /\ y[k] = buf[j + k - 1] /\ z[k] = y[k]
      BY <1>1, <1>4, <1>5, <2>1, <2>3, <3>1
    <3> QED BY <2>2, <3>2
  <2>4. CASE ~(k <= Len(y))
    <3>1. ~(j + k - 1 <= Len(buf)) /\ j + k - 1 - Len(buf) = k - Len(y)
      BY <1>1, <1>4, <2>1, <2>4
    <3> DEFINE m == j + k - 1
    <3>2. m \in 1 .. Len(buf) + Len(more) /\ ~(m <= Len(buf)) /\ m - Len(buf) = k - Len(y)
      BY <2>1, <3>1
    <3>3. z[k] = more[k - Len(y)]
      BY <1>5, <2>1, <2>4
    <3>4. x[k] = s[m]
      BY <2>2
    <3> HIDE DEF m
    <3>5. s[m] = more[m - Len(buf)]
      BY <1>1, <3>2
    <3> QED BY <3>2, <3>3, <3>4, <3>5
  <2> QED BY <2>3, <2>4
<1>8. x = z
  BY <1>3, <1>5, <1>6, <1>7, SeqEqual DEF Bytes
<1> QED BY <1>8 DEF s, x, y, z

LEMMA ScanAgain ==
  ASSUME NEW buf \in Bytes, NEW more \in Bytes
  PROVE  scan(buf \o more).frames =
           scan(buf).frames \o scan(scan(buf).rest \o more).frames
<1> DEFINE s == buf \o more
<1>1. Len(buf) \in Nat /\ 1 \in 1 .. Len(buf) + 1 /\ s \in Bytes /\ Len(s) = Len(buf) + Len(more)
      /\ Len(more) \in Nat
  BY BytesAre, BytesJoin
<1>2. PICK j \in 1 .. Len(buf) + 1 : Left(buf, 1, j)
  BY RestIs
<1>3. scan(buf).rest = From(buf, j) /\ scan_from(buf)[1].rest = From(buf, j)
  BY <1>2 DEF Left, scan
<1>4. scan_from(s)[1].frames = scan_from(buf)[1].frames \o scan_from(s)[j].frames
  BY <1>1, <1>3, ScanOn
<1>5. From(s, j) = From(buf, j) \o more
  BY FromJoin
<1> HIDE DEF s
<1>6. scan_from(From(s, j))[1] = scan_from(s)[j]
  <2>1. j \in 1 .. Len(s) + 1 /\ 1 + j - 1 = j
    BY <1>1
  <2>2. 1 \in 1 .. Len(From(s, j)) + 1
    <3>1. Len(From(s, j)) = Len(s) - j + 1
      BY <1>1, <2>1, FromIs
    <3> QED BY <1>1, <2>1, <3>1
  <2>3. scan_from(From(s, j))[1] = scan_from(s)[1 + j - 1]
    BY <1>1, <2>1, <2>2, Shift
  <2> QED BY <2>1, <2>3
<1> QED BY <1>3, <1>4, <1>5, <1>6 DEF scan, s

(* What the task has done with and what is left are what there was.        *)
LEMMA TakenAndLeft ==
  ASSUME NEW buf \in Bytes
  PROVE  /\ SubSeq(buf, 1, Len(buf) - Len(scan(buf).rest)) \in Bytes
         /\ SubSeq(buf, 1, Len(buf) - Len(scan(buf).rest)) \o scan(buf).rest = buf
<1>1. PICK j \in 1 .. Len(buf) + 1 : Left(buf, 1, j)
  BY RestIs
<1>2. scan(buf).rest = From(buf, j)
  BY <1>1 DEF Left, scan
<1>3. Len(buf) \in Nat /\ \A k \in 1 .. Len(buf) : buf[k] \in Nat
  BY BytesAre
<1>4. Len(From(buf, j)) = Len(buf) - j + 1
  BY FromIs
<1>5. Len(buf) - Len(scan(buf).rest) = j - 1
  BY <1>2, <1>3, <1>4
<1> DEFINE x == SubSeq(buf, 1, j - 1)
           y == From(buf, j)
           z == x \o y
<1>6. /\ x \in Seq(Nat) /\ Len(x) = j - 1
      /\ \A k \in 1 .. j - 1 : x[k] = buf[k]
  <2>1. /\ x \in Seq(Nat) /\ Len(x) = IF 1 <= j - 1 THEN j - 1 - 1 + 1 ELSE 0
        /\ \A k \in 1 .. j - 1 - 1 + 1 : x[k] = buf[1 + k - 1]
    <3>1. \A k \in 1 .. j - 1 : buf[k] \in Nat
      BY <1>3
    <3> QED BY <3>1, SubSeqProperties
  <2> HIDE DEF x
  <2>2. \A k \in 1 .. j - 1 : 1 + k - 1 = k /\ k \in 1 .. j - 1 - 1 + 1
    OBVIOUS
  <2> QED BY <2>1, <2>2
<1>7. /\ y \in Seq(Nat) /\ Len(y) = Len(buf) - j + 1
      /\ \A k \in 1 .. Len(buf) - j + 1 : y[k] = buf[j + k - 1]
  BY FromIs DEF Bytes
<1> HIDE DEF x, y
<1>8. /\ z \in Seq(Nat) /\ Len(z) = Len(x) + Len(y)
      /\ \A k \in 1 .. Len(x) + Len(y) : z[k] = IF k <= Len(x) THEN x[k] ELSE y[k - Len(x)]
  BY <1>6, <1>7, ConcatProperties
<1> HIDE DEF z
<1>9. Len(z) = Len(buf)
  BY <1>3, <1>6, <1>7, <1>8
<1>10. ASSUME NEW k \in 1 .. Len(buf) PROVE z[k] = buf[k]
  <2>1. k \in 1 .. Len(x) + Len(y)
    BY <1>8, <1>9
  <2>2. CASE k <= Len(x)
    BY <1>6, <1>8, <2>1, <2>2
  <2>3. CASE ~(k <= Len(x))
    <3>1. k - Len(x) \in 1 .. Len(buf) - j + 1 /\ j + (k - Len(x)) - 1 = k
      BY <1>3, <1>6, <2>1, <2>3
    <3>2. y[k - Len(x)] = buf[k]
      BY <1>7, <3>1
    <3> QED BY <1>8, <2>1, <2>3, <3>2
  <2> QED BY <2>2, <2>3
<1>11. z = buf
  BY <1>8, <1>9, <1>10, SeqEqual DEF Bytes
<1> QED BY <1>2, <1>5, <1>6, <1>11 DEF x, y, z, Bytes

-----------------------------------------------------------------------------
(* What is on the line and in the buffer are bytes, what was cut out and   *)
(* handled are frames, and no more waits than was received.                *)
UartType ==
  /\ rx \in Bytes /\ consumed \in Bytes /\ line \in Bytes
  /\ frames \in Seq(FrameSet) /\ handled \in Seq(FrameSet)
  /\ got \in Nat /\ cut \in Nat
  /\ Len(rx) <= got

LEMMA OctetsAreBytes ==
  ASSUME NEW s \in Seq(0 .. 255)
  PROVE  s \in Bytes
<1>1. 0 .. 255 \subseteq Nat
  OBVIOUS
<1> QED BY <1>1, SeqMonotonic DEF Bytes

LEMMA SentAreBytes ==
  /\ \A f \in Frames : build(f) \in Bytes
  /\ Noise \subseteq Bytes
<1>1. ASSUME NEW f \in Frames PROVE build(f) \in Bytes
  <2>1. f.type \in Nat /\ f.id \in Nat /\ f.payload \in Seq(Nat) /\ Len(f.payload) \in Nat
    <3>1. f.type \in 0 .. 255 /\ f.id \in 0 .. 255 /\ f.payload \in Seq(0 .. 255)
      BY UartAssumption
    <3>2. f.payload \in Seq(Nat)
      BY <3>1, OctetsAreBytes DEF Bytes
    <3>3. Len(f.payload) \in Nat
      BY <3>2, LenProperties
    <3>4. 0 .. 255 \subseteq Nat
      OBVIOUS
    <3> QED BY <3>1, <3>2, <3>3, <3>4
  <2>2. ASSUME NEW v \in Nat PROVE pack_u16le(v) \in Bytes
    <3>1. v % 256 \in Nat /\ v \div 256 \in Nat
      OBVIOUS
    <3> QED BY <3>1 DEF pack_u16le, Bytes
  <2> DEFINE size == pack_u16le(Len(f.payload))
             head == <<VER, f.type, f.id>>
             body == head \o size \o f.payload
             start == <<SOF1, SOF2>>
             crc == pack_u16le(crc16(body))
  <2>3. head \in Bytes /\ start \in Bytes
    BY <2>1 DEF VER, SOF1, SOF2, Bytes
  <2>4. size \in Bytes
    BY <2>1, <2>2
  <2>5. body \in Bytes
    <3>1. f.payload \in Bytes
      BY <2>1 DEF Bytes
    <3> HIDE DEF head, size
    <3>2. head \o size \in Bytes
      BY <2>3, <2>4, BytesJoin
    <3> QED BY <3>1, <3>2, BytesJoin
  <2> HIDE DEF body
  <2>6. crc \in Bytes
    BY <2>2, <2>5, CrcIsNat
  <2>7. build(f) = start \o body \o crc
    BY DEF build, body
  <2> HIDE DEF start, crc
  <2>8. start \o body \in Bytes
    BY <2>3, <2>5, BytesJoin
  <2> QED BY <2>6, <2>7, <2>8, BytesJoin
<1>2. ASSUME NEW s \in Noise PROVE s \in Bytes
  <2>1. s \in Seq(0 .. 255)
    BY UartAssumption
  <2> QED BY <2>1, OctetsAreBytes
<1> QED BY <1>1, <1>2

(* The end of what is too long, and the pieces of what is on the line.     *)
LEMMA LastOfIs ==
  ASSUME NEW s \in Bytes, NEW k \in Nat \ {0}
  PROVE  /\ LastOf(s, k) \in Bytes
         /\ Len(LastOf(s, k)) <= Len(s)
         /\ Len(LastOf(s, k)) <= k
         /\ Len(s) <= k => LastOf(s, k) = s
<1>1. Len(s) \in Nat
  BY BytesAre
<1>2. CASE Len(s) > k
  <2> DEFINE i == Len(s) - k + 1
  <2>1. i \in 1 .. Len(s) + 1 /\ Len(s) - i + 1 = k
    BY <1>1, <1>2
  <2>2. LastOf(s, k) = From(s, i)
    BY <1>2 DEF LastOf
  <2> HIDE DEF i
  <2>3. From(s, i) \in Bytes /\ Len(From(s, i)) = Len(s) - i + 1
    BY <2>1, FromIs
  <2> QED BY <1>1, <1>2, <2>1, <2>2, <2>3
<1>3. CASE ~(Len(s) > k)
  BY <1>1, <1>3 DEF LastOf
<1> QED BY <1>2, <1>3

LEMMA PieceIs ==
  ASSUME NEW s \in Bytes, NEW k \in 1 .. Len(s)
  PROVE  /\ SubSeq(s, 1, k) \in Bytes /\ Len(SubSeq(s, 1, k)) = k
         /\ From(s, k + 1) \in Bytes
<1>1. Len(s) \in Nat /\ \A m \in 1 .. k : s[m] \in Nat
  BY BytesAre
<1>2. SubSeq(s, 1, k) \in Seq(Nat) /\ Len(SubSeq(s, 1, k)) = IF 1 <= k THEN k - 1 + 1 ELSE 0
  BY <1>1, SubSeqProperties
<1>3. k + 1 \in 1 .. Len(s) + 1
  BY <1>1
<1>4. From(s, k + 1) \in Bytes
  <2> DEFINE m == k + 1
  <2> HIDE DEF m
  <2>1. From(s, m) \in Bytes
    BY <1>3, FromIs DEF m
  <2> QED BY <2>1 DEF m
<1> QED BY <1>1, <1>2, <1>4 DEF Bytes

(* The rest of a scan is kept whole: the buffer is long enough for it.     *)
LEMMA RestIsKept ==
  ASSUME NEW buf \in Bytes
  PROVE  /\ LastOf(scan(buf).rest, MAXFRAME) = scan(buf).rest
         /\ ~(Len(scan(buf).rest) > MAXFRAME)
<1>1. MAXFRAME \in Nat \ {0}
  BY UartAssumption
<1>2. scan(buf).rest \in Bytes /\ Len(scan(buf).rest) \in Nat /\ Len(scan(buf).rest) <= MAXFRAME
  BY RestIs
<1> QED BY <1>1, <1>2, LastOfIs

LEMMA UartTypeInit == Init => UartType
BY DEF Init, UartType, Bytes

LEMMA ReceiveIs ==
  ASSUME UartType, NEW k \in 1 .. Len(line), on_receive(k)
  PROVE  /\ UartType'
         /\ \/ cut' # 0
            \/ cut' = cut /\ rx' = rx \o SubSeq(line, 1, k)
<1> DEFINE p == SubSeq(line, 1, k)
           s == rx \o p
<1>1. p \in Bytes /\ Len(p) = k /\ From(line, k + 1) \in Bytes
  BY PieceIs DEF UartType
<1>2. s \in Bytes /\ Len(s) = Len(rx) + k /\ Len(rx) \in Nat
  <2> HIDE DEF p
  <2> QED BY <1>1, BytesJoin, BytesAre DEF UartType
<1>3. BUFF \in Nat \ {0}
  BY UartAssumption
<1>4. /\ rx' = LastOf(s, BUFF) /\ got' = got + k /\ line' = From(line, k + 1)
      /\ cut' = IF Len(rx) + k > BUFF THEN got + k - BUFF ELSE cut
      /\ UNCHANGED <<consumed, frames, handled>>
  BY DEF on_receive, taskVars
<1> HIDE DEF p, s
<1>5. /\ LastOf(s, BUFF) \in Bytes /\ Len(LastOf(s, BUFF)) <= Len(s)
      /\ Len(s) <= BUFF => LastOf(s, BUFF) = s
  BY <1>2, <1>3, LastOfIs
<1>6. k \in Nat /\ got \in Nat /\ cut \in Nat /\ Len(rx) <= got
  BY <1>2 DEF UartType
<1>7. Len(rx') <= got' /\ got' \in Nat
  <2>1. Len(rx') \in Nat
    BY <1>4, <1>5, BytesAre
  <2> QED BY <1>2, <1>4, <1>5, <1>6, <2>1
<1>8. CASE Len(rx) + k > BUFF
  <2>1. cut' \in Nat /\ cut' # 0
    BY <1>2, <1>3, <1>4, <1>6, <1>8
  <2> QED BY <1>1, <1>4, <1>5, <1>7, <2>1 DEF UartType
<1>9. CASE ~(Len(rx) + k > BUFF)
  <2>1. cut' = cut /\ rx' = s
    BY <1>2, <1>3, <1>4, <1>5, <1>6, <1>9
  <2> QED BY <1>1, <1>4, <1>5, <1>6, <1>7, <2>1 DEF UartType, s, p
<1> QED BY <1>8, <1>9

(* A turn that looks at the buffer takes what its scan finds.              *)
LEMMA TurnIs ==
  ASSUME UartType, Turn
  PROVE  /\ UartType'
         /\ \/ Len(rx) < 9 /\ Waits /\ UNCHANGED <<rx, cut, consumed, frames>>
            \/ /\ frames' = scan(rx).frames /\ rx' = scan(rx).rest
               /\ consumed' = consumed \o SubSeq(rx, 1, Len(rx) - Len(scan(rx).rest))
               /\ cut' = cut
               /\ at' = "frames" \/ (frames' = <<>> /\ Waits)
<1> DEFINE s == scan(rx)
           p == SubSeq(rx, 1, Len(rx) - Len(s.rest))
<1>1. rx \in Bytes /\ Len(rx) \in Nat
  BY BytesAre DEF UartType
<1>2. /\ s.frames \in Seq(FrameSet) /\ s.rest \in Bytes
      /\ Len(s.rest) \in Nat /\ Len(s.rest) <= Len(rx)
  BY <1>1, RestIs
<1>3. p \in Bytes
  BY <1>1, TakenAndLeft
<1>4. LastOf(s.rest, MAXFRAME) = s.rest /\ ~(Len(s.rest) > MAXFRAME)
  BY <1>1, RestIsKept
<1>5. UNCHANGED <<handled, line>>
  BY DEF Turn, lineVars
<1> HIDE DEF s, p
<1>6. CASE Len(rx) < 9
  <2>1. Waits /\ UNCHANGED <<rx, cut, consumed, frames, got>>
    BY <1>6 DEF Turn, rxVars
  <2> QED BY <1>5, <1>6, <2>1 DEF UartType
<1>7. CASE ~(Len(rx) < 9)
  <2>1. /\ consumed' = consumed \o p /\ frames' = s.frames /\ got' = got
        /\ IF s.frames # <<>>
            THEN at' = "frames" /\ rx' = s.rest /\ UNCHANGED <<evt_queue, cut>>
            ELSE /\ Waits
                 /\ rx' = LastOf(s.rest, MAXFRAME)
                 /\ cut' = IF Len(s.rest) > MAXFRAME THEN got - MAXFRAME ELSE cut
    BY <1>7 DEF Turn, s, p
  <2>2. rx' = s.rest /\ cut' = cut /\ (at' = "frames" \/ (frames' = <<>> /\ Waits))
    BY <1>4, <2>1
  <2>3. consumed' \in Bytes
    BY <1>3, <2>1, BytesJoin DEF UartType
  <2>4. Len(rx') <= got'
    BY <1>1, <1>2, <2>1, <2>2 DEF UartType
  <2>5. UartType'
    BY <1>2, <1>5, <2>1, <2>2, <2>3, <2>4 DEF UartType
  <2> QED BY <2>1, <2>2, <2>5 DEF s, p
<1> QED BY <1>6, <1>7

LEMMA DispatchIs ==
  ASSUME UartType, Dispatch
  PROVE  /\ UartType'
         /\ handled' \o frames' = handled \o frames
         /\ at' \in {"turn", "frames", "gives way"}
         /\ at' = "turn" => frames' = <<>>
<1>1. UNCHANGED <<rx, got, cut, consumed, line>> /\ at = "frames"
  BY DEF Dispatch, rxVars, lineVars
<1>2. CASE frames = <<>>
  <2>1. at' = "turn" /\ UNCHANGED <<frames, handled>>
    BY <1>2 DEF Dispatch, BehindFrames, taskVars
  <2> QED BY <1>1, <1>2, <2>1 DEF UartType
<1>3. CASE frames # <<>>
  <2>1. /\ handled' = Append(handled, Head(frames)) /\ frames' = Tail(frames)
        /\ at' \in {"frames", "gives way"}
    BY <1>1, <1>3 DEF Dispatch
  <2>2. /\ Head(frames) \in FrameSet /\ Tail(frames) \in Seq(FrameSet)
        /\ frames = <<Head(frames)>> \o Tail(frames)
    BY <1>3 DEF UartType
  <2>3. Append(handled, Head(frames)) = handled \o <<Head(frames)>>
        /\ Append(handled, Head(frames)) \in Seq(FrameSet)
    BY <2>2 DEF UartType
  <2>4. handled' \o frames' = handled \o frames
    <3> DEFINE h == <<Head(frames)>>
               t == Tail(frames)
    <3>1. h \in Seq(FrameSet) /\ t \in Seq(FrameSet) /\ handled \in Seq(FrameSet)
      BY <2>2 DEF UartType
    <3>2. handled' = handled \o h /\ frames' = t /\ frames = h \o t
      BY <2>1, <2>2, <2>3
    <3> HIDE DEF h, t
    <3>3. handled \o (h \o t) = (handled \o h) \o t
      <4>1. Joins(handled, h, t)
        BY <3>1, Joined
      <4> QED BY <4>1 DEF Joins
    <3> QED BY <3>2, <3>3
  <2>5. UartType'
    BY <1>1, <2>1, <2>2, <2>3 DEF UartType
  <2> QED BY <2>1, <2>4, <2>5
<1> QED BY <1>2, <1>3

(* No other step touches what was received.                                *)
LEMMA OtherSteps ==
  ASSUME UartType, [Next]_vars, ~Turn, ~Dispatch, \A k \in 1 .. Len(line) : ~on_receive(k)
  PROVE  UNCHANGED rxVars /\ UNCHANGED <<frames, handled>> /\ line' \in Bytes
<1>1. CASE UNCHANGED vars
  BY <1>1 DEF vars, rxVars, taskVars, lineVars, UartType
<1>2. ASSUME NEW f \in Frames, Sends(f)
      PROVE  UNCHANGED rxVars /\ UNCHANGED <<frames, handled>> /\ line' \in Bytes
  <2>1. line' = line \o build(f) /\ UNCHANGED rxVars /\ UNCHANGED <<frames, handled>>
    BY <1>2 DEF Sends, Puts, taskVars
  <2> QED BY <2>1, SentAreBytes, BytesJoin DEF UartType
<1>3. ASSUME NEW s \in Noise, Disturbs(s)
      PROVE  UNCHANGED rxVars /\ UNCHANGED <<frames, handled>> /\ line' \in Bytes
  <2>1. line' = line \o s /\ UNCHANGED rxVars /\ UNCHANGED <<frames, handled>>
    BY <1>3 DEF Disturbs, Puts, taskVars
  <2> QED BY <2>1, SentAreBytes, BytesJoin DEF UartType
<1>4. CASE queue_evt \/ Opens \/ Timeout \/ Delivers \/ Resumes
  BY <1>4 DEF queue_evt, Opens, Timeout, Delivers, Resumes, taskVars, lineVars, UartType
<1> QED BY <1>1, <1>2, <1>3, <1>4 DEF Next

THEOREM UartTypeHolds == Spec => []UartType
<1>1. Init => UartType
  BY UartTypeInit
<1>2. ASSUME UartType, [Next]_vars PROVE UartType'
  <2>1. CASE Turn
    BY <1>2, <2>1, TurnIs
  <2>2. CASE Dispatch
    BY <1>2, <2>2, DispatchIs
  <2>3. ASSUME NEW k \in 1 .. Len(line), on_receive(k) PROVE UartType'
    BY <1>2, <2>3, ReceiveIs
  <2>4. CASE ~Turn /\ ~Dispatch /\ \A k \in 1 .. Len(line) : ~on_receive(k)
    <3>1. UNCHANGED rxVars /\ UNCHANGED <<frames, handled>> /\ line' \in Bytes
      BY <1>2, <2>4, OtherSteps
    <3> QED BY <1>2, <3>1 DEF UartType, rxVars
  <2> QED BY <2>1, <2>2, <2>3, <2>4
<1> QED BY <1>1, <1>2, PTL DEF Spec

-----------------------------------------------------------------------------
(* Nothing is left behind.                                                 *)

(* Before the task is up nothing is received.                              *)
WaitInv ==
  /\ NothingWaits
  /\ at = "closed" => rx = <<>>

LEMMA EmptyHasNone == scan(<<>>).frames = <<>>
<1>1. <<>> \in Bytes /\ Len(<<>>) < 9
  BY DEF Bytes
<1> QED BY <1>1, NothingShort

LEMMA WaitStep ==
  ASSUME UartType, WaitInv, [Next]_vars
  PROVE  WaitInv'
<1>1. CASE Turn
  <2>1. at = "turn" /\ rx \in Bytes
    BY <1>1 DEF Turn, UartType
  <2>2. CASE Len(rx) < 9 /\ Waits /\ UNCHANGED <<rx, cut, consumed, frames>>
    <3>1. scan(rx).frames = <<>>
      BY <2>1, <2>2, NothingShort
    <3> QED BY <2>2, <3>1 DEF Waits, WaitInv, NothingWaits
  <2>3. CASE /\ rx' = scan(rx).rest
             /\ at' = "frames" \/ (frames' = <<>> /\ Waits)
    <3>1. scan(scan(rx).rest).frames = <<>>
      BY <2>1, RestIs
    <3> QED BY <2>3, <3>1 DEF Waits, WaitInv, NothingWaits
  <2> QED BY <1>1, <2>2, <2>3, TurnIs
<1>2. CASE Dispatch
  <2>1. at' \in {"turn", "frames", "gives way"}
    BY <1>2, DispatchIs
  <2> QED BY <2>1 DEF WaitInv, NothingWaits
<1>3. ASSUME NEW k \in 1 .. Len(line), on_receive(k) PROVE WaitInv'
  <2>1. message' = TRUE /\ at' = at /\ at # "closed"
    BY <1>3 DEF on_receive
  <2> QED BY <2>1 DEF WaitInv, NothingWaits
<1>4. CASE queue_evt
  BY <1>4 DEF queue_evt, rxVars, WaitInv, NothingWaits
<1>5. CASE Opens \/ Timeout
  <2>1. at' = "waits" /\ evt_queue' = <<>> /\ rx' = rx /\ message' = message
        /\ (at = "closed" \/ at = "waits")
    BY <1>5 DEF Opens, Timeout, Waits, rxVars
  <2>2. at = "closed" => scan(rx).frames = <<>>
    BY EmptyHasNone DEF WaitInv
  <2> QED BY <2>1, <2>2 DEF WaitInv, NothingWaits
<1>6. CASE Delivers
  BY <1>6 DEF Delivers, Yielded, rxVars, WaitInv, NothingWaits
<1>7. CASE Resumes
  BY <1>7 DEF Resumes, rxVars, WaitInv, NothingWaits
<1>8. ASSUME NEW s, Puts(s) PROVE WaitInv'
  BY <1>8 DEF Puts, rxVars, WaitInv, NothingWaits
<1>9. CASE UNCHANGED vars
  BY <1>9 DEF vars, rxVars, WaitInv, NothingWaits
<1> QED BY <1>1, <1>2, <1>3, <1>4, <1>5, <1>6, <1>7, <1>8, <1>9 DEF Next, Sends, Disturbs

(* A task that waits and has not been told anything has nothing to do:     *)
(* process_rx leaves no frame in the buffer, the events were written, and  *)
(* whatever came since has told the task (mgmt_uart.lua:314-340, 473-480). *)
THEOREM NothingIsLeftBehind == Spec => []NothingWaits
<1>1. Init => WaitInv
  BY DEF Init, WaitInv, NothingWaits
<1>2. UartType /\ WaitInv /\ [Next]_vars => WaitInv'
  BY WaitStep
<1>3. WaitInv => NothingWaits
  BY DEF WaitInv
<1> QED BY <1>1, <1>2, <1>3, UartTypeHolds, PTL DEF Spec

-----------------------------------------------------------------------------
(* The pieces in which the bytes come do not matter.                       *)

(* What the scanner will make of the bytes to come is the same whether it  *)
(* has seen those before them already or not: the property itself says it  *)
(* only of no bytes to come, which no step would keep.                     *)
Resumable ==
  \A more \in Bytes :
    scan(consumed \o rx \o more).frames = handled \o frames \o scan(rx \o more).frames

PieceInv ==
  /\ cut = 0 => Resumable
  /\ at \in {"closed", "waits", "turn"} => frames = <<>>

LEMMA ResumableSame ==
  ASSUME Resumable, UNCHANGED <<rx, consumed>>, handled' \o frames' = handled \o frames
  PROVE  Resumable'
BY DEF Resumable

LEMMA ReceiveResumes ==
  ASSUME UartType, Resumable, NEW p \in Bytes, rx' = rx \o p,
         UNCHANGED <<consumed, handled, frames>>
  PROVE  Resumable'
<1> SUFFICES ASSUME NEW more \in Bytes
             PROVE  scan(consumed \o rx' \o more).frames =
                      handled \o frames \o scan(rx' \o more).frames
  BY DEF Resumable
<1>1. rx \in Bytes /\ consumed \in Bytes /\ p \o more \in Bytes
  BY BytesJoin DEF UartType
<1>2. rx' \o more = rx \o (p \o more)
  <2>1. Joins(rx, p, more)
    BY <1>1, BytesJoined
  <2> QED BY <2>1 DEF Joins
<1>3. consumed \o rx' = (consumed \o rx) \o p
  <2>1. Joins(consumed, rx, p)
    BY <1>1, BytesJoined
  <2> QED BY <2>1 DEF Joins
<1>4. ((consumed \o rx) \o p) \o more = (consumed \o rx) \o (p \o more)
  <2>1. consumed \o rx \in Bytes
    BY <1>1, BytesJoin
  <2>2. Joins(consumed \o rx, p, more)
    BY <2>1, BytesJoined
  <2> QED BY <2>2 DEF Joins
<1>5. scan(consumed \o rx \o (p \o more)).frames = handled \o frames \o scan(rx \o (p \o more)).frames
  BY <1>1 DEF Resumable
<1> QED BY <1>2, <1>3, <1>4, <1>5

LEMMA TurnResumes ==
  ASSUME UartType, Resumable, frames = <<>>, handled' = handled,
         frames' = scan(rx).frames, rx' = scan(rx).rest,
         consumed' = consumed \o SubSeq(rx, 1, Len(rx) - Len(scan(rx).rest))
  PROVE  Resumable'
<1> SUFFICES ASSUME NEW more \in Bytes
             PROVE  scan(consumed' \o rx' \o more).frames =
                      handled \o frames' \o scan(rx' \o more).frames
  BY DEF Resumable
<1> DEFINE p == SubSeq(rx, 1, Len(rx) - Len(scan(rx).rest))
           f == scan(rx).frames
           g == scan(scan(rx).rest \o more).frames
<1>1. /\ rx \in Bytes /\ consumed \in Bytes /\ handled \in Seq(FrameSet)
      /\ p \in Bytes /\ p \o scan(rx).rest = rx /\ scan(rx).rest \in Bytes
      /\ f \in Seq(FrameSet)
  BY TakenAndLeft, RestIs DEF UartType
<1>2. consumed' \o rx' = consumed \o rx
  <2> HIDE DEF p
  <2>1. consumed' = consumed \o p
    BY DEF p
  <2>2. consumed \o (p \o scan(rx).rest) = (consumed \o p) \o scan(rx).rest
    <3>1. Joins(consumed, p, scan(rx).rest)
      BY <1>1, BytesJoined
    <3> QED BY <3>1 DEF Joins
  <2> QED BY <1>1, <2>1, <2>2
<1>3. scan(consumed \o rx \o more).frames = handled \o frames \o scan(rx \o more).frames
  BY DEF Resumable
<1>4. scan(rx \o more).frames = f \o g
  BY <1>1, ScanAgain
<1>5. g \in Seq(FrameSet)
  <2>1. scan(rx).rest \o more \in Bytes
    BY <1>1, BytesJoin
  <2> QED BY <2>1, RestIs
<1>6. handled \o frames = handled
  BY <1>1, ConcatEmptySeq
<1>7. scan(rx' \o more).frames = g /\ frames' = f
  OBVIOUS
<1> HIDE DEF p, f, g
<1>8. handled \o (f \o g) = (handled \o f) \o g
  <2>1. Joins(handled, f, g)
    BY <1>1, <1>5, Joined
  <2> QED BY <2>1 DEF Joins
<1> QED BY <1>2, <1>3, <1>4, <1>6, <1>7, <1>8

LEMMA PieceStep ==
  ASSUME UartType, PieceInv, [Next]_vars
  PROVE  PieceInv'
<1>1. CASE Turn
  <2>1. at = "turn" /\ frames = <<>> /\ handled' = handled
    BY <1>1 DEF Turn, PieceInv
  <2>2. CASE Len(rx) < 9 /\ Waits /\ UNCHANGED <<rx, cut, consumed, frames>>
    <3>1. cut = 0 => Resumable'
      BY <2>1, <2>2, ResumableSame DEF PieceInv
    <3> QED BY <2>1, <2>2, <3>1 DEF PieceInv
  <2>3. CASE /\ frames' = scan(rx).frames /\ rx' = scan(rx).rest
             /\ consumed' = consumed \o SubSeq(rx, 1, Len(rx) - Len(scan(rx).rest))
             /\ cut' = cut
             /\ at' = "frames" \/ (frames' = <<>> /\ Waits)
    <3>1. cut = 0 => Resumable'
      BY <2>1, <2>3, TurnResumes DEF PieceInv
    <3> QED BY <2>3, <3>1 DEF PieceInv
  <2> QED BY <1>1, <2>2, <2>3, TurnIs
<1>2. CASE Dispatch
  <2>1. /\ handled' \o frames' = handled \o frames
        /\ at' \in {"turn", "frames", "gives way"}
        /\ at' = "turn" => frames' = <<>>
        /\ UNCHANGED <<rx, consumed, cut>>
    BY <1>2, DispatchIs DEF Dispatch, rxVars
  <2>2. cut = 0 => Resumable'
    BY <2>1, ResumableSame DEF PieceInv
  <2> QED BY <2>1, <2>2 DEF PieceInv
<1>3. ASSUME NEW k \in 1 .. Len(line), on_receive(k) PROVE PieceInv'
  <2>1. UNCHANGED <<at, frames, handled, consumed>>
    BY <1>3 DEF on_receive, taskVars
  <2>2. CASE cut' # 0
    BY <2>1, <2>2 DEF PieceInv
  <2>3. CASE cut' = cut /\ rx' = rx \o SubSeq(line, 1, k)
    <3>1. SubSeq(line, 1, k) \in Bytes
      BY PieceIs DEF UartType
    <3>2. cut = 0 => Resumable'
      BY <2>1, <2>3, <3>1, ReceiveResumes DEF PieceInv
    <3> QED BY <2>1, <2>3, <3>2 DEF PieceInv
  <2> QED BY <1>3, <2>2, <2>3, ReceiveIs
<1>4. CASE ~Turn /\ ~Dispatch /\ \A k \in 1 .. Len(line) : ~on_receive(k)
  <2>1. UNCHANGED <<rx, cut, consumed, frames, handled>>
    BY <1>4, OtherSteps DEF rxVars
  <2>2. cut = 0 => Resumable'
    BY <2>1, ResumableSame DEF PieceInv
  <2>3. at' \in {"closed", "waits", "turn"} => frames = <<>>
    <3>1. CASE Resumes
      BY <3>1 DEF Resumes
    <3>2. CASE Delivers \/ Opens \/ Timeout
      BY <3>2 DEF Delivers, Opens, Timeout, Waits, PieceInv
    <3>3. CASE queue_evt \/ UNCHANGED vars
      BY <3>3 DEF queue_evt, vars, PieceInv
    <3>4. ASSUME NEW s, Puts(s) PROVE at' = at
      BY <3>4 DEF Puts
    <3> QED BY <1>4, <3>1, <3>2, <3>3, <3>4 DEF Next, Sends, Disturbs, PieceInv
  <2> QED BY <2>1, <2>2, <2>3 DEF PieceInv
<1> QED BY <1>1, <1>2, <1>3, <1>4

LEMMA PieceInit == Init => PieceInv
<1> SUFFICES ASSUME Init PROVE PieceInv
  OBVIOUS
<1>1. /\ rx = <<>> /\ consumed = <<>> /\ frames = <<>> /\ handled = <<>>
  BY DEF Init
<1>2. ASSUME NEW more \in Bytes
      PROVE  scan(consumed \o rx \o more).frames = handled \o frames \o scan(rx \o more).frames
  <2>1. <<>> \in Bytes /\ <<>> \in Seq(FrameSet)
    BY DEF Bytes
  <2>2. <<>> \o <<>> = <<>>
    OBVIOUS
  <2>3. <<>> \o more = more
    BY BytesJoin
  <2>4. scan(more).frames \in Seq(FrameSet)
    BY RestIs
  <2>5. <<>> \o scan(more).frames = scan(more).frames
    BY <2>4, ConcatEmptySeq
  <2> QED BY <1>1, <2>2, <2>3, <2>5
<1> QED BY <1>1, <1>2 DEF PieceInv, Resumable

(* As long as no byte was dropped, what was handled and what is cut out    *)
(* and what the buffer still holds are the frames of all bytes received,   *)
(* as if they had come at once (mgmt_uart.lua:90-94, "frames, rest").      *)
THEOREM PiecesJoin == Spec => []PiecesDontMatter
<1>1. Init => PieceInv
  BY PieceInit
<1>2. UartType /\ PieceInv /\ [Next]_vars => PieceInv'
  BY PieceStep
<1>3. UartType /\ PieceInv => PiecesDontMatter
  <2> SUFFICES ASSUME UartType, PieceInv, cut = 0
               PROVE  scan(consumed \o rx).frames = handled \o frames \o scan(rx).frames
    BY DEF PiecesDontMatter
  <2>1. <<>> \in Bytes
    BY DEF Bytes
  <2>2. rx \o <<>> = rx /\ consumed \o rx \o <<>> = consumed \o rx
    BY BytesJoin DEF UartType
  <2>3. scan(consumed \o rx \o <<>>).frames = handled \o frames \o scan(rx \o <<>>).frames
    BY <2>1 DEF PieceInv, Resumable
  <2> QED BY <2>2, <2>3
<1> QED BY <1>1, <1>2, <1>3, UartTypeHolds, PTL DEF Spec

-----------------------------------------------------------------------------
(* What was sent is handled.                                               *)

(* A frame as it stands on the line is judged to be that frame.            *)
Size(f) == Len(f.payload) + 9

LEMMA FramesAre ==
  ASSUME NEW f \in Frames
  PROVE  /\ f = [type |-> f.type, id |-> f.id, payload |-> f.payload]
         /\ f.type \in Nat /\ f.id \in Nat /\ f.payload \in Bytes
         /\ Len(f.payload) \in Nat /\ Len(f.payload) <= type_cap(f.type)
<1>1. f \in [type : 0 .. 255, id : 0 .. 255, payload : Seq(0 .. 255)]
  BY UartAssumption
<1>2. f.payload \in Bytes
  BY <1>1, OctetsAreBytes
<1>3. f.type \in 0 .. 255 /\ f.id \in 0 .. 255
      /\ f = [type |-> f.type, id |-> f.id, payload |-> f.payload]
  BY <1>1
<1>4. Len(f.payload) <= type_cap(f.type)
  BY LineAssumption
<1>5. f.type \in Nat /\ f.id \in Nat
  <2>1. 0 .. 255 \subseteq Nat
    OBVIOUS
  <2> QED BY <1>3, <2>1
<1>6. Len(f.payload) \in Nat
  BY <1>2, BytesAre
<1> QED BY <1>2, <1>3, <1>4, <1>5, <1>6

LEMMA TwoBytes ==
  ASSUME NEW v \in Nat
  PROVE  /\ pack_u16le(v) \in Bytes /\ Len(pack_u16le(v)) = 2
         /\ pack_u16le(v)[1] + 256 * pack_u16le(v)[2] = v
<1>1. v % 256 \in Nat /\ v \div 256 \in Nat /\ (v % 256) + 256 * (v \div 256) = v
  OBVIOUS
<1> DEFINE a == v % 256
           b == v \div 256
<1>2. a \in Nat /\ b \in Nat /\ a + 256 * b = v /\ pack_u16le(v) = <<a, b>>
  BY <1>1 DEF pack_u16le
<1> HIDE DEF a, b
<1> QED BY <1>2 DEF Bytes

LEMMA BuildIs ==
  ASSUME NEW f \in Frames
  PROVE  LET b == build(f)
             l == Len(f.payload)
         IN  /\ l \in Nat /\ b \in Bytes /\ Len(b) = l + 9
             /\ b[1] = SOF1 /\ b[2] = SOF2 /\ b[3] = VER /\ b[4] = f.type /\ b[5] = f.id
             /\ u16le(b, 6) = l
             /\ SubSeq(b, 8, 7 + l) = f.payload
             /\ crc16(SubSeq(b, 3, 7 + l)) = u16le(b, 8 + l)
<1> DEFINE b == build(f)
           l == Len(f.payload)
           head == <<VER, f.type, f.id>>
           size == pack_u16le(l)
           front == head \o size
           body == front \o f.payload
           start == <<SOF1, SOF2>>
           crc == pack_u16le(crc16(body))
           most == start \o body
<1>1. /\ f.type \in Nat /\ f.id \in Nat /\ f.payload \in Bytes /\ l \in Nat
  BY FramesAre
<1>2. /\ head \in Bytes /\ Len(head) = 3
      /\ head[1] = VER /\ head[2] = f.type /\ head[3] = f.id
  BY <1>1 DEF VER, Bytes
<1>3. /\ start \in Bytes /\ Len(start) = 2 /\ start[1] = SOF1 /\ start[2] = SOF2
  BY DEF SOF1, SOF2, Bytes
<1>4. size \in Bytes /\ Len(size) = 2 /\ size[1] + 256 * size[2] = l
  BY <1>1, TwoBytes
<1>5. b = most \o crc
  BY DEF build
<1> HIDE DEF head, start, size, b
<1>6. /\ front \in Bytes /\ Len(front) = 5
      /\ front[1] = VER /\ front[2] = f.type /\ front[3] = f.id
      /\ front[4] = size[1] /\ front[5] = size[2]
  <2>1. /\ front \in Seq(Nat) /\ Len(front) = Len(head) + Len(size)
        /\ \A i \in 1 .. Len(head) + Len(size) :
             front[i] = IF i <= Len(head) THEN head[i] ELSE size[i - Len(head)]
    <3>1. head \in Seq(Nat) /\ size \in Seq(Nat)
      BY <1>2, <1>4 DEF Bytes
    <3> QED BY <3>1, ConcatProperties
  <2> HIDE DEF front
  <2>2. \A i \in 1 .. 5 : front[i] = IF i <= 3 THEN head[i] ELSE size[i - 3]
    BY <1>2, <1>4, <2>1
  <2>3. /\ front[1] = head[1] /\ front[2] = head[2] /\ front[3] = head[3]
        /\ front[4] = size[4 - 3] /\ front[5] = size[5 - 3]
    BY <2>2
  <2>4. Len(front) = 5
    BY <1>2, <1>4, <2>1
  <2>5. front[4] = size[1] /\ front[5] = size[2]
    BY <2>3
  <2> QED BY <1>2, <2>1, <2>3, <2>4, <2>5 DEF Bytes
<1> HIDE DEF front
<1>7. /\ body \in Bytes /\ Len(body) = l + 5
      /\ \A k \in 1 .. 5 : body[k] = front[k]
      /\ \A k \in 1 .. l : body[5 + k] = f.payload[k]
  <2>1. /\ body \in Seq(Nat) /\ Len(body) = Len(front) + l
        /\ \A i \in 1 .. Len(front) + l :
             body[i] = IF i <= Len(front) THEN front[i] ELSE f.payload[i - Len(front)]
    BY <1>1, <1>6, ConcatProperties DEF Bytes
  <2> HIDE DEF body
  <2>2. ASSUME NEW k \in 1 .. l PROVE body[5 + k] = f.payload[k]
    <3>1. 5 + k \in 1 .. Len(front) + l /\ ~(5 + k <= Len(front)) /\ (5 + k) - Len(front) = k
      BY <1>1, <1>6
    <3> QED BY <2>1, <3>1
  <2>3. ASSUME NEW k \in 1 .. 5 PROVE body[k] = front[k]
    <3>1. k \in 1 .. Len(front) + l /\ k <= Len(front)
      BY <1>1, <1>6
    <3> QED BY <2>1, <3>1
  <2>4. Len(body) = l + 5
    BY <1>1, <1>6, <2>1
  <2> QED BY <2>1, <2>2, <2>3, <2>4 DEF Bytes
<1> HIDE DEF body
<1>8. crc \in Bytes /\ Len(crc) = 2 /\ crc[1] + 256 * crc[2] = crc16(body)
  BY <1>7, CrcIsNat, TwoBytes
<1> HIDE DEF crc
<1>9. /\ most \in Bytes /\ Len(most) = l + 7
      /\ most[1] = SOF1 /\ most[2] = SOF2
      /\ \A k \in 1 .. l + 5 : most[2 + k] = body[k]
  <2>1. /\ most \in Seq(Nat) /\ Len(most) = Len(start) + Len(body)
        /\ \A i \in 1 .. Len(start) + Len(body) :
             most[i] = IF i <= Len(start) THEN start[i] ELSE body[i - Len(start)]
    <3>1. start \in Seq(Nat) /\ body \in Seq(Nat)
      BY <1>3, <1>7 DEF Bytes
    <3> QED BY <3>1, ConcatProperties
  <2> HIDE DEF most
  <2>2. ASSUME NEW k \in 1 .. l + 5 PROVE most[2 + k] = body[k]
    <3>1. 2 + k \in 1 .. Len(start) + Len(body) /\ ~(2 + k <= Len(start)) /\ (2 + k) - Len(start) = k
      BY <1>1, <1>3, <1>7
    <3> QED BY <2>1, <3>1
  <2>3. \A k \in 1 .. 2 : k \in 1 .. Len(start) + Len(body) /\ k <= Len(start)
    BY <1>1, <1>3, <1>7
  <2>4. most[1] = start[1] /\ most[2] = start[2]
    BY <2>1, <2>3
  <2> QED BY <1>1, <1>3, <1>7, <2>1, <2>2, <2>4 DEF Bytes
<1> HIDE DEF most
<1>10. /\ b \in Bytes /\ Len(b) = l + 9
       /\ \A k \in 1 .. l + 7 : b[k] = most[k]
       /\ b[l + 8] = crc[1] /\ b[l + 9] = crc[2]
  <2>1. /\ b \in Seq(Nat) /\ Len(b) = Len(most) + Len(crc)
        /\ \A i \in 1 .. Len(most) + Len(crc) :
             b[i] = IF i <= Len(most) THEN most[i] ELSE crc[i - Len(most)]
    <3>1. most \in Seq(Nat) /\ crc \in Seq(Nat)
      BY <1>8, <1>9 DEF Bytes
    <3>2. /\ most \o crc \in Seq(Nat) /\ Len(most \o crc) = Len(most) + Len(crc)
          /\ \A i \in 1 .. Len(most) + Len(crc) :
               (most \o crc)[i] = IF i <= Len(most) THEN most[i] ELSE crc[i - Len(most)]
      BY <3>1, ConcatProperties
    <3> QED BY <1>5, <3>2
  <2>2. /\ \A k \in 1 .. l + 7 : k \in 1 .. Len(most) + Len(crc) /\ k <= Len(most)
        /\ l + 8 \in 1 .. Len(most) + Len(crc) /\ ~(l + 8 <= Len(most)) /\ (l + 8) - Len(most) = 1
        /\ l + 9 \in 1 .. Len(most) + Len(crc) /\ ~(l + 9 <= Len(most)) /\ (l + 9) - Len(most) = 2
    BY <1>1, <1>8, <1>9
  <2>3. Len(b) = l + 9
    BY <1>1, <1>8, <1>9, <2>1
  <2>4. \A k \in 1 .. l + 7 : b[k] = most[k]
    BY <2>1, <2>2
  <2>5. b[l + 8] = crc[1]
    BY <2>1, <2>2
  <2>6. b[l + 9] = crc[2]
    BY <2>1, <2>2
  <2> QED BY <2>1, <2>3, <2>4, <2>5, <2>6 DEF Bytes
<1>11. ASSUME NEW k \in 1 .. l + 5 PROVE b[2 + k] = body[k]
  <2>1. 2 + k \in 1 .. l + 7
    BY <1>1
  <2> QED BY <1>9, <1>10, <2>1
<1>12. /\ b[1] = SOF1 /\ b[2] = SOF2 /\ b[3] = VER /\ b[4] = f.type /\ b[5] = f.id
       /\ b[6] = size[1] /\ b[7] = size[2]
  <2>1. /\ 1 \in 1 .. l + 7 /\ 2 \in 1 .. l + 7
        /\ \A k \in 1 .. 5 : k \in 1 .. l + 5
    BY <1>1
  <2>2. b[1] = SOF1 /\ b[2] = SOF2
    BY <1>9, <1>10, <2>1
  <2>3. \A k \in 1 .. 5 : b[2 + k] = front[k]
    BY <1>7, <1>11, <2>1
  <2>4. b[2 + 1] = front[1] /\ b[2 + 2] = front[2] /\ b[2 + 3] = front[3]
        /\ b[2 + 4] = front[4] /\ b[2 + 5] = front[5]
    BY <2>3
  <2> QED BY <1>6, <2>2, <2>4
<1>13. u16le(b, 6) = l
  BY <1>4, <1>12 DEF u16le
<1> DEFINE x == SubSeq(b, 8, 7 + l)
           y == SubSeq(b, 3, 7 + l)
<1>14. \A k \in 1 .. l + 9 : b[k] \in Nat
  BY <1>10, BytesAre
<1>15. x = f.payload
  <2>1. /\ x \in Seq(Nat) /\ Len(x) = IF 8 <= 7 + l THEN 7 + l - 8 + 1 ELSE 0
        /\ \A k \in 1 .. 7 + l - 8 + 1 : x[k] = b[8 + k - 1]
    <3>1. \A k \in 8 .. 7 + l : b[k] \in Nat
      BY <1>1, <1>14
    <3> QED BY <1>1, <3>1, SubSeqProperties
  <2> HIDE DEF x
  <2>2. Len(x) = l
    BY <1>1, <2>1
  <2>3. ASSUME NEW k \in 1 .. l PROVE x[k] = f.payload[k]
    <3>1. k \in 1 .. 7 + l - 8 + 1 /\ 8 + k - 1 = 2 + (5 + k) /\ 5 + k \in 1 .. l + 5
      BY <1>1
    <3>2. x[k] = b[2 + (5 + k)]
      BY <2>1, <3>1
    <3>3. b[2 + (5 + k)] = body[5 + k]
      BY <1>11, <3>1
    <3> QED BY <1>7, <3>2, <3>3
  <2> QED BY <1>1, <2>1, <2>2, <2>3, SeqEqual DEF Bytes
<1>16. y = body
  <2>1. /\ y \in Seq(Nat) /\ Len(y) = IF 3 <= 7 + l THEN 7 + l - 3 + 1 ELSE 0
        /\ \A k \in 1 .. 7 + l - 3 + 1 : y[k] = b[3 + k - 1]
    <3>1. \A k \in 3 .. 7 + l : b[k] \in Nat
      BY <1>1, <1>14
    <3> QED BY <1>1, <3>1, SubSeqProperties
  <2> HIDE DEF y
  <2>2. Len(y) = l + 5
    BY <1>1, <2>1
  <2>3. ASSUME NEW k \in 1 .. l + 5 PROVE y[k] = body[k]
    <3>1. k \in 1 .. 7 + l - 3 + 1 /\ 3 + k - 1 = 2 + k
      BY <1>1
    <3>2. y[k] = b[2 + k]
      BY <2>1, <3>1
    <3> QED BY <1>11, <3>2
  <2> QED BY <1>7, <2>1, <2>2, <2>3, SeqEqual DEF Bytes
<1>17. crc16(y) = u16le(b, 8 + l)
  <2>1. 8 + l = l + 8 /\ (8 + l) + 1 = l + 9
    BY <1>1
  <2>2. u16le(b, 8 + l) = crc[1] + 256 * crc[2]
    BY <1>10, <2>1 DEF u16le
  <2> QED BY <1>8, <1>16, <2>2
<1> QED BY <1>1, <1>10, <1>12, <1>13, <1>15, <1>17 DEF b

LEMMA BuiltIs ==
  ASSUME NEW f \in Frames
  PROVE  LET b == build(f)
         IN  /\ ~Short(b, 1) /\ ~Overlong(b, 1) /\ Intact(b, 1)
             /\ LenAt(b, 1) = Len(f.payload)
             /\ Taken(b, 1) = <<f>> /\ Behind(b, 1) = 1 + Size(f)
<1> DEFINE b == build(f)
           l == Len(f.payload)
<1>1. /\ l \in Nat /\ Len(b) = l + 9
      /\ b[3] = VER /\ b[4] = f.type /\ b[5] = f.id /\ u16le(b, 6) = l
      /\ SubSeq(b, 8, 7 + l) = f.payload
      /\ crc16(SubSeq(b, 3, 7 + l)) = u16le(b, 8 + l)
  BY BuildIs
<1>2. l <= type_cap(f.type) /\ f = [type |-> f.type, id |-> f.id, payload |-> f.payload]
      /\ type_cap(f.type) \in Nat
  BY FramesAre, UartAssumption DEF type_cap
<1> HIDE DEF b, l
<1>3. 1 + 2 = 3 /\ 1 + 3 = 4 /\ 1 + 4 = 5 /\ 1 + 5 = 6 /\ 1 + 7 = 8
      /\ 1 + 6 + l = 7 + l /\ 1 + 7 + l = 8 + l
  BY <1>1
<1>4. LenAt(b, 1) = l
  BY <1>1, <1>3 DEF LenAt
<1>5. ~Overlong(b, 1)
  BY <1>1, <1>2, <1>3, <1>4 DEF Overlong
<1>6. ~Short(b, 1)
  BY <1>1, <1>4, <1>5 DEF Short
<1>7. Intact(b, 1)
  BY <1>1, <1>3, <1>4, <1>5 DEF Intact
<1>8. FrameAt(b, 1) = f
  BY <1>1, <1>2, <1>3, <1>4 DEF FrameAt
<1>9. Behind(b, 1) = 1 + (l + 9)
  BY <1>4, <1>7 DEF Behind
<1> QED BY <1>4, <1>5, <1>6, <1>7, <1>8, <1>9 DEF Taken, Size, b, l

(* Of a frame that stands there, the buffer may hold the beginning only.   *)
Stands(buf, p, f) ==
  \A k \in 1 .. Size(f) : p + k - 1 <= Len(buf) => buf[p + k - 1] = build(f)[k]

LEMMA WholeIsTaken ==
  ASSUME NEW buf \in Bytes, NEW p \in 1 .. Len(buf), NEW f \in Frames, Stands(buf, p, f),
         p + Size(f) - 1 <= Len(buf)
  PROVE  /\ ~Short(buf, p) /\ Intact(buf, p)
         /\ Taken(buf, p) = <<f>> /\ Behind(buf, p) = p + Size(f)
<1> DEFINE b == build(f)
<1>1. Len(b) = Size(f) /\ b \in Bytes /\ Size(f) \in Nat /\ Size(f) >= 9
  BY BuildIs, FramesAre DEF Size
<1>2. Len(buf) \in Nat /\ 1 \in 1 .. Len(b)
  BY <1>1, BytesAre
<1>3. ~Short(b, 1) /\ Taken(b, 1) = <<f>> /\ Behind(b, 1) = 1 + Size(f)
  BY BuiltIs
<1>4. Agrees(b, 1, buf, p)
  <2>1. ASSUME NEW m \in 0 .. Len(b) - 1 PROVE buf[p + m] = b[1 + m]
    <3> DEFINE k == 1 + m
    <3>1. k \in 1 .. Size(f) /\ p + k - 1 = p + m /\ p + k - 1 <= Len(buf)
      BY <1>1, <1>2
    <3> HIDE DEF k, b
    <3>2. buf[p + k - 1] = b[k]
      BY <3>1 DEF Stands, b
    <3> QED BY <3>1, <3>2 DEF k
  <2>2. Len(buf) - p >= Len(b) - 1
    BY <1>1, <1>2
  <2> HIDE DEF b
  <2> QED BY <2>1, <2>2 DEF Agrees
<1> HIDE DEF b
<1>5. /\ ~Short(buf, p) /\ Taken(buf, p) = Taken(b, 1)
      /\ Behind(buf, p) - p = Behind(b, 1) - 1
  BY <1>1, <1>2, <1>3, <1>4, SameJudged
<1>6. Intact(buf, p)
  <2>1. Taken(buf, p) # <<>>
    BY <1>3, <1>5
  <2> QED BY <2>1 DEF Taken
<1>7. Behind(buf, p) = p + Size(f)
  <2>1. Behind(buf, p) \in p + 1 .. Len(buf) + 1
    BY <1>2, <1>5, JudgedIs
  <2> QED BY <1>1, <1>2, <1>3, <1>5, <2>1
<1> QED BY <1>3, <1>5, <1>6, <1>7

LEMMA StandingStarts ==
  ASSUME NEW buf \in Bytes, NEW i \in Nat \ {0}, NEW p \in i .. Len(buf) - 1,
         NEW f \in Frames, Stands(buf, p, f)
  PROVE  p \in Starts(buf, i)
<1>1. /\ build(f)[1] = SOF1 /\ build(f)[2] = SOF2 /\ 1 \in 1 .. Size(f) /\ 2 \in 1 .. Size(f)
  BY BuildIs, FramesAre DEF Size
<1>2. p + 1 - 1 <= Len(buf) /\ p + 2 - 1 <= Len(buf) /\ p + 1 - 1 = p /\ p + 2 - 1 = p + 1
  BY BytesAre
<1>3. buf[p] = SOF1 /\ buf[p + 1] = SOF2
  <2>1. buf[p + 1 - 1] = build(f)[1] /\ buf[p + 2 - 1] = build(f)[2]
    BY <1>1, <1>2 DEF Stands
  <2> QED BY <1>1, <1>2, <2>1
<1> QED BY <1>3 DEF Starts

(* It is not given up before all of it has come.                           *)
LEMMA StandingIsTaken ==
  ASSUME NEW buf \in Bytes, NEW p \in 1 .. Len(buf), NEW f \in Frames, Stands(buf, p, f),
         ~Short(buf, p)
  PROVE  /\ Intact(buf, p)
         /\ Taken(buf, p) = <<f>> /\ Behind(buf, p) = p + Size(f)
<1> DEFINE b == build(f)
           l == Len(f.payload)
<1>1. /\ l \in Nat /\ b[4] = f.type /\ u16le(b, 6) = l /\ Size(f) = l + 9
      /\ l <= type_cap(f.type) /\ type_cap(f.type) \in Nat
  BY BuildIs, FramesAre, UartAssumption DEF Size, type_cap
<1>2. Len(buf) \in Nat /\ p + 8 <= Len(buf)
  BY BytesAre, JudgedIs
<1>3. ASSUME NEW k \in 1 .. 9 PROVE buf[p + k - 1] = b[k]
  BY <1>1, <1>2 DEF Stands
<1> HIDE DEF b, l
<1>4. LenAt(buf, p) = l
  <2>1. buf[p + 6 - 1] = b[6] /\ buf[p + 7 - 1] = b[7]
    BY <1>3
  <2>2. p + 6 - 1 = p + 5 /\ p + 7 - 1 = (p + 5) + 1
    OBVIOUS
  <2>3. buf[p + 5] = b[6] /\ buf[(p + 5) + 1] = b[7]
    BY <2>1, <2>2
  <2> QED BY <1>1, <2>3 DEF LenAt, u16le
<1>5. ~Overlong(buf, p)
  <2>1. buf[p + 4 - 1] = b[4] /\ p + 4 - 1 = p + 3
    BY <1>3
  <2>2. buf[p + 3] = f.type
    BY <1>1, <2>1
  <2> QED BY <1>1, <1>4, <2>2 DEF Overlong
<1>6. p + Size(f) - 1 <= Len(buf)
  <2>1. p + LenAt(buf, p) + 8 <= Len(buf)
    BY <1>5, JudgedIs
  <2> QED BY <1>1, <1>2, <1>4, <2>1
<1> QED BY <1>6, WholeIsTaken

-----------------------------------------------------------------------------
(* What was sent, by the positions of its bytes on the line.               *)
SentSet == [frame : Frames, first : Nat \ {0}, last : Nat]

IsSent(sq) ==
  /\ sq \in Seq(SentSet)
  /\ \A i \in 1 .. Len(sq) : sq[i].last = sq[i].first + Size(sq[i].frame) - 1
  /\ \A i, j \in 1 .. Len(sq) : i < j => sq[i].last < sq[j].first

LEMMA SentAre ==
  ASSUME NEW sq, IsSent(sq)
  PROVE  /\ Len(sq) \in Nat
         /\ \A i \in 1 .. Len(sq) :
              /\ sq[i] \in SentSet /\ sq[i].frame \in Frames
              /\ sq[i].first \in Nat \ {0} /\ sq[i].last \in Nat
              /\ Size(sq[i].frame) \in Nat /\ Size(sq[i].frame) >= 9
              /\ sq[i].last = sq[i].first + Size(sq[i].frame) - 1
              /\ sq[i].first < sq[i].last
<1>1. Len(sq) \in Nat /\ \A i \in 1 .. Len(sq) : sq[i] \in SentSet
  BY LenProperties, ElementOfSeq DEF IsSent
<1>2. ASSUME NEW i \in 1 .. Len(sq)
      PROVE  /\ sq[i].frame \in Frames
             /\ sq[i].first \in Nat \ {0} /\ sq[i].last \in Nat
             /\ Size(sq[i].frame) \in Nat /\ Size(sq[i].frame) >= 9
             /\ sq[i].last = sq[i].first + Size(sq[i].frame) - 1
             /\ sq[i].first < sq[i].last
  <2>1. sq[i].frame \in Frames /\ sq[i].first \in Nat \ {0} /\ sq[i].last \in Nat
    BY <1>1 DEF SentSet
  <2>2. Size(sq[i].frame) \in Nat /\ Size(sq[i].frame) >= 9
    BY <2>1, FramesAre DEF Size
  <2>3. sq[i].last = sq[i].first + Size(sq[i].frame) - 1
    BY DEF IsSent
  <2> QED BY <2>1, <2>2, <2>3
<1> QED BY <1>1, <1>2

(* fr are frames of sq from lo to before hi, in order, and from c on all   *)
(* of them.                                                                *)
Picked(pick, fr, sq, lo, c, hi) ==
  /\ \A j \in 1 .. Len(fr) :
       fr[j] = sq[pick[j]].frame /\ lo <= sq[pick[j]].first /\ sq[pick[j]].last < hi
  /\ \A j, k \in 1 .. Len(fr) : j < k => pick[j] < pick[k]
  /\ \A i \in 1 .. Len(sq) :
       c <= sq[i].first /\ sq[i].first < hi => \E j \in 1 .. Len(fr) : pick[j] = i

Picks(fr, sq, lo, c, hi) ==
  \E pick \in [1 .. Len(fr) -> 1 .. Len(sq)] : Picked(pick, fr, sq, lo, c, hi)

LEMMA PicksNone ==
  ASSUME NEW sq, NEW lo, NEW c, NEW hi,
         \A i \in 1 .. Len(sq) : ~(c <= sq[i].first /\ sq[i].first < hi)
  PROVE  Picks(<<>>, sq, lo, c, hi)
<1> DEFINE pick == [j \in 1 .. Len(<<>>) |-> 1]
<1>1. Len(<<>>) = 0 /\ \A j \in 1 .. 0 : FALSE
  OBVIOUS
<1>2. pick \in [1 .. Len(<<>>) -> 1 .. Len(sq)]
  BY <1>1
<1> HIDE DEF pick
<1>3. \A j \in 1 .. Len(<<>>) : FALSE
  BY <1>1
<1>4. Picked(pick, <<>>, sq, lo, c, hi)
  BY <1>3 DEF Picked
<1> QED BY <1>2, <1>4 DEF Picks

LEMMA PicksOne ==
  ASSUME NEW sq, NEW lo, NEW c, NEW hi, NEW i \in 1 .. Len(sq),
         lo <= sq[i].first, sq[i].last < hi,
         \A k \in 1 .. Len(sq) : c <= sq[k].first /\ sq[k].first < hi => k = i
  PROVE  Picks(<<sq[i].frame>>, sq, lo, c, hi)
<1> DEFINE f == <<sq[i].frame>>
           pick == [j \in 1 .. Len(f) |-> i]
<1>1. Len(f) = 1 /\ f[1] = sq[i].frame
  OBVIOUS
<1>2. pick \in [1 .. Len(f) -> 1 .. Len(sq)] /\ \A j \in 1 .. Len(f) : pick[j] = i
  OBVIOUS
<1> HIDE DEF pick, f
<1>3. 1 \in 1 .. Len(f) /\ \A j \in 1 .. Len(f) : j = 1
  BY <1>1
<1>4. \A j, k \in 1 .. Len(f) : ~(j < k)
  BY <1>1
<1>5. \A j \in 1 .. Len(f) : f[j] = sq[pick[j]].frame /\ lo <= sq[pick[j]].first /\ sq[pick[j]].last < hi
  BY <1>1, <1>2, <1>3
<1>6. \A k \in 1 .. Len(sq) :
        c <= sq[k].first /\ sq[k].first < hi => \E j \in 1 .. Len(f) : pick[j] = k
  BY <1>2, <1>3
<1>7. Picked(pick, f, sq, lo, c, hi)
  BY <1>4, <1>5, <1>6 DEF Picked
<1> QED BY <1>2, <1>7 DEF Picks, f

LEMMA PicksJoin ==
  ASSUME NEW sq, IsSent(sq), NEW S, NEW fa \in Seq(S), NEW fb \in Seq(S),
         NEW lo \in Int, NEW c \in Int, NEW mid \in Int, NEW hi \in Int, lo <= mid, mid <= hi,
         Picks(fa, sq, lo, c, mid), Picks(fb, sq, mid, mid, hi)
  PROVE  Picks(fa \o fb, sq, lo, c, hi)
<1>1. PICK pa \in [1 .. Len(fa) -> 1 .. Len(sq)] : Picked(pa, fa, sq, lo, c, mid)
  BY DEF Picks
<1>2. PICK pb \in [1 .. Len(fb) -> 1 .. Len(sq)] : Picked(pb, fb, sq, mid, mid, hi)
  BY DEF Picks
<1> DEFINE f == fa \o fb
           pick == [j \in 1 .. Len(f) |-> IF j <= Len(fa) THEN pa[j] ELSE pb[j - Len(fa)]]
<1>3. Len(fa) \in Nat /\ Len(fb) \in Nat
  BY LenProperties
<1>4. /\ Len(f) = Len(fa) + Len(fb)
      /\ \A j \in 1 .. Len(fa) + Len(fb) :
           f[j] = IF j <= Len(fa) THEN fa[j] ELSE fb[j - Len(fa)]
  BY ConcatProperties
<1> HIDE DEF f
<1>5. ASSUME NEW j \in 1 .. Len(fa) PROVE j \in 1 .. Len(f) /\ f[j] = fa[j] /\ pick[j] = pa[j]
  <2>1. j \in 1 .. Len(fa) + Len(fb) /\ j <= Len(fa)
    BY <1>3
  <2> QED BY <1>4, <2>1
<1>6. ASSUME NEW j \in 1 .. Len(fb)
      PROVE  j + Len(fa) \in 1 .. Len(f) /\ f[j + Len(fa)] = fb[j] /\ pick[j + Len(fa)] = pb[j]
  <2> DEFINE m == j + Len(fa)
  <2>1. m \in 1 .. Len(fa) + Len(fb) /\ ~(m <= Len(fa)) /\ m - Len(fa) = j
    BY <1>3
  <2> HIDE DEF m
  <2>2. m \in 1 .. Len(f) /\ f[m] = fb[j] /\ pick[m] = pb[j]
    BY <1>4, <2>1
  <2> QED BY <2>2 DEF m
<1> HIDE DEF pick
<1>7. ASSUME NEW j \in 1 .. Len(f)
      PROVE  j \in 1 .. Len(fa) \/ \E k \in 1 .. Len(fb) : j = k + Len(fa)
  <2>1. CASE j <= Len(fa)
    BY <1>3, <1>4, <2>1
  <2>2. CASE ~(j <= Len(fa))
    <3>1. j - Len(fa) \in 1 .. Len(fb) /\ j = (j - Len(fa)) + Len(fa)
      BY <1>3, <1>4, <2>2
    <3> QED BY <3>1
  <2> QED BY <2>1, <2>2
<1>8. ASSUME NEW i \in 1 .. Len(sq)
      PROVE  sq[i].first \in Int /\ sq[i].last \in Int /\ sq[i].first < sq[i].last
  <2>1. sq[i].first \in Nat /\ sq[i].last \in Nat /\ sq[i].first < sq[i].last
    BY SentAre
  <2> QED BY <2>1
<1>9. ASSUME NEW j \in 1 .. Len(fa)
      PROVE  /\ pa[j] \in 1 .. Len(sq) /\ fa[j] = sq[pa[j]].frame
             /\ lo <= sq[pa[j]].first /\ sq[pa[j]].last < mid
  BY <1>1 DEF Picked
<1>10. ASSUME NEW j \in 1 .. Len(fb)
       PROVE  /\ pb[j] \in 1 .. Len(sq) /\ fb[j] = sq[pb[j]].frame
              /\ mid <= sq[pb[j]].first /\ sq[pb[j]].last < hi
  BY <1>2 DEF Picked
<1>11. ASSUME NEW j \in 1 .. Len(f)
       PROVE  /\ pick[j] \in 1 .. Len(sq) /\ f[j] = sq[pick[j]].frame
              /\ lo <= sq[pick[j]].first /\ sq[pick[j]].last < hi
  <2>1. CASE j \in 1 .. Len(fa)
    <3>1. /\ pa[j] \in 1 .. Len(sq) /\ f[j] = sq[pa[j]].frame /\ pick[j] = pa[j]
          /\ lo <= sq[pa[j]].first /\ sq[pa[j]].last < mid
      BY <1>5, <1>9, <2>1
    <3> QED BY <1>8, <3>1
  <2>2. ASSUME NEW k \in 1 .. Len(fb), j = k + Len(fa)
        PROVE  /\ pick[j] \in 1 .. Len(sq) /\ f[j] = sq[pick[j]].frame
               /\ lo <= sq[pick[j]].first /\ sq[pick[j]].last < hi
    <3>1. /\ pb[k] \in 1 .. Len(sq) /\ f[j] = sq[pb[k]].frame /\ pick[j] = pb[k]
          /\ mid <= sq[pb[k]].first /\ sq[pb[k]].last < hi
      BY <1>6, <1>10, <2>2
    <3> QED BY <1>8, <3>1
  <2> QED BY <1>7, <2>1, <2>2
<1>12. ASSUME NEW j \in 1 .. Len(fa), NEW k \in 1 .. Len(fb)
       PROVE  pa[j] < pb[k]
  <2>1. /\ sq[pa[j]].last < sq[pb[k]].first
        /\ sq[pa[j]].first < sq[pb[k]].last
        /\ pa[j] \in 1 .. Len(sq) /\ pb[k] \in 1 .. Len(sq)
    <3> DEFINE x == sq[pa[j]]
               y == sq[pb[k]]
    <3>1. /\ pa[j] \in 1 .. Len(sq) /\ pb[k] \in 1 .. Len(sq)
          /\ x.last < mid /\ mid <= y.first
      BY <1>9, <1>10
    <3>2. /\ x.first \in Int /\ x.last \in Int /\ x.first < x.last
          /\ y.first \in Int /\ y.last \in Int /\ y.first < y.last
      BY <1>8, <3>1
    <3> HIDE DEF x, y
    <3>3. x.last < y.first /\ x.first < y.last
      BY <3>1, <3>2
    <3> QED BY <3>1, <3>3 DEF x, y
  <2>2. ~(pb[k] < pa[j])
    <3> SUFFICES ASSUME pb[k] < pa[j] PROVE FALSE
      OBVIOUS
    <3> DEFINE a == sq[pb[k]].last
               b == sq[pa[j]].first
    <3>1. a < b
      BY <2>1 DEF IsSent
    <3>2. a \in Int /\ b \in Int /\ b < a
      BY <1>8, <2>1
    <3> HIDE DEF a, b
    <3> QED BY <3>1, <3>2
  <2>3. pb[k] # pa[j]
    <3> SUFFICES ASSUME pb[k] = pa[j] PROVE FALSE
      OBVIOUS
    <3>1. sq[pa[j]].last < sq[pa[j]].first
      BY <2>1
    <3> QED BY <1>8, <2>1, <3>1
  <2> QED BY <2>1, <2>2, <2>3
<1>13. ASSUME NEW j \in 1 .. Len(f), NEW k \in 1 .. Len(f), j < k
       PROVE  pick[j] < pick[k]
  <2>1. CASE j \in 1 .. Len(fa) /\ k \in 1 .. Len(fa)
    <3>1. pa[j] < pa[k]
      BY <1>1, <1>13, <2>1 DEF Picked
    <3> QED BY <1>5, <2>1, <3>1
  <2>2. ASSUME j \in 1 .. Len(fa), NEW m \in 1 .. Len(fb), k = m + Len(fa)
        PROVE  pick[j] < pick[k]
    BY <1>5, <1>6, <1>12, <2>2
  <2>3. ASSUME NEW l \in 1 .. Len(fb), j = l + Len(fa), NEW m \in 1 .. Len(fb), k = m + Len(fa)
        PROVE  pick[j] < pick[k]
    <3>1. l < m
      BY <1>3, <1>13, <2>3
    <3>2. pb[l] < pb[m]
      BY <1>2, <3>1 DEF Picked
    <3> QED BY <1>6, <2>3, <3>2
  <2>4. ASSUME NEW l \in 1 .. Len(fb), j = l + Len(fa)
        PROVE  ~(k \in 1 .. Len(fa))
    BY <1>3, <1>13, <2>4
  <2> QED BY <1>7, <2>1, <2>2, <2>3, <2>4
<1>14. ASSUME NEW i \in 1 .. Len(sq), c <= sq[i].first, sq[i].first < hi
       PROVE  \E j \in 1 .. Len(f) : pick[j] = i
  <2>1. CASE sq[i].first < mid
    <3>1. PICK j \in 1 .. Len(fa) : pa[j] = i
      BY <1>1, <1>14, <2>1 DEF Picked
    <3> QED BY <1>5, <3>1
  <2>2. CASE ~(sq[i].first < mid)
    <3>0. mid <= sq[i].first
      BY <1>8, <2>2
    <3>1. PICK j \in 1 .. Len(fb) : pb[j] = i
      BY <1>2, <1>14, <3>0 DEF Picked
    <3> QED BY <1>6, <3>1
  <2> QED BY <2>1, <2>2
<1>15. Picked(pick, f, sq, lo, c, hi)
  BY <1>11, <1>13, <1>14 DEF Picked
<1>16. pick \in [1 .. Len(f) -> 1 .. Len(sq)]
  <2>1. pick = [j \in 1 .. Len(f) |-> IF j <= Len(fa) THEN pa[j] ELSE pb[j - Len(fa)]]
    BY DEF pick
  <2>2. \A j \in 1 .. Len(f) : pick[j] \in 1 .. Len(sq)
    BY <1>11
  <2> QED BY <2>1, <2>2
<1> QED BY <1>15, <1>16 DEF Picks, f

-----------------------------------------------------------------------------
(* The scanner finds what was sent, and nothing else, in a buffer that     *)
(* holds the bytes behind position P of the line.                          *)
Seen(buf, P, sq) ==
  /\ \A p \in Starts(buf, 1) :
       ~Short(buf, p) /\ Intact(buf, p) => \E i \in 1 .. Len(sq) : sq[i].first = P + p
  /\ \A i \in 1 .. Len(sq), p \in 1 .. Len(buf) :
       sq[i].first = P + p => Stands(buf, p, sq[i].frame)

(* Between the place where it looks and the start that it finds nothing    *)
(* begins.                                                                 *)
LEMMA NoneBefore ==
  ASSUME NEW buf \in Bytes, NEW P \in Nat, NEW sq, IsSent(sq), Seen(buf, P, sq),
         NEW i \in 1 .. Len(buf) + 1, NEW e \in Nat, e <= Len(buf),
         \A p \in Starts(buf, i) : e <= p, NEW k \in 1 .. Len(sq)
  PROVE  ~(P + i <= sq[k].first /\ sq[k].first < P + e)
<1> SUFFICES ASSUME P + i <= sq[k].first, sq[k].first < P + e PROVE FALSE
  OBVIOUS
<1> DEFINE p == sq[k].first - P
<1>1. Len(buf) \in Nat /\ sq[k].first \in Nat /\ sq[k].frame \in Frames /\ i \in Nat \ {0}
  <2>1. Len(buf) \in Nat
    BY BytesAre
  <2>2. sq[k].first \in Nat /\ sq[k].frame \in Frames
    BY SentAre
  <2> QED BY <2>1, <2>2
<1>2. p \in i .. Len(buf) - 1 /\ p \in 1 .. Len(buf) /\ sq[k].first = P + p /\ p < e
  BY <1>1
<1> HIDE DEF p
<1>3. Stands(buf, p, sq[k].frame)
  BY <1>2 DEF Seen
<1>4. p \in Starts(buf, i)
  BY <1>1, <1>2, <1>3, StandingStarts
<1>5. e <= p
  BY <1>4
<1> QED BY <1>1, <1>2, <1>5

LEMMA JudgedPicks ==
  ASSUME NEW buf \in Bytes, NEW P \in Nat, NEW sq, IsSent(sq), Seen(buf, P, sq),
         NEW i \in 1 .. Len(buf) + 1, Starts(buf, i) # {}, ~Short(buf, First(buf, i))
  PROVE  LET sof == First(buf, i)
         IN  Picks(Taken(buf, sof), sq, P + i, P + i, P + Behind(buf, sof))
<1> DEFINE sof == First(buf, i)
           e == Behind(buf, sof)
<1>1. Len(buf) \in Nat /\ i \in Nat \ {0}
  BY BytesAre
<1>2. /\ sof \in Starts(buf, i) /\ sof \in i .. Len(buf) - 1
      /\ \A q \in Starts(buf, i) : sof <= q
  BY <1>1, FirstIs
<1>3. sof \in Starts(buf, 1) /\ sof \in 1 .. Len(buf) /\ sof \in Nat /\ i <= sof /\ sof <= Len(buf)
  BY <1>1, <1>2 DEF Starts
<1>4. ~Short(buf, sof)
  OBVIOUS
<1> HIDE DEF sof
<1>5. \A k \in 1 .. Len(sq) : ~(P + i <= sq[k].first /\ sq[k].first < P + sof)
  BY <1>2, <1>3, NoneBefore
<1>6. \A k \in 1 .. Len(sq) :
        /\ sq[k].first \in Nat /\ sq[k].last \in Nat /\ sq[k].first < sq[k].last
        /\ sq[k].frame \in Frames
        /\ Size(sq[k].frame) \in Nat /\ sq[k].last = sq[k].first + Size(sq[k].frame) - 1
  BY SentAre
<1>7. CASE Intact(buf, sof)
  <2>1. PICK k \in 1 .. Len(sq) : sq[k].first = P + sof
    BY <1>3, <1>4, <1>7 DEF Seen
  <2>2. Stands(buf, sof, sq[k].frame)
    BY <1>3, <2>1 DEF Seen
  <2>3. Taken(buf, sof) = <<sq[k].frame>> /\ e = sof + Size(sq[k].frame)
    BY <1>3, <1>4, <1>6, <2>2, StandingIsTaken
  <2> HIDE DEF e
  <2>4. P + i <= sq[k].first /\ sq[k].last < P + e /\ P + e = sq[k].last + 1
    <3> DEFINE x == sq[k].first
               y == sq[k].last
               z == Size(sq[k].frame)
    <3>1. /\ x \in Nat /\ y \in Nat /\ z \in Nat /\ y = x + z - 1
          /\ x = P + sof /\ e = sof + z
      BY <1>6, <2>1, <2>3
    <3>2. i \in Nat /\ sof \in Nat /\ i <= sof
      BY <1>1, <1>3
    <3> HIDE DEF x, y, z
    <3>3. P + i <= x /\ y < P + e /\ P + e = y + 1
      BY <3>1, <3>2
    <3> QED BY <3>3 DEF x, y
  <2>5. ASSUME NEW m \in 1 .. Len(sq), P + i <= sq[m].first, sq[m].first < P + e
        PROVE  m = k
    <3> DEFINE x == sq[m]
               y == sq[k]
    <3>1. /\ x.first \in Nat /\ x.last \in Nat /\ x.first < x.last
          /\ y.first \in Nat /\ y.last \in Nat /\ y.first < y.last
          /\ ~(x.first < P + sof) /\ x.first < P + e
          /\ y.first = P + sof /\ P + e = y.last + 1
      BY <1>5, <1>6, <2>1, <2>4, <2>5
    <3> HIDE DEF x, y
    <3>2. y.first <= x.first /\ x.first <= y.last
      BY <1>3, <3>1
    <3>3. ~(m < k)
      <4> SUFFICES ASSUME m < k PROVE FALSE
        OBVIOUS
      <4>1. x.last < y.first
        BY DEF IsSent, x, y
      <4> QED BY <3>1, <3>2, <4>1
    <3>4. ~(k < m)
      <4> SUFFICES ASSUME k < m PROVE FALSE
        OBVIOUS
      <4>1. y.last < x.first
        BY DEF IsSent, x, y
      <4> QED BY <3>1, <3>2, <4>1
    <3>5. m \in Int /\ k \in Int
      BY SentAre
    <3> QED BY <3>3, <3>4, <3>5
  <2>6. Picks(<<sq[k].frame>>, sq, P + i, P + i, P + e)
    <3> DEFINE lo == P + i
               hi == P + e
    <3>1. /\ lo <= sq[k].first /\ sq[k].last < hi
          /\ \A m \in 1 .. Len(sq) : lo <= sq[m].first /\ sq[m].first < hi => m = k
      BY <2>4, <2>5
    <3> HIDE DEF lo, hi
    <3>2. Picks(<<sq[k].frame>>, sq, lo, lo, hi)
      BY <3>1, PicksOne
    <3> QED BY <3>2 DEF lo, hi
  <2> QED BY <2>3, <2>6 DEF sof, e
<1>8. CASE ~Intact(buf, sof)
  <2>1. Taken(buf, sof) = <<>>
    BY <1>8 DEF Taken
  <2>2. e = sof + 1
    <3>1. Overlong(buf, sof) \/ ~Overlong(buf, sof)
      OBVIOUS
    <3> QED BY <1>8, <3>1 DEF Behind, Resync
  <2> HIDE DEF e
  <2>3. ASSUME NEW m \in 1 .. Len(sq), P + i <= sq[m].first, sq[m].first < P + e
        PROVE  FALSE
    <3>1. ~(sq[m].first < P + sof)
      BY <1>5, <2>3
    <3>2. sq[m].first = P + sof
      <4> DEFINE x == sq[m].first
      <4>1. x \in Nat /\ ~(x < P + sof) /\ x < P + e
        BY <1>6, <2>3, <3>1
      <4> HIDE DEF x
      <4>2. x = P + sof
        BY <1>3, <2>2, <4>1
      <4> QED BY <4>2 DEF x
    <3>3. Stands(buf, sof, sq[m].frame)
      BY <1>3, <3>2 DEF Seen
    <3>4. Intact(buf, sof)
      BY <1>3, <1>4, <1>6, <3>3, StandingIsTaken
    <3> QED BY <1>8, <3>4
  <2>4. Picks(<<>>, sq, P + i, P + i, P + e)
    BY <2>3, PicksNone
  <2> QED BY <2>1, <2>4 DEF sof, e
<1> QED BY <1>7, <1>8

ScannedTo(buf, P, sq, i, e) ==
  /\ scan_from(buf)[i].rest = From(buf, e)
  /\ Picks(scan_from(buf)[i].frames, sq, P + i, P + i, P + e)
  /\ e < Len(buf) => e \in Starts(buf, 1) /\ Short(buf, e)

LEMMA Scanned ==
  ASSUME NEW buf \in Bytes, NEW P \in Nat, NEW sq, IsSent(sq), Seen(buf, P, sq)
  PROVE  \A i \in 1 .. Len(buf) + 1 : \E e \in i .. Len(buf) + 1 : ScannedTo(buf, P, sq, i, e)
<1> DEFINE N == Len(buf) + 1
           S == {i \in 1 .. N : \E e \in i .. N : ScannedTo(buf, P, sq, i, e)}
<1>1. N \in Nat /\ Len(buf) \in Nat
  BY BytesAre
<1>2. ASSUME NEW i \in 1 .. N, \A k \in i + 1 .. N : k \in S PROVE i \in S
  <2> DEFINE sof == First(buf, i)
  <2>0. i \in Nat \ {0}
    BY <1>1
  <2>1. CASE Starts(buf, i) = {}
    <3> DEFINE e == IF i > Len(buf) THEN i ELSE Len(buf)
    <3>1. /\ scan_from(buf)[i].frames = <<>>
          /\ scan_from(buf)[i].rest = NoStart(buf, i)
      BY <2>1, FoundIs
    <3>2. NoStart(buf, i) = From(buf, e)
      BY NoStartIs
    <3>3. e \in i .. N /\ ~(e < Len(buf)) /\ e \in Nat
      BY <1>1
    <3>4. ASSUME NEW k \in 1 .. Len(sq) PROVE ~(P + i <= sq[k].first /\ sq[k].first < P + e)
      <4>1. CASE i > Len(buf)
        <5>1. e = i /\ sq[k].first \in Nat
          BY <4>1, SentAre
        <5> HIDE DEF e
        <5> QED BY <2>0, <5>1
      <4>2. CASE ~(i > Len(buf))
        <5>1. e = Len(buf) /\ e <= Len(buf) /\ \A p \in Starts(buf, i) : e <= p
          BY <1>1, <2>1, <4>2
        <5> HIDE DEF e
        <5> QED BY <3>3, <5>1, NoneBefore
      <4> QED BY <4>1, <4>2
    <3> HIDE DEF e
    <3>5. Picks(<<>>, sq, P + i, P + i, P + e)
      BY <3>4, PicksNone
    <3>6. ScannedTo(buf, P, sq, i, e)
      BY <3>1, <3>2, <3>3, <3>5 DEF ScannedTo
    <3> QED BY <3>3, <3>6
  <2>2. CASE Starts(buf, i) # {} /\ Short(buf, sof)
    <3>1. /\ sof \in Starts(buf, i) /\ sof \in i .. Len(buf) - 1
          /\ \A q \in Starts(buf, i) : sof <= q
      BY <2>0, <2>2, FirstIs
    <3>2. scan_from(buf)[i].frames = <<>> /\ scan_from(buf)[i].rest = From(buf, sof)
      BY <2>2, FoundIs
    <3> HIDE DEF sof
    <3>3. sof \in Nat /\ sof <= Len(buf) /\ sof \in i .. N /\ sof \in Starts(buf, 1)
      BY <1>1, <3>1 DEF Starts
    <3>4. \A k \in 1 .. Len(sq) : ~(P + i <= sq[k].first /\ sq[k].first < P + sof)
      BY <3>1, <3>3, NoneBefore
    <3>5. Picks(<<>>, sq, P + i, P + i, P + sof)
      BY <3>4, PicksNone
    <3>6. ScannedTo(buf, P, sq, i, sof)
      BY <2>2, <3>2, <3>3, <3>5 DEF ScannedTo
    <3> QED BY <3>3, <3>6
  <2>3. CASE Starts(buf, i) # {} /\ ~Short(buf, sof)
    <3> DEFINE b == Behind(buf, sof)
               t == Taken(buf, sof)
               u == scan_from(buf)[b].frames
    <3>1. /\ scan_from(buf)[i].frames = t \o u
          /\ scan_from(buf)[i].rest = scan_from(buf)[b].rest
          /\ b \in i + 1 .. N /\ t \in Seq(FrameSet)
      BY <2>3, FoundIs
    <3>2. Picks(t, sq, P + i, P + i, P + b)
      BY <2>3, JudgedPicks
    <3>3. u \in Seq(FrameSet)
      <4>1. b \in 1 .. Len(buf) + 1
        BY <1>1, <3>1
      <4> HIDE DEF b
      <4> QED BY <4>1, ScanType
    <3> HIDE DEF sof, b, t
    <3>4. PICK e \in b .. N : ScannedTo(buf, P, sq, b, e)
      BY <1>2, <3>1
    <3>5. Picks(u, sq, P + b, P + b, P + e)
      BY <3>4 DEF ScannedTo
    <3> HIDE DEF u
    <3>6. /\ P + i \in Int /\ P + b \in Int /\ P + e \in Int
          /\ P + i <= P + b /\ P + b <= P + e /\ e \in i .. N
      BY <1>1, <3>1
    <3>7. Picks(t \o u, sq, P + i, P + i, P + e)
      <4> DEFINE lo == P + i
                 mid == P + b
                 hi == P + e
      <4>1. /\ lo \in Int /\ mid \in Int /\ hi \in Int /\ lo <= mid /\ mid <= hi
            /\ Picks(t, sq, lo, lo, mid) /\ Picks(u, sq, mid, mid, hi)
        BY <3>2, <3>5, <3>6
      <4> HIDE DEF lo, mid, hi
      <4>2. Picks(t \o u, sq, lo, lo, hi)
        BY <3>1, <3>3, <4>1, PicksJoin
      <4> QED BY <4>2 DEF lo, hi
    <3>8. ScannedTo(buf, P, sq, i, e)
      BY <3>1, <3>4, <3>7 DEF ScannedTo, u
    <3> QED BY <3>6, <3>8
  <2> QED BY <2>1, <2>2, <2>3
<1> HIDE DEF S, N
<1>3. \A i \in 1 .. N : i \in S
  BY <1>1, <1>2, Downwards
<1> QED BY <1>3 DEF S, N

(* Behind a start that may still become a frame no longest frame has room. *)
LEMMA RoomBehind ==
  ASSUME NEW buf \in Bytes, NEW e \in Starts(buf, 1), Short(buf, e),
         NEW cap \in Nat, MAXPAY <= cap, BLOB_MAX_PAYLOAD <= cap
  PROVE  Len(buf) - e < cap + 8
<1>1. Len(buf) \in Nat /\ e \in 1 .. Len(buf)
  BY BytesAre DEF Starts
<1> SUFFICES ASSUME ~(Len(buf) - e < cap + 8) PROVE FALSE
  OBVIOUS
<1> DEFINE have == Len(buf) - e + 1
<1>2. have \in Nat /\ have >= cap + 9 /\ ~(have < 9)
  BY <1>1
<1>3. ~Overlong(buf, e) /\ have < LenAt(buf, e) + 9
  BY <1>2 DEF Short
<1>4. e + 5 \in 1 .. Len(buf) /\ (e + 5) + 1 \in 1 .. Len(buf)
  BY <1>1, <1>2
<1> HIDE DEF have
<1>5. LenAt(buf, e) \in Nat
  <2> DEFINE i == e + 5
             j == i + 1
  <2>1. buf[i] \in Nat /\ buf[j] \in Nat
    <3>1. i \in 1 .. Len(buf) /\ j \in 1 .. Len(buf)
      BY <1>4
    <3> HIDE DEF i, j
    <3> QED BY <3>1, BytesAre
  <2>2. LenAt(buf, e) = buf[i] + 256 * buf[j]
    BY DEF LenAt, u16le
  <2> HIDE DEF i, j
  <2> QED BY <2>1, <2>2
<1>6. LenAt(buf, e) <= type_cap(buf[e + 3]) /\ type_cap(buf[e + 3]) <= cap
  <2>1. MAXPAY \in Nat /\ BLOB_MAX_PAYLOAD \in Nat
    BY UartAssumption
  <2>2. type_cap(buf[e + 3]) \in Nat /\ type_cap(buf[e + 3]) <= cap
    BY <2>1 DEF type_cap
  <2> QED BY <1>3, <1>5, <2>2 DEF Overlong
<1> DEFINE l == LenAt(buf, e)
           t == type_cap(buf[e + 3])
<1>7. l \in Nat /\ l <= t /\ t <= cap /\ have < l + 9 /\ t \in Nat
  <2>1. t \in Nat
    BY UartAssumption DEF type_cap
  <2> QED BY <1>3, <1>5, <1>6, <2>1
<1> HIDE DEF l, t
<1> QED BY <1>2, <1>7

(* Where nothing is found, a frame that has come whole, and behind whose   *)
(* start the longest frame would have come, begins before the buffer.      *)
LEMMA NoneIsKept ==
  ASSUME NEW buf \in Bytes, NEW P \in Nat, NEW sq, IsSent(sq), Seen(buf, P, sq),
         scan(buf).frames = <<>>, NEW i \in 1 .. Len(sq),
         NEW cap \in Nat, MAXPAY <= cap, BLOB_MAX_PAYLOAD <= cap,
         sq[i].last <= P + Len(buf), sq[i].first + cap + 6 <= P + Len(buf)
  PROVE  sq[i].first <= P
<1> SUFFICES ASSUME ~(sq[i].first <= P) PROVE FALSE
  OBVIOUS
<1> DEFINE p == sq[i].first - P
           f == sq[i].frame
<1>1. /\ Len(buf) \in Nat /\ 1 \in 1 .. Len(buf) + 1
      /\ sq[i].first \in Nat /\ sq[i].last \in Nat /\ f \in Frames /\ Size(f) \in Nat /\ Size(f) >= 9
      /\ sq[i].last = sq[i].first + Size(f) - 1
  BY BytesAre, SentAre
<1>2. /\ sq[i].first = P + p /\ p \in 1 .. Len(buf)
      /\ p + Size(f) - 1 <= Len(buf) /\ p + cap + 6 <= Len(buf)
  <2> DEFINE x == sq[i].first
             y == sq[i].last
             z == Size(f)
  <2>1. /\ x \in Nat /\ y \in Nat /\ z \in Nat /\ z >= 9 /\ y = x + z - 1
        /\ y <= P + Len(buf) /\ x + cap + 6 <= P + Len(buf) /\ ~(x <= P) /\ p = x - P
    BY <1>1
  <2> HIDE DEF x, y, z, p
  <2> DEFINE l == Len(buf)
  <2>2. l \in Nat /\ y <= P + l /\ x + cap + 6 <= P + l
    BY <1>1, <2>1
  <2> HIDE DEF l
  <2>3. p \in Nat /\ p >= 1 /\ x = P + p
    BY <2>1
  <2>4. p + z - 1 <= l /\ p + cap + 6 <= l
    BY <2>1, <2>2, <2>3
  <2>5. p \in 1 .. l
    BY <2>1, <2>2, <2>3, <2>4
  <2> QED BY <2>3, <2>4, <2>5 DEF x, z, l
<1>3. Stands(buf, p, f)
  <2> HIDE DEF p
  <2> QED BY <1>2 DEF Seen
<1> HIDE DEF p, f
<1>4. PICK e \in 1 .. Len(buf) + 1 : ScannedTo(buf, P, sq, 1, e)
  BY <1>1, Scanned
<1>5. ~(P + 1 <= sq[i].first /\ sq[i].first < P + e)
  <2> SUFFICES ASSUME P + 1 <= sq[i].first, sq[i].first < P + e PROVE FALSE
    OBVIOUS
  <2>1. Picks(<<>>, sq, P + 1, P + 1, P + e)
    BY <1>4 DEF ScannedTo, scan
  <2>2. \E j \in 1 .. Len(<<>>) : TRUE
    BY <2>1 DEF Picks, Picked
  <2>3. Len(<<>>) = 0 /\ \A j \in 1 .. 0 : FALSE
    OBVIOUS
  <2> QED BY <2>2, <2>3
<1>6. e <= p /\ e < Len(buf)
  BY <1>1, <1>2, <1>5
<1>7. e \in Starts(buf, 1) /\ Short(buf, e)
  BY <1>4, <1>6 DEF ScannedTo
<1>8. e # p
  BY <1>1, <1>2, <1>3, <1>7, WholeIsTaken
<1>9. p \in Starts(buf, 1)
  <2> DEFINE z == Size(f)
             b == 1
  <2>1. z \in Nat /\ z >= 9 /\ p + z - 1 <= Len(buf) /\ p \in 1 .. Len(buf) /\ Len(buf) \in Nat
    BY <1>1, <1>2
  <2> HIDE DEF z
  <2>2. b \in Nat \ {0} /\ p \in b .. Len(buf) - 1
    BY <2>1
  <2> HIDE DEF b
  <2>3. p \in Starts(buf, b)
    BY <1>1, <1>3, <2>2, StandingStarts
  <2> QED BY <2>3 DEF b
<1>10. e + 1 # p
  BY <1>7, <1>9 DEF Starts, SOF1, SOF2
<1> DEFINE size == Len(buf)
<1>11. size \in Nat /\ p \in Nat /\ e \in Nat /\ e <= p /\ e # p /\ e + 1 # p /\ p + cap + 6 <= size
  BY <1>1, <1>2, <1>6, <1>8, <1>10
<1>12. size - e < cap + 8
  BY <1>7, RoomBehind
<1> HIDE DEF size
<1> QED BY <1>11, <1>12

-----------------------------------------------------------------------------
(* The bytes on the line.                                                  *)
Put(its, u, k) == IF k = 0 THEN <<>> ELSE u[k - 1] \o its[k]

LEMMA StreamExists ==
  ASSUME NEW m \in Nat, NEW its
  PROVE  \E g : g = [k \in 0 .. m |-> Put(its, g, k)]
<1> DEFINE S == {k \in 0 .. m : \E g : g = [i \in 0 .. k |-> Put(its, g, i)]}
<1>1. 0 \in S
  <2> DEFINE h == [i \in 0 .. 0 |-> <<>>]
  <2>1. h = [i \in 0 .. 0 |-> Put(its, h, i)]
    BY DEF Put
  <2> QED BY <2>1
<1>2. ASSUME NEW k \in 1 .. m, k - 1 \in S PROVE k \in S
  <2>1. PICK g : g = [i \in 0 .. k - 1 |-> Put(its, g, i)]
    BY <1>2
  <2> DEFINE h == [i \in 0 .. k |-> Put(its, g, i)]
  <2>2. ASSUME NEW i \in 0 .. k PROVE Put(its, h, i) = Put(its, g, i)
    <3>1. CASE i = 0
      BY <3>1 DEF Put
    <3>2. CASE i # 0
      <4>1. i - 1 \in 0 .. k - 1 /\ i - 1 \in 0 .. k
        BY <3>2
      <4>2. h[i - 1] = Put(its, g, i - 1)
        BY <4>1
      <4>3. g[i - 1] = Put(its, g, i - 1)
        BY <2>1, <4>1
      <4> HIDE DEF h
      <4> QED BY <3>2, <4>2, <4>3 DEF Put
    <3> QED BY <3>1, <3>2
  <2>3. h = [i \in 0 .. k |-> Put(its, h, i)]
    BY <2>2
  <2> HIDE DEF h
  <2> QED BY <1>2, <2>3
<1> HIDE DEF S
<1>3. \A k \in 0 .. m : k \in S
  BY <1>1, <1>2, Upwards
<1>4. m \in S
  BY <1>3
<1> QED BY <1>4 DEF S

LEMMA StreamIs ==
  ASSUME NEW m \in Nat, NEW T, NEW its \in [1 .. m -> T]
  PROVE  /\ Stream(its)[0] = <<>>
         /\ \A k \in 1 .. m : Stream(its)[k] = Stream(its)[k - 1] \o its[k]
<1>1. Len(its) = m
  <2>1. its \in Seq(T)
    BY SeqDef
  <2>2. 1 .. Len(its) = 1 .. m /\ Len(its) \in Nat
    BY <2>1, LenProperties
  <2> QED BY <2>2
<1> DEFINE upto == CHOOSE g : g = [k \in 0 .. m |-> Put(its, g, k)]
<1>2. Stream(its) = upto
  BY <1>1 DEF Stream, Put
<1>3. upto = [k \in 0 .. m |-> Put(its, upto, k)]
  BY StreamExists, Zenon
<1> HIDE DEF upto
<1>4. \A k \in 0 .. m : upto[k] = Put(its, upto, k)
  BY <1>3
<1>5. upto[0] = <<>>
  BY <1>4 DEF Put
<1>6. ASSUME NEW k \in 1 .. m PROVE upto[k] = upto[k - 1] \o its[k]
  <2>1. k \in 0 .. m /\ k # 0
    OBVIOUS
  <2> QED BY <1>4, <2>1 DEF Put
<1> QED BY <1>2, <1>5, <1>6

(* What is on the line already stays there.                                *)
OneMore(more, its, m, bytes) ==
  /\ \A k \in 0 .. m : Stream(more)[k] = Stream(its)[k]
  /\ Stream(more)[m + 1] = Stream(its)[m] \o bytes
  /\ \A k \in 1 .. m : more[k] = its[k]
  /\ more[m + 1] = bytes

LEMMA StreamGrows ==
  ASSUME NEW m \in Nat, NEW T, NEW its \in [1 .. m -> T], NEW bytes \in T,
         NEW more, more = [k \in 1 .. m + 1 |-> IF k <= m THEN its[k] ELSE bytes]
  PROVE  more \in [1 .. m + 1 -> T] /\ OneMore(more, its, m, bytes)
<1> DEFINE S == {k \in 0 .. m : Stream(more)[k] = Stream(its)[k]}
<1>1. more \in [1 .. m + 1 -> T]
  <2>1. \A k \in 1 .. m + 1 : k <= m => k \in 1 .. m
    OBVIOUS
  <2> QED BY <2>1
<1>2. /\ \A k \in 1 .. m : more[k] = its[k]
      /\ more[m + 1] = bytes
  OBVIOUS
<1>3. m + 1 \in Nat
  OBVIOUS
<1>4. /\ Stream(more)[0] = <<>>
      /\ \A k \in 1 .. m + 1 : Stream(more)[k] = Stream(more)[k - 1] \o more[k]
  <2> DEFINE q == m + 1
  <2>1. q \in Nat /\ more \in [1 .. q -> T]
    BY <1>1, <1>3
  <2> HIDE DEF q
  <2>2. /\ Stream(more)[0] = <<>>
        /\ \A k \in 1 .. q : Stream(more)[k] = Stream(more)[k - 1] \o more[k]
    BY <2>1, StreamIs
  <2> QED BY <2>2 DEF q
<1>5. /\ Stream(its)[0] = <<>>
      /\ \A k \in 1 .. m : Stream(its)[k] = Stream(its)[k - 1] \o its[k]
  BY StreamIs
<1>6. 0 \in S
  BY <1>4, <1>5
<1>7. ASSUME NEW k \in 1 .. m, k - 1 \in S PROVE k \in S
  <2>1. k \in 1 .. m + 1 /\ k \in 0 .. m
    OBVIOUS
  <2>2. Stream(more)[k] = Stream(more)[k - 1] \o its[k]
    BY <1>2, <1>4, <2>1
  <2>3. Stream(more)[k - 1] = Stream(its)[k - 1]
    BY <1>7
  <2> QED BY <1>5, <2>1, <2>2, <2>3
<1> HIDE DEF S
<1>8. \A k \in 0 .. m : k \in S
  BY <1>6, <1>7, Upwards
<1>9. \A k \in 0 .. m : Stream(more)[k] = Stream(its)[k]
  BY <1>8 DEF S
<1>10. Stream(more)[m + 1] = Stream(its)[m] \o bytes
  <2>1. m + 1 \in 1 .. m + 1 /\ (m + 1) - 1 = m /\ m \in 0 .. m
    OBVIOUS
  <2>2. Stream(more)[m + 1] = Stream(more)[(m + 1) - 1] \o more[m + 1]
    BY <1>4, <2>1
  <2> QED BY <1>2, <1>9, <2>1, <2>2
<1> QED BY <1>1, <1>2, <1>9, <1>10 DEF OneMore

-----------------------------------------------------------------------------
(* The buffer holds the end of what was received, which is the beginning   *)
(* of what is on the line.                                                 *)
Holds(s, S, upto) == \A k \in 1 .. Len(s) : s[k] = S[upto - Len(s) + k]

Waiting(s, S, from) == \A k \in 1 .. Len(s) : s[k] = S[from + k]

LEMMA HoldsFrom ==
  ASSUME NEW s \in Bytes, NEW S, NEW g \in Nat, Holds(s, S, g), NEW i \in 1 .. Len(s) + 1
  PROVE  Holds(From(s, i), S, g)
<1> SUFFICES ASSUME NEW k \in 1 .. Len(From(s, i))
             PROVE  From(s, i)[k] = S[g - Len(From(s, i)) + k]
  BY DEF Holds
<1>1. Len(s) \in Nat /\ Len(From(s, i)) = Len(s) - i + 1
  BY BytesAre, FromIs
<1>2. k \in 1 .. Len(s) - i + 1
  BY <1>1
<1>3. From(s, i)[k] = s[i + k - 1]
  BY <1>2, FromIs
<1>4. /\ i + k - 1 \in 1 .. Len(s)
      /\ g - Len(s) + (i + k - 1) = g - (Len(s) - i + 1) + k
  BY <1>1, <1>2
<1>5. s[i + k - 1] = S[g - Len(s) + (i + k - 1)]
  BY <1>4 DEF Holds
<1> QED BY <1>1, <1>3, <1>4, <1>5

LEMMA PieceHeld ==
  ASSUME NEW s \in Bytes, NEW l \in Bytes, NEW S, NEW g \in Nat, Holds(s, S, g),
         Waiting(l, S, g), NEW k \in 1 .. Len(l)
  PROVE  /\ s \o SubSeq(l, 1, k) \in Bytes
         /\ Len(s \o SubSeq(l, 1, k)) = Len(s) + k
         /\ Holds(s \o SubSeq(l, 1, k), S, g + k)
         /\ Waiting(From(l, k + 1), S, g + k)
         /\ Len(From(l, k + 1)) = Len(l) - k
<1>1. Len(s) \in Nat /\ Len(l) \in Nat /\ \A i \in 1 .. k : l[i] \in Nat
  BY BytesAre
<1> DEFINE p == SubSeq(l, 1, k)
           t == s \o p
           r == From(l, k + 1)
<1>2. p \in Bytes /\ Len(p) = k /\ \A i \in 1 .. k : p[i] = l[i]
  <2>1. /\ p \in Bytes /\ Len(p) = k
    BY PieceIs
  <2>2. \A i \in 1 .. k - 1 + 1 : p[i] = l[1 + i - 1]
    BY <1>1, SubSeqProperties
  <2> HIDE DEF p
  <2>3. \A i \in 1 .. k : i \in 1 .. k - 1 + 1 /\ 1 + i - 1 = i
    OBVIOUS
  <2> QED BY <2>1, <2>2, <2>3
<1> HIDE DEF p
<1>3. /\ t \in Seq(Nat) /\ Len(t) = Len(s) + Len(p)
      /\ \A i \in 1 .. Len(s) + Len(p) : t[i] = IF i <= Len(s) THEN s[i] ELSE p[i - Len(s)]
  BY <1>2, ConcatProperties DEF Bytes
<1> HIDE DEF t
<1>4. Len(t) = Len(s) + k
  BY <1>2, <1>3
<1>5. ASSUME NEW i \in 1 .. Len(t) PROVE t[i] = S[g + k - Len(t) + i]
  <2>1. g + k - Len(t) + i = g - Len(s) + i /\ i \in 1 .. Len(s) + Len(p)
    BY <1>1, <1>2, <1>4
  <2>2. CASE i <= Len(s)
    <3>1. i \in 1 .. Len(s)
      BY <1>1, <2>2
    <3>2. s[i] = S[g - Len(s) + i]
      BY <3>1 DEF Holds
    <3>3. t[i] = s[i]
      BY <1>3, <2>1, <2>2
    <3> QED BY <2>1, <3>2, <3>3
  <2>3. CASE ~(i <= Len(s))
    <3> DEFINE j == i - Len(s)
    <3>1. j \in 1 .. k /\ j \in 1 .. Len(l) /\ g + j = g - Len(s) + i
      BY <1>1, <1>2, <2>1, <2>3
    <3>2. t[i] = p[j]
      BY <1>3, <2>1, <2>3
    <3> HIDE DEF j
    <3>3. p[j] = l[j] /\ l[j] = S[g + j]
      BY <1>2, <3>1 DEF Waiting
    <3> QED BY <2>1, <3>1, <3>2, <3>3
  <2> QED BY <2>2, <2>3
<1>6. /\ r \in Bytes /\ Len(r) = Len(l) - k
      /\ \A i \in 1 .. Len(l) - k : r[i] = l[k + i]
  <2> DEFINE m == k + 1
  <2>1. m \in 1 .. Len(l) + 1 /\ Len(l) - m + 1 = Len(l) - k
    BY <1>1
  <2>2. \A i \in 1 .. Len(l) - k : m + i - 1 = k + i
    BY <1>1
  <2> HIDE DEF m
  <2>3. /\ From(l, m) \in Bytes /\ Len(From(l, m)) = Len(l) - m + 1
        /\ \A i \in 1 .. Len(l) - m + 1 : From(l, m)[i] = l[m + i - 1]
    BY <2>1, FromIs
  <2>4. r = From(l, m)
    BY DEF m
  <2> HIDE DEF r
  <2> QED BY <2>1, <2>2, <2>3, <2>4
<1> HIDE DEF r
<1>7. ASSUME NEW i \in 1 .. Len(r) PROVE r[i] = S[g + k + i]
  <2>1. i \in 1 .. Len(l) - k /\ k + i \in 1 .. Len(l) /\ g + (k + i) = g + k + i
    BY <1>1, <1>6
  <2>2. l[k + i] = S[g + (k + i)]
    BY <2>1 DEF Waiting
  <2> QED BY <1>6, <2>1, <2>2
<1>8. Holds(t, S, g + k) /\ Waiting(r, S, g + k)
  BY <1>5, <1>7 DEF Holds, Waiting
<1> QED BY <1>3, <1>4, <1>6, <1>8 DEF t, p, r, Bytes

(* S is what was put on the line, item by item.                            *)
OnLine(its, S) ==
  /\ its \in [1 .. items -> Items] /\ S = Stream(its)[items] /\ S \in Bytes
  /\ Len(S) = got + Len(line) /\ Waiting(line, S, got) /\ Holds(rx, S, got)
  /\ \A i \in 1 .. Len(sent) :
       sent[i].last <= Len(S) /\ Stands(S, sent[i].first, sent[i].frame)
  /\ \A k \in 1 .. items :
       its[k] \notin Noise =>
         \E i \in 1 .. Len(sent) : sent[i].first = Len(Stream(its)[k - 1]) + 1

LineInv ==
  /\ items \in 0 .. MaxItems /\ IsSent(sent) /\ cut + Len(rx) <= got
  /\ \E its, S : OnLine(its, S)

LEMMA ItemsAre == Items \subseteq Bytes
BY SentAreBytes DEF Items

LEMMA SeenIs ==
  ASSUME UartType, LineInv
  PROVE  Seen(rx, got - Len(rx), sent)
<1>1. PICK its, S : OnLine(its, S)
  BY DEF LineInv
<1> DEFINE P == got - Len(rx)
<1>2. /\ rx \in Bytes /\ Len(rx) \in Nat /\ line \in Bytes /\ Len(line) \in Nat /\ got \in Nat
      /\ S \in Bytes /\ Len(S) \in Nat /\ Len(S) = got + Len(line) /\ Len(rx) <= got
  BY <1>1, BytesAre DEF UartType, OnLine
<1>3. P \in Nat /\ P + Len(rx) <= Len(S)
  BY <1>2
<1>4. ASSUME NEW k \in 1 .. Len(rx) PROVE rx[k] = S[P + k] /\ P + k \in 1 .. Len(S)
  <2>1. rx[k] = S[P + k]
    BY <1>1 DEF OnLine, Holds
  <2> QED BY <1>2, <1>3, <2>1
<1> HIDE DEF P
<1>5. ASSUME NEW p \in Starts(rx, 1), ~Short(rx, p), Intact(rx, p)
      PROVE  \E i \in 1 .. Len(sent) : sent[i].first = P + p
  <2> DEFINE q == P + p
  <2>1. p \in 1 .. Len(rx) - 1 /\ rx[p] = SOF1 /\ rx[p + 1] = SOF2
    BY DEF Starts
  <2>2. p \in 1 .. Len(rx) /\ p + 1 \in 1 .. Len(rx) /\ P + (p + 1) = q + 1
    BY <1>2, <1>3, <2>1
  <2>3. q \in 1 .. Len(S) /\ q \in 1 .. Len(S) - 1
    BY <1>2, <1>3, <2>1
  <2>4. S[q] = SOF1 /\ S[q + 1] = SOF2
    BY <1>4, <2>1, <2>2
  <2>5. Agrees(rx, p, S, q)
    <3>1. ASSUME NEW m \in 0 .. Len(rx) - p PROVE S[q + m] = rx[p + m]
      <4>1. p + m \in 1 .. Len(rx) /\ P + (p + m) = q + m
        BY <1>2, <1>3, <2>2
      <4>2. rx[p + m] = S[P + (p + m)]
        BY <1>4, <4>1
      <4> QED BY <4>1, <4>2
    <3>2. Len(S) - q >= Len(rx) - p
      BY <1>2, <1>3, <2>2
    <3> HIDE DEF q
    <3> QED BY <3>1, <3>2 DEF Agrees
  <2> HIDE DEF q
  <2>6. ~Short(S, q) /\ Taken(S, q) = Taken(rx, p)
    BY <1>2, <1>5, <2>2, <2>3, <2>5, SameJudged
  <2>7. Intact(S, q)
    BY <1>5, <2>6 DEF Taken
  <2>8. q \in Starts(S, 1)
    BY <2>3, <2>4 DEF Starts
  <2>9. items \in 0 .. MaxItems /\ its \in [1 .. items -> Items] /\ S = Stream(its)[items]
    BY <1>1 DEF LineInv, OnLine
  <2>10. \E i \in 1 .. items : its[i] \notin Noise /\ q = Len(Stream(its)[i - 1]) + 1
    <3>1. \A r \in Starts(Stream(its)[items], 1) :
            ~Short(Stream(its)[items], r) /\ Intact(Stream(its)[items], r) =>
              \E i \in 1 .. items : its[i] \notin Noise /\ r = Len(Stream(its)[i - 1]) + 1
      BY <2>9, LineAssumption
    <3> QED BY <2>6, <2>7, <2>8, <2>9, <3>1
  <2>11. \E i \in 1 .. Len(sent) : sent[i].first = q
    BY <1>1, <2>10 DEF OnLine
  <2> QED BY <2>11 DEF q
<1>6. ASSUME NEW i \in 1 .. Len(sent), NEW p \in 1 .. Len(rx), sent[i].first = P + p
      PROVE  Stands(rx, p, sent[i].frame)
  <2>1. Stands(S, P + p, sent[i].frame)
    BY <1>1, <1>6 DEF OnLine
  <2> SUFFICES ASSUME NEW k \in 1 .. Size(sent[i].frame), p + k - 1 <= Len(rx)
               PROVE  rx[p + k - 1] = build(sent[i].frame)[k]
    BY DEF Stands
  <2> DEFINE m == p + k - 1
  <2>2. m \in 1 .. Len(rx) /\ P + m = P + p + k - 1
    <3>1. k \in Nat /\ k >= 1
      BY DEF LineInv
    <3> QED BY <1>2, <1>3, <3>1
  <2> HIDE DEF m
  <2>3. rx[m] = S[P + m] /\ P + m <= Len(S)
    BY <1>2, <1>4, <2>2
  <2>4. S[P + p + k - 1] = build(sent[i].frame)[k]
    BY <2>1, <2>2, <2>3 DEF Stands
  <2> QED BY <2>2, <2>3, <2>4 DEF m
<1>7. Seen(rx, P, sent)
  BY <1>5, <1>6 DEF Seen
<1> QED BY <1>7 DEF P

-----------------------------------------------------------------------------
(* What is put on the line comes behind what is there.                     *)
Grows(S, T, bytes) ==
  /\ T \in Bytes /\ Len(T) = Len(S) + Len(bytes)
  /\ \A k \in 1 .. Len(S) : T[k] = S[k]
  /\ \A k \in 1 .. Len(bytes) : T[Len(S) + k] = bytes[k]

LEMMA StandsOn ==
  ASSUME NEW S \in Bytes, NEW T, NEW bytes \in Bytes, Grows(S, T, bytes),
         NEW p \in Nat \ {0}, NEW f \in Frames, p + Size(f) - 1 <= Len(S), Stands(S, p, f)
  PROVE  Stands(T, p, f)
<1> SUFFICES ASSUME NEW k \in 1 .. Size(f) PROVE T[p + k - 1] = build(f)[k]
  BY DEF Stands
<1>1. Size(f) \in Nat /\ Len(S) \in Nat
  BY FramesAre, BytesAre DEF Size
<1> DEFINE m == p + k - 1
<1>2. m \in 1 .. Len(S)
  BY <1>1
<1>3. S[m] = build(f)[k]
  BY <1>2 DEF Stands
<1> HIDE DEF m
<1>4. T[m] = S[m]
  BY <1>2 DEF Grows
<1> QED BY <1>3, <1>4 DEF m

LEMMA PutIs ==
  ASSUME UartType, LineInv, NEW its, NEW S, OnLine(its, S), NEW bytes \in Items, Puts(bytes)
  PROVE  /\ items' \in 0 .. MaxItems /\ items' = items + 1 /\ cut' + Len(rx') <= got'
         /\ UNCHANGED rxVars /\ UNCHANGED <<frames, handled, at>>
         /\ \E more, T :
              /\ more \in [1 .. items' -> Items] /\ T = Stream(more)[items']
              /\ \A k \in 0 .. items : Stream(more)[k] = Stream(its)[k]
              /\ \A k \in 1 .. items : more[k] = its[k]
              /\ more[items'] = bytes
              /\ Grows(S, T, bytes)
              /\ Len(T) = got' + Len(line') /\ Waiting(line', T, got') /\ Holds(rx', T, got')
<1>1. /\ items' = items + 1 /\ items < MaxItems /\ line' = line \o bytes
      /\ UNCHANGED <<rx, got, cut>> /\ UNCHANGED rxVars /\ UNCHANGED <<frames, handled, at>>
  BY DEF Puts, rxVars, taskVars
<1>2. items \in Nat /\ MaxItems \in Nat /\ cut + Len(rx) <= got
  BY UartAssumption DEF LineInv
<1>3. bytes \in Bytes /\ Len(bytes) \in Nat
  BY ItemsAre, BytesAre
<1>4. /\ its \in [1 .. items -> Items] /\ S = Stream(its)[items] /\ S \in Bytes /\ Len(S) \in Nat
      /\ Len(S) = got + Len(line) /\ Waiting(line, S, got) /\ Holds(rx, S, got)
      /\ line \in Bytes /\ Len(line) \in Nat /\ rx \in Bytes /\ Len(rx) \in Nat /\ got \in Nat
      /\ Len(rx) <= got
  BY BytesAre DEF OnLine, UartType
<1>5. /\ items' \in 0 .. MaxItems /\ cut' + Len(rx') <= got'
  <2>1. items' \in 0 .. MaxItems
    BY <1>1, <1>2
  <2> QED BY <1>1, <1>2, <2>1
<1> DEFINE more == [k \in 1 .. items + 1 |-> IF k <= items THEN its[k] ELSE bytes]
           T == S \o bytes
           w == line \o bytes
<1>6. /\ more \in [1 .. items + 1 -> Items]
      /\ \A k \in 0 .. items : Stream(more)[k] = Stream(its)[k]
      /\ Stream(more)[items + 1] = Stream(its)[items] \o bytes
      /\ \A k \in 1 .. items : more[k] = its[k]
      /\ more[items + 1] = bytes
  <2>1. more = [k \in 1 .. items + 1 |-> IF k <= items THEN its[k] ELSE bytes]
    OBVIOUS
  <2>2. items \in Nat /\ its \in [1 .. items -> Items] /\ bytes \in Items
    BY <1>2, <1>4
  <2> HIDE DEF more
  <2>3. more \in [1 .. items + 1 -> Items] /\ OneMore(more, its, items, bytes)
    BY <2>1, <2>2, StreamGrows
  <2> QED BY <2>3 DEF OneMore
<1> HIDE DEF more
<1>7. /\ T \in Seq(Nat) /\ Len(T) = Len(S) + Len(bytes)
      /\ \A k \in 1 .. Len(S) + Len(bytes) : T[k] = IF k <= Len(S) THEN S[k] ELSE bytes[k - Len(S)]
  BY <1>3, <1>4, ConcatProperties DEF Bytes
<1>8. /\ w \in Seq(Nat) /\ Len(w) = Len(line) + Len(bytes)
      /\ \A k \in 1 .. Len(line) + Len(bytes) :
           w[k] = IF k <= Len(line) THEN line[k] ELSE bytes[k - Len(line)]
  BY <1>3, <1>4, ConcatProperties DEF Bytes
<1>9. Stream(more)[items'] = T
  BY <1>1, <1>4, <1>6
<1> HIDE DEF T, w
<1>10. ASSUME NEW k \in 1 .. Len(S) PROVE T[k] = S[k]
  <2>1. k \in 1 .. Len(S) + Len(bytes) /\ k <= Len(S)
    BY <1>3, <1>4
  <2> QED BY <1>7, <2>1
<1>11. ASSUME NEW k \in 1 .. Len(bytes) PROVE T[Len(S) + k] = bytes[k]
  <2> DEFINE m == Len(S) + k
  <2>1. m \in 1 .. Len(S) + Len(bytes) /\ ~(m <= Len(S)) /\ m - Len(S) = k
    BY <1>3, <1>4
  <2> HIDE DEF m
  <2>2. T[m] = bytes[k]
    BY <1>7, <2>1
  <2> QED BY <2>2 DEF m
<1>12. Grows(S, T, bytes)
  BY <1>7, <1>10, <1>11 DEF Grows, Bytes
<1>13. Holds(rx, T, got)
  <2> SUFFICES ASSUME NEW k \in 1 .. Len(rx) PROVE rx[k] = T[got - Len(rx) + k]
    BY DEF Holds
  <2> DEFINE m == got - Len(rx) + k
  <2>1. m \in 1 .. Len(S)
    BY <1>4
  <2>2. rx[k] = S[m]
    BY <1>4 DEF Holds
  <2> HIDE DEF m
  <2>3. T[m] = S[m]
    BY <1>10, <2>1
  <2> QED BY <2>2, <2>3 DEF m
<1>14. Waiting(w, T, got)
  <2> SUFFICES ASSUME NEW k \in 1 .. Len(w) PROVE w[k] = T[got + k]
    BY DEF Waiting
  <2>1. CASE k <= Len(line)
    <3>1. k \in 1 .. Len(line) /\ got + k \in 1 .. Len(S) /\ k \in 1 .. Len(line) + Len(bytes)
      BY <1>3, <1>4, <1>8, <2>1
    <3>2. w[k] = line[k] /\ line[k] = S[got + k]
      BY <1>4, <1>8, <2>1, <3>1 DEF Waiting
    <3>3. T[got + k] = S[got + k]
      BY <1>10, <3>1
    <3> QED BY <3>2, <3>3
  <2>2. CASE ~(k <= Len(line))
    <3> DEFINE j == k - Len(line)
    <3>1. j \in 1 .. Len(bytes) /\ got + k = Len(S) + j /\ k \in 1 .. Len(line) + Len(bytes)
      <4>1. /\ Len(line) \in Nat /\ Len(bytes) \in Nat /\ got \in Nat /\ Len(S) = got + Len(line)
            /\ k \in 1 .. Len(line) + Len(bytes)
        BY <1>3, <1>4, <1>8
      <4> QED BY <2>2, <4>1
    <3>2. w[k] = bytes[j]
      BY <1>8, <2>2, <3>1
    <3> HIDE DEF j
    <3>3. T[Len(S) + j] = bytes[j]
      BY <1>11, <3>1
    <3> QED BY <3>1, <3>2, <3>3
  <2> QED BY <2>1, <2>2
<1>15. Len(T) = got + Len(w)
  BY <1>3, <1>4, <1>7, <1>8
<1>16. /\ more \in [1 .. items' -> Items] /\ T = Stream(more)[items']
       /\ \A k \in 0 .. items : Stream(more)[k] = Stream(its)[k]
       /\ \A k \in 1 .. items : more[k] = its[k]
       /\ more[items'] = bytes
  BY <1>1, <1>6, <1>9
<1>17. Len(T) = got' + Len(line') /\ Waiting(line', T, got') /\ Holds(rx', T, got')
  BY <1>1, <1>13, <1>14, <1>15 DEF w
<1> QED BY <1>1, <1>5, <1>12, <1>16, <1>17

LEMMA DisturbsLine ==
  ASSUME UartType, LineInv, NEW bytes \in Noise, Disturbs(bytes)
  PROVE  LineInv'
<1>1. PICK its, S : OnLine(its, S)
  BY DEF LineInv
<1>2. bytes \in Items /\ Puts(bytes) /\ sent' = sent /\ bytes \in Bytes
  BY SentAreBytes DEF Items, Disturbs
<1>3. /\ items' \in 0 .. MaxItems /\ items' = items + 1 /\ cut' + Len(rx') <= got'
      /\ items \in Nat
  BY <1>1, <1>2, PutIs DEF LineInv
<1>4. PICK more, T :
        /\ more \in [1 .. items' -> Items] /\ T = Stream(more)[items']
        /\ \A k \in 0 .. items : Stream(more)[k] = Stream(its)[k]
        /\ \A k \in 1 .. items : more[k] = its[k]
        /\ more[items'] = bytes
        /\ Grows(S, T, bytes)
        /\ Len(T) = got' + Len(line') /\ Waiting(line', T, got') /\ Holds(rx', T, got')
  BY <1>1, <1>2, PutIs
<1>5. ASSUME NEW i \in 1 .. Len(sent')
      PROVE  sent'[i].last <= Len(T) /\ Stands(T, sent'[i].first, sent'[i].frame)
  <2>1. i \in 1 .. Len(sent) /\ S \in Bytes
    BY <1>1, <1>2 DEF OnLine
  <2>2. /\ sent[i].first \in Nat \ {0} /\ sent[i].frame \in Frames /\ sent[i].last \in Nat
        /\ sent[i].first + Size(sent[i].frame) - 1 = sent[i].last
    BY <2>1, SentAre DEF LineInv
  <2>3. sent[i].last <= Len(S) /\ Stands(S, sent[i].first, sent[i].frame)
    BY <1>1, <2>1 DEF OnLine
  <2>4. Stands(T, sent[i].first, sent[i].frame)
    BY <1>2, <1>4, <2>1, <2>2, <2>3, StandsOn
  <2>5. Len(S) \in Nat /\ Len(bytes) \in Nat /\ Len(T) = Len(S) + Len(bytes)
    BY <1>2, <1>4, <2>1, BytesAre DEF Grows
  <2>6. sent[i].last <= Len(T)
    BY <2>2, <2>3, <2>5
  <2> QED BY <1>2, <2>4, <2>6
<1>6. ASSUME NEW k \in 1 .. items', more[k] \notin Noise
      PROVE  \E i \in 1 .. Len(sent') : sent'[i].first = Len(Stream(more)[k - 1]) + 1
  <2>1. k # items'
    BY <1>4, <1>6
  <2>2. k \in 1 .. items /\ k - 1 \in 0 .. items
    BY <1>3, <2>1
  <2>3. its[k] \notin Noise /\ Stream(more)[k - 1] = Stream(its)[k - 1]
    BY <1>4, <1>6, <2>2
  <2> QED BY <1>1, <1>2, <2>2, <2>3 DEF OnLine
<1>7. OnLine(more, T)'
  BY <1>4, <1>5, <1>6 DEF OnLine, Grows
<1>8. IsSent(sent')
  BY <1>2 DEF LineInv
<1> QED BY <1>3, <1>7, <1>8 DEF LineInv

LEMMA SentGrows ==
  ASSUME NEW sq, IsSent(sq), NEW f \in Frames, NEW l \in Nat, \A i \in 1 .. Len(sq) : sq[i].last <= l,
         NEW s, s = [frame |-> f, first |-> l + 1, last |-> l + Len(build(f))]
  PROVE  /\ IsSent(Append(sq, s))
         /\ Len(Append(sq, s)) = Len(sq) + 1
         /\ \A i \in 1 .. Len(sq) : Append(sq, s)[i] = sq[i]
         /\ Append(sq, s)[Len(sq) + 1] = s
<1> DEFINE t == Append(sq, s)
<1>1. Len(build(f)) = Size(f) /\ Size(f) \in Nat
  BY BuildIs DEF Size
<1>2. /\ s.frame = f /\ s.first = l + 1 /\ s.last = l + Size(f) /\ s \in SentSet
  <2>1. l + 1 \in Nat \ {0} /\ l + Size(f) \in Nat
    BY <1>1
  <2> QED BY <1>1, <2>1 DEF SentSet
<1>3. Len(sq) \in Nat /\ sq \in Seq(SentSet)
  BY SentAre DEF IsSent
<1>4. /\ t \in Seq(SentSet) /\ Len(t) = Len(sq) + 1
      /\ \A i \in 1 .. Len(sq) : t[i] = sq[i]
      /\ t[Len(sq) + 1] = s
  BY <1>2, <1>3, AppendProperties
<1> HIDE DEF t
<1>5. ASSUME NEW i \in 1 .. Len(t)
      PROVE  i \in 1 .. Len(sq) \/ i = Len(sq) + 1
  BY <1>3, <1>4
<1>6. ASSUME NEW i \in 1 .. Len(t) PROVE t[i].last = t[i].first + Size(t[i].frame) - 1
  <2>1. CASE i \in 1 .. Len(sq)
    <3>1. sq[i].last = sq[i].first + Size(sq[i].frame) - 1
      BY <2>1 DEF IsSent
    <3> QED BY <1>4, <2>1, <3>1
  <2>2. CASE i = Len(sq) + 1
    <3>1. l + Size(f) = l + 1 + Size(f) - 1
      BY <1>1
    <3> QED BY <1>2, <1>4, <2>2, <3>1
  <2> QED BY <1>5, <2>1, <2>2
<1>7. ASSUME NEW i \in 1 .. Len(t), NEW j \in 1 .. Len(t), i < j PROVE t[i].last < t[j].first
  <2>1. i \in 1 .. Len(sq)
    BY <1>3, <1>4, <1>7
  <2>2. CASE j \in 1 .. Len(sq)
    <3>1. sq[i].last < sq[j].first
      BY <1>7, <2>1, <2>2 DEF IsSent
    <3> QED BY <1>4, <2>1, <2>2, <3>1
  <2>3. CASE j = Len(sq) + 1
    <3>1. sq[i].last \in Nat /\ sq[i].last <= l
      BY <2>1, SentAre
    <3>2. sq[i].last < l + 1
      BY <3>1
    <3> QED BY <1>2, <1>4, <2>1, <2>3, <3>2
  <2> QED BY <1>5, <2>2, <2>3
<1>8. IsSent(t)
  BY <1>4, <1>6, <1>7 DEF IsSent
<1> QED BY <1>4, <1>8 DEF t

LEMMA SendsLine ==
  ASSUME UartType, LineInv, NEW f \in Frames, Sends(f)
  PROVE  LineInv'
<1>1. PICK its, S : OnLine(its, S)
  BY DEF LineInv
<1> DEFINE b == build(f)
           l == got + Len(line)
           s == [frame |-> f, first |-> l + 1, last |-> l + Len(b)]
<1>2. b \in Items /\ Puts(b) /\ b \in Bytes
  BY SentAreBytes DEF Items, Sends
<1>3. sent' = Append(sent, s)
  BY DEF Sends
<1>4. /\ S \in Bytes /\ Len(S) \in Nat /\ Len(S) = l /\ IsSent(sent)
      /\ Len(b) = Size(f) /\ Size(f) \in Nat /\ Len(sent) \in Nat
      /\ \A i \in 1 .. Len(sent) :
           sent[i].last <= Len(S) /\ Stands(S, sent[i].first, sent[i].frame)
  BY <1>1, BytesAre, BuildIs, SentAre DEF OnLine, LineInv, Size
<1>5. s.frame = f /\ s.first = l + 1 /\ s.last = l + Size(f)
  BY <1>4
<1> HIDE DEF b, l
<1>6. /\ IsSent(sent') /\ Len(sent') = Len(sent) + 1
      /\ \A i \in 1 .. Len(sent) : sent'[i] = sent[i]
      /\ sent'[Len(sent) + 1] = s
  <2>1. l \in Nat /\ \A i \in 1 .. Len(sent) : sent[i].last <= l
    BY <1>4
  <2>2. s = [frame |-> f, first |-> l + 1, last |-> l + Len(build(f))]
    BY DEF b
  <2> HIDE DEF s
  <2> QED BY <1>3, <1>4, <2>1, <2>2, SentGrows
<1> HIDE DEF s
<1>7. /\ items' \in 0 .. MaxItems /\ items' = items + 1 /\ cut' + Len(rx') <= got'
      /\ items \in Nat
  BY <1>1, <1>2, PutIs DEF LineInv
<1>8. PICK more, T :
        /\ more \in [1 .. items' -> Items] /\ T = Stream(more)[items']
        /\ \A k \in 0 .. items : Stream(more)[k] = Stream(its)[k]
        /\ \A k \in 1 .. items : more[k] = its[k]
        /\ more[items'] = b
        /\ Grows(S, T, b)
        /\ Len(T) = got' + Len(line') /\ Waiting(line', T, got') /\ Holds(rx', T, got')
  BY <1>1, <1>2, PutIs
<1>9. Len(T) = l + Size(f)
  BY <1>4, <1>8 DEF Grows
<1>10. ASSUME NEW i \in 1 .. Len(sent')
       PROVE  sent'[i].last <= Len(T) /\ Stands(T, sent'[i].first, sent'[i].frame)
  <2>1. CASE i \in 1 .. Len(sent)
    <3>1. /\ sent[i].first \in Nat \ {0} /\ sent[i].frame \in Frames /\ sent[i].last \in Nat
          /\ sent[i].first + Size(sent[i].frame) - 1 = sent[i].last
      BY <1>4, <2>1, SentAre
    <3>2. sent[i].last <= Len(S) /\ Stands(S, sent[i].first, sent[i].frame)
      BY <1>4, <2>1
    <3>3. Stands(T, sent[i].first, sent[i].frame)
      BY <1>2, <1>4, <1>8, <3>1, <3>2, StandsOn
    <3>4. sent[i].last <= Len(T)
      BY <1>4, <1>9, <3>1, <3>2
    <3> QED BY <1>6, <2>1, <3>3, <3>4
  <2>2. CASE i = Len(sent) + 1
    <3>1. Stands(T, l + 1, f)
      <4> SUFFICES ASSUME NEW k \in 1 .. Size(f) PROVE T[l + 1 + k - 1] = b[k]
        BY DEF Stands, b
      <4>1. l + 1 + k - 1 = Len(S) + k /\ k \in 1 .. Len(b)
        BY <1>4
      <4>2. T[Len(S) + k] = b[k]
        BY <1>8, <4>1 DEF Grows
      <4> QED BY <4>1, <4>2
    <3>2. l + Size(f) <= Len(T)
      BY <1>4, <1>9
    <3> QED BY <1>5, <1>6, <2>2, <3>1, <3>2
  <2> QED BY <1>4, <1>6, <2>1, <2>2
<1>11. ASSUME NEW k \in 1 .. items', more[k] \notin Noise
       PROVE  \E i \in 1 .. Len(sent') : sent'[i].first = Len(Stream(more)[k - 1]) + 1
  <2>1. CASE k = items'
    <3>1. k - 1 = items /\ items \in 0 .. items
      BY <1>7, <2>1
    <3>2. Stream(more)[k - 1] = S
      BY <1>1, <1>8, <3>1 DEF OnLine
    <3>3. Len(sent) + 1 \in 1 .. Len(sent')
      BY <1>4, <1>6
    <3> QED BY <1>4, <1>5, <1>6, <3>2, <3>3
  <2>2. CASE k # items'
    <3>1. k \in 1 .. items /\ k - 1 \in 0 .. items
      BY <1>7, <2>2
    <3>2. its[k] \notin Noise /\ Stream(more)[k - 1] = Stream(its)[k - 1]
      BY <1>8, <1>11, <3>1
    <3>3. PICK i \in 1 .. Len(sent) : sent[i].first = Len(Stream(its)[k - 1]) + 1
      BY <1>1, <3>1, <3>2 DEF OnLine
    <3>4. i \in 1 .. Len(sent') /\ sent'[i] = sent[i]
      BY <1>4, <1>6
    <3> QED BY <3>2, <3>3, <3>4
  <2> QED BY <2>1, <2>2
<1>12. OnLine(more, T)'
  BY <1>8, <1>10, <1>11 DEF OnLine, Grows
<1> QED BY <1>6, <1>7, <1>12 DEF LineInv

LEMMA ReceivedIs ==
  ASSUME UartType, LineInv, NEW k \in 1 .. Len(line), on_receive(k)
  PROVE  /\ got' = got + k /\ Len(line') = Len(line) - k /\ Len(rx') \in Nat
         /\ cut' + Len(rx') <= got'
         /\ \/ cut' = cut /\ Len(rx') = Len(rx) + k
            \/ cut' + Len(rx') = got' /\ got - Len(rx) <= got' - Len(rx')
         /\ \A S : Holds(rx, S, got) /\ Waiting(line, S, got) =>
                     Holds(rx', S, got') /\ Waiting(line', S, got')
<1> DEFINE s == rx \o SubSeq(line, 1, k)
<1>1. /\ rx \in Bytes /\ Len(rx) \in Nat /\ line \in Bytes /\ Len(line) \in Nat
      /\ got \in Nat /\ cut \in Nat /\ cut + Len(rx) <= got /\ k \in Nat /\ k >= 1
      /\ BUFF \in Nat /\ BUFF >= 1
  <2>1. BUFF \in Nat \ {0}
    BY UartAssumption
  <2>2. /\ rx \in Bytes /\ line \in Bytes /\ got \in Nat /\ cut \in Nat
        /\ cut + Len(rx) <= got
    BY DEF UartType, LineInv
  <2>3. Len(rx) \in Nat /\ Len(line) \in Nat
    BY <2>2, BytesAre
  <2> QED BY <2>1, <2>2, <2>3
<1>2. /\ rx' = LastOf(s, BUFF) /\ got' = got + k /\ line' = From(line, k + 1)
      /\ cut' = IF Len(rx) + k > BUFF THEN got + k - BUFF ELSE cut
  BY DEF on_receive
<1>3. s \in Bytes /\ Len(s) = Len(rx) + k /\ Len(line') = Len(line) - k
  <2>2. SubSeq(line, 1, k) \in Bytes /\ Len(SubSeq(line, 1, k)) = k
    BY <1>1, PieceIs
  <2>3. s \in Bytes /\ Len(s) = Len(rx) + k
    <3> DEFINE p == SubSeq(line, 1, k)
    <3>1. p \in Bytes /\ Len(p) = k
      BY <2>2
    <3> HIDE DEF p
    <3>2. rx \o p \in Bytes /\ Len(rx \o p) = Len(rx) + Len(p)
      BY <1>1, <3>1, BytesJoin
    <3> QED BY <3>1, <3>2 DEF p
  <2>4. Len(line') = Len(line) - k
    <3> DEFINE m == k + 1
    <3>1. m \in 1 .. Len(line) + 1 /\ Len(line) - m + 1 = Len(line) - k
      BY <1>1
    <3> HIDE DEF m
    <3>2. Len(From(line, m)) = Len(line) - m + 1
      BY <1>1, <3>1, FromIs
    <3> QED BY <1>2, <3>1, <3>2 DEF m
  <2> QED BY <2>3, <2>4
<1>4. PICK i \in 1 .. Len(s) + 1 :
        /\ rx' = From(s, i) /\ Len(rx') = Len(s) - i + 1
        /\ \/ cut' = cut /\ i = 1
           \/ cut' + Len(rx') = got' /\ i > 1
  <2> HIDE DEF s
  <2>1. CASE Len(rx) + k > BUFF
    <3> DEFINE j == Len(s) - BUFF + 1
    <3>1. j \in 1 .. Len(s) + 1 /\ Len(s) - j + 1 = BUFF /\ j > 1
      BY <1>1, <1>3, <2>1
    <3>2. rx' = From(s, j)
      BY <1>1, <1>2, <1>3, <2>1 DEF LastOf
    <3> HIDE DEF j
    <3>3. Len(rx') = Len(s) - j + 1
      BY <1>3, <3>1, <3>2, FromIs
    <3>4. cut' + Len(rx') = got'
      BY <1>1, <1>2, <2>1, <3>1, <3>3
    <3> QED BY <3>1, <3>2, <3>3, <3>4
  <2>2. CASE ~(Len(rx) + k > BUFF)
    <3>1. rx' = s
      BY <1>1, <1>2, <1>3, <2>2 DEF LastOf
    <3>2. From(s, 1) = s
      BY <1>3, SubSeqFull DEF From, Bytes
    <3>3. 1 \in 1 .. Len(s) + 1 /\ Len(rx') = Len(s) - 1 + 1
      BY <1>1, <1>3, <3>1
    <3> QED BY <1>2, <2>2, <3>1, <3>2, <3>3
  <2> QED BY <2>1, <2>2
<1>5. ASSUME NEW S, Holds(rx, S, got), Waiting(line, S, got)
      PROVE  Holds(rx', S, got') /\ Waiting(line', S, got')
  <2>1. Holds(s, S, got + k) /\ Waiting(From(line, k + 1), S, got + k)
    BY <1>1, <1>5, PieceHeld
  <2> DEFINE g == got + k
  <2>2. g \in Nat /\ Holds(s, S, g) /\ got' = g
    BY <1>1, <1>2, <2>1
  <2> HIDE DEF s, g
  <2>3. Holds(From(s, i), S, g)
    BY <1>3, <2>2, HoldsFrom
  <2> QED BY <1>2, <1>4, <2>1, <2>2, <2>3
<1> HIDE DEF s
<1>6. /\ cut' + Len(rx') <= got'
      /\ \/ cut' = cut /\ Len(rx') = Len(rx) + k
         \/ cut' + Len(rx') = got' /\ got - Len(rx) <= got' - Len(rx')
      /\ Len(rx') \in Nat
  <2>1. CASE cut' = cut /\ i = 1
    BY <1>1, <1>2, <1>3, <1>4, <2>1
  <2>2. CASE cut' + Len(rx') = got' /\ i > 1
    BY <1>1, <1>2, <1>3, <1>4, <2>2
  <2> QED BY <1>4, <2>1, <2>2
<1> QED BY <1>2, <1>3, <1>5, <1>6

LEMMA LineSame ==
  ASSUME LineInv, UNCHANGED <<rx, got, cut, line, items, sent>>
  PROVE  LineInv'
BY DEF LineInv, OnLine

LEMMA LineStep ==
  ASSUME UartType, LineInv, [Next]_vars
  PROVE  LineInv'
<1>1. ASSUME NEW k \in 1 .. Len(line), on_receive(k) PROVE LineInv'
  <2>1. PICK its, S : OnLine(its, S)
    BY DEF LineInv
  <2>2. items' = items /\ sent' = sent
    BY <1>1 DEF on_receive
  <2>3. /\ got' = got + k /\ Len(line') = Len(line) - k /\ cut' + Len(rx') <= got'
        /\ Holds(rx', S, got') /\ Waiting(line', S, got')
    BY <1>1, <2>1, ReceivedIs DEF OnLine
  <2>4. Len(S) = got' + Len(line')
    <3>1. Len(S) = got + Len(line) /\ got \in Nat /\ Len(line) \in Nat /\ k \in Nat
      BY <2>1, BytesAre DEF OnLine, UartType
    <3> QED BY <2>3, <3>1
  <2>5. OnLine(its, S)'
    BY <2>1, <2>2, <2>3, <2>4 DEF OnLine
  <2>6. items' \in 0 .. MaxItems /\ IsSent(sent')
    BY <2>2 DEF LineInv
  <2> QED BY <2>3, <2>5, <2>6 DEF LineInv
<1>2. CASE Turn
  <2>1. UNCHANGED <<got, line, items, sent>>
    BY <1>2 DEF Turn, rxVars, lineVars
  <2>2. CASE UNCHANGED <<rx, cut>>
    BY <2>1, <2>2, LineSame
  <2>3. CASE rx' = scan(rx).rest /\ cut' = cut
    <3>1. PICK its, S : OnLine(its, S)
      BY DEF LineInv
    <3>2. rx \in Bytes /\ Len(rx) \in Nat /\ got \in Nat /\ cut \in Nat /\ cut + Len(rx) <= got
      BY BytesAre DEF UartType, LineInv
    <3>3. PICK e \in 1 .. Len(rx) + 1 : Left(rx, 1, e)
      BY <3>2, RestIs
    <3>4. rx' = From(rx, e) /\ Len(rx') = Len(rx) - e + 1
      <4>1. rx' = From(rx, e)
        BY <2>3, <3>3 DEF Left, scan
      <4> QED BY <3>2, <4>1, FromIs
    <3>5. Holds(rx', S, got')
      <4>1. Holds(From(rx, e), S, got)
        BY <3>1, <3>2, HoldsFrom DEF OnLine
      <4> QED BY <2>1, <3>4, <4>1
    <3>6. cut' + Len(rx') <= got'
      BY <2>1, <2>3, <3>2, <3>4
    <3>7. OnLine(its, S)'
      BY <2>1, <3>1, <3>5 DEF OnLine
    <3>8. items' \in 0 .. MaxItems /\ IsSent(sent')
      BY <2>1 DEF LineInv
    <3> QED BY <3>6, <3>7, <3>8 DEF LineInv
  <2> QED BY <1>2, <2>2, <2>3, TurnIs
<1>3. CASE Dispatch \/ queue_evt \/ Opens \/ Timeout \/ Delivers \/ Resumes
  <2>1. UNCHANGED <<rx, got, cut, line, items, sent>>
    BY <1>3 DEF Dispatch, queue_evt, Opens, Timeout, Delivers, Resumes, rxVars, lineVars
  <2> QED BY <2>1, LineSame
<1>4. CASE UNCHANGED vars
  <2>1. UNCHANGED <<rx, got, cut, line, items, sent>>
    BY <1>4 DEF vars, rxVars, lineVars
  <2> QED BY <2>1, LineSame
<1> QED BY <1>1, <1>2, <1>3, <1>4, SendsLine, DisturbsLine DEF Next

LEMMA LineInit == Init => LineInv
<1> SUFFICES ASSUME Init PROVE LineInv
  OBVIOUS
<1>1. /\ rx = <<>> /\ got = 0 /\ cut = 0 /\ line = <<>> /\ items = 0 /\ sent = <<>>
  BY DEF Init
<1>2. <<>> \in Bytes /\ <<>> \in Seq(SentSet) /\ Len(<<>>) = 0 /\ \A k \in 1 .. 0 : FALSE
  BY DEF Bytes
<1>3. \A k \in 1 .. Len(<<>>) : FALSE
  BY <1>2
<1>4. IsSent(sent)
  BY <1>1, <1>2, <1>3 DEF IsSent
<1>5. items \in 0 .. MaxItems /\ cut + Len(rx) <= got
  BY <1>1, <1>2, UartAssumption
<1> DEFINE its == [k \in 1 .. 0 |-> <<>>]
<1>6. its \in [1 .. 0 -> Items]
  BY <1>2
<1> HIDE DEF its
<1>7. Stream(its)[0] = <<>>
  <2>1. 0 \in Nat
    OBVIOUS
  <2> QED BY <1>6, <2>1, StreamIs
<1>8. Holds(rx, <<>>, got) /\ Waiting(line, <<>>, got)
  BY <1>1, <1>3 DEF Holds, Waiting
<1>9. Len(<<>>) = got + Len(line)
  BY <1>1, <1>2
<1>10. OnLine(its, <<>>)
  BY <1>1, <1>2, <1>3, <1>6, <1>7, <1>8, <1>9 DEF OnLine
<1> QED BY <1>4, <1>5, <1>10 DEF LineInv

-----------------------------------------------------------------------------
(* What was handled and what is cut out and not handled yet are sent       *)
(* frames, and all of those between the last byte that was dropped and the *)
(* buffer.                                                                 *)
PickInv == Picks(handled \o frames, sent, 0, cut + 1, got - Len(rx) + 1)

LEMMA PicksMore ==
  ASSUME NEW sq, NEW t, Len(sq) \in Nat, Len(t) = Len(sq) + 1,
         \A i \in 1 .. Len(sq) : t[i] = sq[i],
         NEW fr, NEW lo, NEW c, NEW hi, ~(t[Len(sq) + 1].first < hi), Picks(fr, sq, lo, c, hi)
  PROVE  Picks(fr, t, lo, c, hi)
<1>1. PICK pick \in [1 .. Len(fr) -> 1 .. Len(sq)] : Picked(pick, fr, sq, lo, c, hi)
  BY DEF Picks
<1>2. 1 .. Len(sq) \subseteq 1 .. Len(t) /\ \A i \in 1 .. Len(t) : i \in 1 .. Len(sq) \/ i = Len(sq) + 1
  OBVIOUS
<1>3. pick \in [1 .. Len(fr) -> 1 .. Len(t)] /\ \A j \in 1 .. Len(fr) : t[pick[j]] = sq[pick[j]]
  BY <1>1, <1>2
<1>4. ASSUME NEW i \in 1 .. Len(t), c <= t[i].first, t[i].first < hi
      PROVE  \E j \in 1 .. Len(fr) : pick[j] = i
  <2>1. i \in 1 .. Len(sq)
    BY <1>2, <1>4
  <2> QED BY <1>1, <1>4, <2>1 DEF Picked
<1>5. Picked(pick, fr, t, lo, c, hi)
  BY <1>1, <1>3, <1>4 DEF Picked
<1> QED BY <1>3, <1>5 DEF Picks

LEMMA PicksLater ==
  ASSUME NEW sq, IsSent(sq), NEW fr, NEW lo, NEW c \in Int, NEW hi \in Int,
         NEW d \in Int, NEW top \in Int, hi <= top,
         \A i \in 1 .. Len(sq) :
           d <= sq[i].first /\ sq[i].first < top => c <= sq[i].first /\ sq[i].first < hi,
         Picks(fr, sq, lo, c, hi)
  PROVE  Picks(fr, sq, lo, d, top)
<1>1. PICK pick \in [1 .. Len(fr) -> 1 .. Len(sq)] : Picked(pick, fr, sq, lo, c, hi)
  BY DEF Picks
<1>2. ASSUME NEW j \in 1 .. Len(fr) PROVE sq[pick[j]].last < top
  <2>1. sq[pick[j]].last < hi /\ pick[j] \in 1 .. Len(sq)
    BY <1>1 DEF Picked
  <2>2. sq[pick[j]].last \in Nat
    BY <2>1, SentAre
  <2> QED BY <2>1, <2>2
<1>3. Picked(pick, fr, sq, lo, d, top)
  BY <1>1, <1>2 DEF Picked
<1> QED BY <1>3 DEF Picks

LEMMA PickSame ==
  ASSUME PickInv, UNCHANGED <<rx, got, cut, sent>>, handled' \o frames' = handled \o frames
  PROVE  PickInv'
BY DEF PickInv

LEMMA SendsPick ==
  ASSUME UartType, LineInv, PickInv, NEW f \in Frames, Sends(f)
  PROVE  PickInv'
<1> DEFINE l == got + Len(line)
           s == [frame |-> f, first |-> l + 1, last |-> l + Len(build(f))]
<1>1. /\ sent' = Append(sent, s) /\ UNCHANGED <<rx, got, cut, frames, handled>>
  BY DEF Sends, Puts, rxVars, taskVars
<1>2. PICK its, S : OnLine(its, S)
  BY DEF LineInv
<1>3. /\ l \in Nat /\ Len(sent) \in Nat /\ IsSent(sent) /\ got \in Nat /\ Len(rx) \in Nat
      /\ Len(line) \in Nat /\ \A i \in 1 .. Len(sent) : sent[i].last <= l
  BY <1>2, BytesAre, SentAre DEF OnLine, UartType, LineInv
<1>4. s = [frame |-> f, first |-> l + 1, last |-> l + Len(build(f))] /\ s.first = l + 1
  OBVIOUS
<1>5. ~(l + 1 < got - Len(rx) + 1)
  BY <1>3
<1> HIDE DEF s, l
<1>6. /\ Len(sent') = Len(sent) + 1 /\ \A i \in 1 .. Len(sent) : sent'[i] = sent[i]
      /\ sent'[Len(sent) + 1] = s
  BY <1>1, <1>3, <1>4, SentGrows
<1> DEFINE hi == got - Len(rx) + 1
           c == cut + 1
           h == handled \o frames
<1>7. Picks(h, sent, 0, c, hi) /\ ~(sent'[Len(sent) + 1].first < hi)
  BY <1>4, <1>5, <1>6 DEF PickInv
<1> HIDE DEF hi, c, h
<1>8. Picks(h, sent', 0, c, hi)
  BY <1>3, <1>6, <1>7, PicksMore
<1> QED BY <1>1, <1>8 DEF PickInv, h, c, hi

LEMMA ReceivePick ==
  ASSUME UartType, LineInv, PickInv, NEW k \in 1 .. Len(line), on_receive(k)
  PROVE  PickInv'
<1>1. UNCHANGED <<frames, handled, sent>>
  BY DEF on_receive, taskVars
<1>2. /\ got' = got + k /\ Len(rx') \in Nat /\ cut' + Len(rx') <= got'
      /\ \/ cut' = cut /\ Len(rx') = Len(rx) + k
         \/ cut' + Len(rx') = got' /\ got - Len(rx) <= got' - Len(rx')
  BY ReceivedIs
<1>3. got \in Nat /\ cut \in Nat /\ Len(rx) \in Nat /\ k \in Nat /\ UartType' /\ IsSent(sent)
  BY BytesAre, ReceiveIs DEF UartType, LineInv
<1> DEFINE h == handled \o frames
           c == cut + 1
           hi == got - Len(rx) + 1
           d == cut' + 1
           top == got' - Len(rx') + 1
<1>4. /\ c \in Int /\ hi \in Int /\ d \in Int /\ top \in Int
      /\ hi <= top /\ ((d = c /\ top = hi) \/ d = top)
  <2>1. cut' \in Nat /\ got' \in Nat
    BY <1>3 DEF UartType
  <2>2. /\ c \in Int /\ hi \in Int /\ d \in Int /\ top \in Int
    BY <1>2, <1>3, <2>1
  <2>3. CASE cut' = cut /\ Len(rx') = Len(rx) + k
    <3>1. d = c /\ top = hi
      BY <1>2, <1>3, <2>1, <2>3
    <3> QED BY <2>2, <3>1
  <2>4. CASE cut' + Len(rx') = got' /\ got - Len(rx) <= got' - Len(rx')
    <3>1. d = top /\ hi <= top
      BY <1>2, <1>3, <2>1, <2>4
    <3> QED BY <2>2, <3>1
  <2> QED BY <1>2, <2>3, <2>4
<1>5. Picks(h, sent, 0, c, hi)
  BY DEF PickInv
<1> HIDE DEF h, c, hi, d, top
<1>6. ASSUME NEW i \in 1 .. Len(sent), d <= sent[i].first, sent[i].first < top
      PROVE  c <= sent[i].first /\ sent[i].first < hi
  <2>1. sent[i].first \in Nat
    BY <1>3, SentAre
  <2> QED BY <1>4, <1>6, <2>1
<1>7. Picks(h, sent, 0, d, top)
  BY <1>3, <1>4, <1>5, <1>6, PicksLater
<1> QED BY <1>1, <1>7 DEF PickInv, h, d, top

LEMMA TurnPick ==
  ASSUME UartType, LineInv, PickInv, PieceInv, Turn
  PROVE  PickInv'
<1>1. at = "turn" /\ frames = <<>> /\ UNCHANGED <<got, handled, sent>>
  BY DEF Turn, PieceInv, rxVars, lineVars
<1>2. CASE UNCHANGED <<rx, cut, frames>>
  BY <1>1, <1>2, PickSame
<1>3. CASE frames' = scan(rx).frames /\ rx' = scan(rx).rest /\ cut' = cut
  <2> DEFINE P == got - Len(rx)
             fr == scan(rx).frames
  <2>1. /\ rx \in Bytes /\ Len(rx) \in Nat /\ got \in Nat /\ cut \in Nat /\ cut + Len(rx) <= got
        /\ P \in Nat /\ IsSent(sent) /\ Seen(rx, P, sent) /\ 1 \in 1 .. Len(rx) + 1
        /\ handled \in Seq(FrameSet) /\ fr \in Seq(FrameSet)
    <3>1. rx \in Bytes /\ got \in Nat /\ cut \in Nat /\ handled \in Seq(FrameSet)
          /\ cut + Len(rx) <= got /\ IsSent(sent)
      BY DEF UartType, LineInv
    <3>2. Len(rx) \in Nat /\ fr \in Seq(FrameSet)
      BY <3>1, BytesAre, RestIs
    <3> QED BY <3>1, <3>2, SeenIs
  <2>2. PICK e \in 1 .. Len(rx) + 1 : ScannedTo(rx, P, sent, 1, e)
    <3> HIDE DEF P
    <3> QED BY <2>1, Scanned
  <2>3. rx' = From(rx, e) /\ Picks(fr, sent, P + 1, P + 1, P + e)
    BY <1>3, <2>2 DEF ScannedTo, scan
  <2>4. Len(rx') = Len(rx) - e + 1
    BY <2>1, <2>3, FromIs
  <2> DEFINE c == cut + 1
             mid == P + 1
             hi == P + e
             lo == 0
  <2>5. /\ lo \in Int /\ c \in Int /\ mid \in Int /\ hi \in Int /\ lo <= mid /\ mid <= hi
        /\ got' - Len(rx') + 1 = hi /\ cut' + 1 = c
    BY <1>1, <1>3, <2>1, <2>4
  <2>6. Picks(handled, sent, lo, c, mid) /\ Picks(fr, sent, mid, mid, hi)
    <3>1. handled \o frames = handled
      BY <1>1, <2>1, ConcatEmptySeq
    <3> QED BY <2>3, <3>1 DEF PickInv
  <2> HIDE DEF c, mid, hi, P, fr, lo
  <2>7. Picks(handled \o fr, sent, lo, c, hi)
    BY <2>1, <2>5, <2>6, PicksJoin
  <2> QED BY <1>1, <1>3, <2>5, <2>7 DEF PickInv, fr, lo
<1> QED BY <1>2, <1>3, TurnIs

LEMMA PickStep ==
  ASSUME UartType, LineInv, PickInv, PieceInv, [Next]_vars
  PROVE  PickInv'
<1>1. CASE Dispatch
  <2>1. UNCHANGED <<rx, got, cut, sent>>
    BY <1>1 DEF Dispatch, rxVars, lineVars
  <2> QED BY <1>1, <2>1, DispatchIs, PickSame
<1>2. ASSUME NEW bytes \in Noise, Disturbs(bytes) PROVE PickInv'
  <2>1. UNCHANGED <<rx, got, cut, sent, frames, handled>>
    BY <1>2 DEF Disturbs, Puts, rxVars, taskVars
  <2> QED BY <2>1, PickSame
<1>3. CASE queue_evt \/ Opens \/ Timeout \/ Delivers \/ Resumes
  <2>1. UNCHANGED <<rx, got, cut, sent, frames, handled>>
    BY <1>3 DEF queue_evt, Opens, Timeout, Delivers, Resumes, rxVars, lineVars, taskVars
  <2> QED BY <2>1, PickSame
<1>4. CASE UNCHANGED vars
  <2>1. UNCHANGED <<rx, got, cut, sent, frames, handled>>
    BY <1>4 DEF vars, rxVars, lineVars, taskVars
  <2> QED BY <2>1, PickSame
<1> QED BY <1>1, <1>2, <1>3, <1>4, SendsPick, ReceivePick, TurnPick DEF Next

LEMMA PickInit == Init => PickInv
<1> SUFFICES ASSUME Init PROVE PickInv
  OBVIOUS
<1>1. /\ rx = <<>> /\ got = 0 /\ cut = 0 /\ sent = <<>> /\ handled = <<>> /\ frames = <<>>
  BY DEF Init
<1>2. Len(<<>>) = 0 /\ <<>> \o <<>> = <<>> /\ \A i \in 1 .. 0 : FALSE
  OBVIOUS
<1>3. \A i \in 1 .. Len(sent) : FALSE
  BY <1>1, <1>2
<1> DEFINE c == cut + 1
           hi == got - Len(rx) + 1
<1>4. \A i \in 1 .. Len(sent) : ~(c <= sent[i].first /\ sent[i].first < hi)
  BY <1>3
<1> HIDE DEF c, hi
<1>5. Picks(<<>>, sent, 0, c, hi)
  BY <1>4, PicksNone
<1> QED BY <1>1, <1>2, <1>5 DEF PickInv, c, hi

LEMMA AllAreHandled ==
  ASSUME UartType, LineInv, PickInv, PieceInv, WaitInv
  PROVE  IntactIsHandled
<1> DEFINE cap == IF MAXPAY > BLOB_MAX_PAYLOAD THEN MAXPAY ELSE BLOB_MAX_PAYLOAD
           Resolved(s) == s.first > cut /\ s.last <= got /\ s.first + cap + 6 <= got
<1> SUFFICES ASSUME at = "waits", ~message
             PROVE  \E pick \in [DOMAIN handled -> DOMAIN sent] :
                      /\ \A j \in DOMAIN handled : handled[j] = sent[pick[j]].frame
                      /\ \A j, k \in DOMAIN handled : j < k => pick[j] < pick[k]
                      /\ \A i \in DOMAIN sent : Resolved(sent[i]) => \E j \in DOMAIN handled : pick[j] = i
  BY DEF IntactIsHandled
<1>1. /\ frames = <<>> /\ scan(rx).frames = <<>> /\ handled \in Seq(FrameSet) /\ IsSent(sent)
      /\ got \in Nat /\ cut \in Nat /\ rx \in Bytes /\ cut + Len(rx) <= got
  BY DEF PieceInv, WaitInv, NothingWaits, UartType, LineInv
<1>2. DOMAIN handled = 1 .. Len(handled) /\ DOMAIN sent = 1 .. Len(sent)
  BY <1>1, LenProperties DEF IsSent
<1> DEFINE P == got - Len(rx)
<1>3. Len(rx) \in Nat /\ P \in Nat /\ P + Len(rx) = got
  BY <1>1, BytesAre
<1>4. handled \o frames = handled
  BY <1>1, ConcatEmptySeq
<1>5. PICK pick \in [1 .. Len(handled) -> 1 .. Len(sent)] :
        Picked(pick, handled, sent, 0, cut + 1, P + 1)
  BY <1>4 DEF PickInv, Picks
<1>6. /\ cap \in Nat /\ MAXPAY <= cap /\ BLOB_MAX_PAYLOAD <= cap
  <2>1. MAXPAY \in Nat /\ BLOB_MAX_PAYLOAD \in Nat
    BY UartAssumption
  <2> QED BY <2>1
<1>7. Seen(rx, P, sent)
  BY SeenIs
<1> HIDE DEF P, cap
<1>8. ASSUME NEW i \in 1 .. Len(sent), Resolved(sent[i])
      PROVE  \E j \in 1 .. Len(handled) : pick[j] = i
  <2>1. sent[i].first \in Nat
    BY <1>1, SentAre
  <2>2. sent[i].last <= P + Len(rx) /\ sent[i].first + cap + 6 <= P + Len(rx)
    BY <1>3, <1>8
  <2>3. sent[i].first <= P
    BY <1>1, <1>3, <1>6, <1>7, <2>2, NoneIsKept
  <2>4. cut + 1 <= sent[i].first /\ sent[i].first < P + 1
    BY <1>1, <1>3, <1>8, <2>1, <2>3
  <2> QED BY <1>5, <2>4 DEF Picked
<1>9. /\ \A j \in 1 .. Len(handled) : handled[j] = sent[pick[j]].frame
      /\ \A j, k \in 1 .. Len(handled) : j < k => pick[j] < pick[k]
  BY <1>5 DEF Picked
<1> HIDE DEF Resolved
<1>10. /\ pick \in [DOMAIN handled -> DOMAIN sent]
       /\ \A j \in DOMAIN handled : handled[j] = sent[pick[j]].frame
       /\ \A j, k \in DOMAIN handled : j < k => pick[j] < pick[k]
       /\ \A i \in DOMAIN sent : Resolved(sent[i]) => \E j \in DOMAIN handled : pick[j] = i
  BY <1>2, <1>8, <1>9
<1> QED BY <1>10

(* Whatever comes between the frames of the master, in whichever pieces,   *)
(* what is handled are its frames, in order and each at most once; and a   *)
(* waiting task has handled every one of them that was not dropped and is  *)
(* resolved (mgmt_uart.lua:122-155, resynchronization).                    *)
THEOREM FramesAreHandled == Spec => []IntactIsHandled
<1> DEFINE Inv == UartType /\ PieceInv /\ WaitInv /\ LineInv /\ PickInv
<1>1. Init => WaitInv
  BY DEF Init, WaitInv, NothingWaits
<1>2. Init => PieceInv
  BY PieceInit
<1>3. Init => Inv
  BY <1>1, <1>2, UartTypeInit, LineInit, PickInit
<1>4. Inv /\ [Next]_vars /\ UartType' => Inv'
  BY PieceStep, WaitStep, LineStep, PickStep
<1>5. Inv => IntactIsHandled
  BY AllAreHandled
<1> HIDE DEF Inv
<1> QED BY <1>3, <1>4, <1>5, UartTypeHolds, PTL DEF Spec
=============================================================================
