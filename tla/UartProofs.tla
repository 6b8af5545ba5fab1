----------------------------- MODULE UartProofs -----------------------------
(***************************************************************************)
(* Proofs about the RS232 link (module Uart), for every length of an       *)
(* instruction and every depth of the FIFO: what make_command returns is   *)
(* an instruction that was sent, and a link without loss is a channel of   *)
(* instructions.                                                           *)
(***************************************************************************)
EXTENDS Uart, SequenceTheorems, TLAPS

---------------------------------------------------------------------------
(* Multiples of the length of an instruction *)

LEMMA FrameLenPos == FrameLen \in Nat /\ FrameLen >= 1
BY UartAssumption

\* Where an instruction begins that n others precede.
Start(n) == n * FrameLen

LEMMA StartNat == \A n \in Nat : Start(n) \in Nat
BY FrameLenPos DEF Start

LEMMA StartZero == Start(0) = 0
BY FrameLenPos DEF Start

LEMMA StartNext == \A n \in Nat : Start(n + 1) = Start(n) + FrameLen
BY FrameLenPos DEF Start

LEMMA StartMonotone == \A m, n \in Nat : m <= n => Start(m) <= Start(n)
<1> SUFFICES ASSUME NEW m \in Nat, NEW n \in Nat, m <= n
             PROVE  m * FrameLen <= n * FrameLen
  BY DEF Start
<1>1. n - m \in Nat /\ n = m + (n - m)  OBVIOUS
<1>2. n * FrameLen = m * FrameLen + (n - m) * FrameLen
  BY <1>1, FrameLenPos
<1>3. m * FrameLen \in Nat /\ (n - m) * FrameLen \in Nat
  BY <1>1, FrameLenPos
<1> QED BY <1>2, <1>3

\* What division by the length of an instruction gives.
LEMMA Division ==
  \A a \in Nat : /\ a \div FrameLen \in Nat /\ a % FrameLen \in 0 .. FrameLen - 1
                 /\ a = Start(a \div FrameLen) + (a % FrameLen)
BY FrameLenPos, SMT DEF Start

LEMMA DivisionOfMultiple ==
  \A n \in Nat : Start(n) % FrameLen = 0 /\ Start(n) \div FrameLen = n
BY FrameLenPos, StartNat, SMT DEF Start

---------------------------------------------------------------------------
(* Instructions, and streams of them *)

LEMMA BytesOfFrame ==
  ASSUME NEW f
  PROVE  f \in Frames <=> /\ f \in Seq(Bytes) /\ Len(f) = FrameLen
                          /\ f[1] \in Letters
BY FrameLenPos, ElementOfSeq, LenProperties DEF Frames

\* The places of the instruction that k others precede, in a stream of n.
LEMMA PlacesOfCut ==
  ASSUME NEW n \in Nat, NEW k \in 0 .. n - 1
  PROVE  /\ Start(k) \in Nat /\ Start(k + 1) = Start(k) + FrameLen
         /\ Start(k + 1) <= Start(n) /\ Start(n) \in Nat
<1>1. k \in Nat /\ k + 1 \in Nat /\ k + 1 <= n  OBVIOUS
<1> QED BY <1>1, StartNat, StartNext, StartMonotone

\* A stream of n instructions: where each begins there is a letter.
Whole(s, n) ==
  /\ Len(s) = Start(n)
  /\ \A k \in 0 .. n - 1 : s[Start(k) + 1] \in Letters

CutsRight(s) ==
  /\ Len(s) % FrameLen = 0
  /\ \A k \in 1 .. Len(s) \div FrameLen : Cut(s, k) \in Frames

LEMMA CutProperties ==
  ASSUME NEW s \in Seq(Bytes), NEW n \in Nat, Len(s) = Start(n), NEW k \in 0 .. n - 1
  PROVE  /\ Cut(s, k + 1) \in Seq(Bytes) /\ Len(Cut(s, k + 1)) = FrameLen
         /\ \A i \in 1 .. FrameLen : Cut(s, k + 1)[i] = s[Start(k) + i]
<1> DEFINE a == Start(k)
           b == Start(k + 1)
<1>1. a \in Nat /\ b = a + FrameLen /\ b <= Len(s)
  BY PlacesOfCut
<1>2. Cut(s, k + 1) = SubSeq(s, a + 1, b)
  <2>1. (k + 1) - 1 = k  OBVIOUS
  <2> QED BY <2>1 DEF Cut, Start
<1> HIDE DEF a, b
<1>3. \A i \in a + 1 .. b : s[i] \in Bytes
  BY <1>1, ElementOfSeq, FrameLenPos
<1>4. /\ SubSeq(s, a + 1, b) \in Seq(Bytes) /\ Len(SubSeq(s, a + 1, b)) = FrameLen
      /\ \A i \in 1 .. FrameLen : SubSeq(s, a + 1, b)[i] = s[a + i]
  BY <1>1, <1>3, SubSeqProperties, FrameLenPos
<1> QED BY <1>2, <1>4 DEF a

LEMMA WholeCutsRight ==
  ASSUME NEW s \in Seq(Bytes), NEW n \in Nat, Whole(s, n)
  PROVE  CutsRight(s) /\ Len(s) \div FrameLen = n
<1>1. Len(s) = Start(n)  BY DEF Whole
<1>2. Len(s) % FrameLen = 0 /\ Len(s) \div FrameLen = n
  BY <1>1, DivisionOfMultiple
<1>3. ASSUME NEW k \in 1 .. n
      PROVE  Cut(s, k) \in Frames
  <2>1. k - 1 \in 0 .. n - 1 /\ (k - 1) + 1 = k  OBVIOUS
  <2>2. /\ Cut(s, k) \in Seq(Bytes) /\ Len(Cut(s, k)) = FrameLen
        /\ Cut(s, k)[1] = s[Start(k - 1) + 1]
    <3>1. /\ Cut(s, (k - 1) + 1) \in Seq(Bytes) /\ Len(Cut(s, (k - 1) + 1)) = FrameLen
          /\ \A i \in 1 .. FrameLen : Cut(s, (k - 1) + 1)[i] = s[Start(k - 1) + i]
      BY <1>1, <2>1, CutProperties
    <3>2. 1 \in 1 .. FrameLen  BY FrameLenPos
    <3> QED BY <3>1, <3>2, <2>1
  <2>3. s[Start(k - 1) + 1] \in Letters  BY <2>1 DEF Whole
  <2> QED BY <2>2, <2>3, BytesOfFrame
<1> QED BY <1>2, <1>3 DEF CutsRight

LEMMA CutsRightWhole ==
  ASSUME NEW s \in Seq(Bytes), CutsRight(s)
  PROVE  Whole(s, Len(s) \div FrameLen) /\ Len(s) \div FrameLen \in Nat
<1> DEFINE n == Len(s) \div FrameLen
<1>1. n \in Nat /\ Len(s) = Start(n)
  <2>1. Len(s) \in Nat /\ Len(s) % FrameLen = 0  BY DEF CutsRight
  <2>2. Len(s) = Start(n) + 0 /\ n \in Nat  BY <2>1, Division
  <2> QED BY <2>2, StartNat
<1>2. ASSUME NEW k \in 0 .. n - 1
      PROVE  s[Start(k) + 1] \in Letters
  <2>1. k + 1 \in 1 .. n  BY <1>1
  <2>2. Cut(s, k + 1) \in Frames  BY <2>1 DEF CutsRight
  <2>3. Cut(s, k + 1)[1] = s[Start(k) + 1]
    <3>1. 1 \in 1 .. FrameLen  BY FrameLenPos
    <3> HIDE DEF n
    <3> QED BY <1>1, <3>1, CutProperties
  <2> QED BY <2>2, <2>3, BytesOfFrame
<1> QED BY <1>1, <1>2 DEF Whole

\* s and t hold the same bytes where j, or k, instructions precede.
SameBytes(s, j, t, k) ==
  \A i \in 1 .. FrameLen : s[Start(j) + i] = t[Start(k) + i]

\* Streams that agree on an instruction's places agree on the instruction.
LEMMA SameCut ==
  ASSUME NEW s \in Seq(Bytes), NEW m \in Nat, Len(s) = Start(m), NEW j \in 0 .. m - 1,
         NEW t \in Seq(Bytes), NEW n \in Nat, Len(t) = Start(n), NEW k \in 0 .. n - 1,
         SameBytes(s, j, t, k)
  PROVE  Cut(s, j + 1) = Cut(t, k + 1)
<1>1. /\ Cut(s, j + 1) \in Seq(Bytes) /\ Len(Cut(s, j + 1)) = FrameLen
      /\ \A i \in 1 .. FrameLen : Cut(s, j + 1)[i] = s[Start(j) + i]
  BY CutProperties
<1>2. /\ Cut(t, k + 1) \in Seq(Bytes) /\ Len(Cut(t, k + 1)) = FrameLen
      /\ \A i \in 1 .. FrameLen : Cut(t, k + 1)[i] = t[Start(k) + i]
  BY CutProperties
<1> DEFINE u == Cut(s, j + 1)
           v == Cut(t, k + 1)
<1>3. \A i \in 1 .. FrameLen : u[i] = v[i]
  BY <1>1, <1>2 DEF SameBytes
<1> HIDE DEF u, v
<1>4. u = v  BY <1>1, <1>2, <1>3, SeqEqual DEF u, v
<1> QED BY <1>4 DEF u, v

\* u is s with t behind it, byte by byte.
Joined(u, s, t) ==
  /\ u \in Seq(Bytes) /\ Len(u) = Len(s) + Len(t)
  /\ \A i \in 1 .. Len(u) : u[i] = IF i <= Len(s) THEN s[i] ELSE t[i - Len(s)]

LEMMA ConcatJoins ==
  ASSUME NEW s \in Seq(Bytes), NEW t \in Seq(Bytes)
  PROVE  Joined(s \o t, s, t)
<1>1. s \o t \in Seq(Bytes) /\ Len(s \o t) = Len(s) + Len(t)  BY ConcatProperties
<1>2. \A i \in 1 .. Len(s) + Len(t) :
        (s \o t)[i] = IF i <= Len(s) THEN s[i] ELSE t[i - Len(s)]
  BY ConcatProperties
<1> QED BY <1>1, <1>2 DEF Joined

\* A stream with one more instruction behind it.
LEMMA WholeAppend ==
  ASSUME NEW s \in Seq(Bytes), NEW n \in Nat, Whole(s, n), NEW f \in Frames,
         NEW u, Joined(u, s, f)
  PROVE  /\ Whole(u, n + 1)
         /\ \A k \in 0 .. n - 1 : Cut(u, k + 1) = Cut(s, k + 1)
         /\ Cut(u, n + 1) = f
<1>1. /\ f \in Seq(Bytes) /\ Len(f) = FrameLen /\ f[1] \in Letters
  BY BytesOfFrame
<1>0. /\ u \in Seq(Bytes) /\ Len(u) = Len(s) + FrameLen
      /\ \A i \in 1 .. Len(u) : u[i] = IF i <= Len(s) THEN s[i] ELSE f[i - Len(s)]
  BY <1>1 DEF Joined
<1>2. Len(s) = Start(n) /\ Start(n) \in Nat /\ Start(n + 1) = Start(n) + FrameLen
  BY StartNat, StartNext DEF Whole
<1>3. Len(u) = Start(n + 1)  BY <1>0, <1>2
<1>4. ASSUME NEW k \in 0 .. n - 1, NEW i \in 1 .. FrameLen
      PROVE  u[Start(k) + i] = s[Start(k) + i]
  <2>1. Start(k) \in Nat /\ Start(k) + FrameLen <= Len(s)
    BY <1>2, PlacesOfCut
  <2>2. Start(k) + i \in 1 .. Len(u) /\ Start(k) + i <= Len(s)
    BY <2>1, <1>2, <1>3, FrameLenPos
  <2> QED BY <2>2, <1>0
<1>5. ASSUME NEW i \in 1 .. FrameLen
      PROVE  u[Start(n) + i] = f[i]
  <2> DEFINE j == Start(n) + i
  <2>1. j \in 1 .. Len(u) /\ ~(j <= Len(s)) /\ j - Len(s) = i
    BY <1>2, <1>3, FrameLenPos
  <2> HIDE DEF j
  <2>2. u[j] = f[j - Len(s)]  BY <2>1, <1>0
  <2>3. u[j] = f[i]  BY <2>1, <2>2
  <2> QED BY <2>3 DEF j
<1>6. 1 \in 1 .. FrameLen  BY FrameLenPos
<1>7. Whole(u, n + 1)
  <2>1. ASSUME NEW k \in 0 .. (n + 1) - 1
        PROVE  u[Start(k) + 1] \in Letters
    <3>1. CASE k = n  BY <3>1, <1>5, <1>6, <1>1
    <3>2. CASE k # n
      <4>1. k \in 0 .. n - 1  BY <3>2
      <4> QED BY <4>1, <1>4, <1>6 DEF Whole
    <3> QED BY <3>1, <3>2
  <2> QED BY <2>1, <1>3 DEF Whole
<1>8. ASSUME NEW k \in 0 .. n - 1
      PROVE  Cut(u, k + 1) = Cut(s, k + 1)
  <2>1. k \in 0 .. (n + 1) - 1 /\ n + 1 \in Nat  OBVIOUS
  <2>2. SameBytes(u, k, s, k)  BY <1>4 DEF SameBytes
  <2> QED BY <2>1, <2>2, <1>0, <1>2, <1>3, SameCut
<1>9. Cut(u, n + 1) = f
  <2>1. n \in 0 .. (n + 1) - 1 /\ n + 1 \in Nat  OBVIOUS
  <2>2. /\ Cut(u, n + 1) \in Seq(Bytes) /\ Len(Cut(u, n + 1)) = FrameLen
        /\ \A i \in 1 .. FrameLen : Cut(u, n + 1)[i] = u[Start(n) + i]
    BY <1>0, <2>1, <1>3, CutProperties
  <2> DEFINE v == Cut(u, n + 1)
  <2>3. \A i \in 1 .. FrameLen : v[i] = f[i]  BY <2>2, <1>5
  <2> HIDE DEF v
  <2>4. v = f  BY <2>2, <2>3, <1>1, SeqEqual DEF v
  <2> QED BY <2>4 DEF v
<1> QED BY <1>7, <1>8, <1>9

\* A stream without its first instruction.
LEMMA WholeFirst ==
  ASSUME NEW b \in Seq(Bytes), Len(b) = FrameLen, NEW r \in Seq(Bytes),
         NEW u, Joined(u, b, r),
         NEW n \in Nat, Whole(u, n)
  PROVE  /\ n >= 1 /\ b \in Frames /\ Whole(r, n - 1)
         /\ Cut(u, 1) = b
         /\ \A k \in 0 .. n - 2 : Cut(u, k + 2) = Cut(r, k + 1)
<1>0. /\ u \in Seq(Bytes) /\ Len(u) = FrameLen + Len(r)
      /\ \A i \in 1 .. Len(u) : u[i] = IF i <= FrameLen THEN b[i] ELSE r[i - FrameLen]
  BY DEF Joined
<1>1. Len(u) = Start(n) /\ Start(n) \in Nat  BY StartNat DEF Whole
<1>2. n >= 1
  <2>1. Len(r) \in Nat  OBVIOUS
  <2> QED BY <2>1, <1>0, <1>1, StartZero, FrameLenPos
<1>3. n - 1 \in Nat /\ (n - 1) + 1 = n  BY <1>2
<1>4. Len(r) = Start(n - 1)
  <2>1. Start(n) = Start(n - 1) + FrameLen /\ Start(n - 1) \in Nat
    BY <1>3, StartNext, StartNat
  <2>2. Len(r) \in Nat  OBVIOUS
  <2> QED BY <2>1, <2>2, <1>0, <1>1, FrameLenPos
<1>5. 1 \in 1 .. FrameLen /\ 0 \in 0 .. n - 1  BY <1>2, FrameLenPos
<1>6. ASSUME NEW i \in 1 .. FrameLen
      PROVE  u[Start(0) + i] = b[i]
  <2>1. Start(0) + i = i /\ i \in 1 .. Len(u)  BY <1>0, StartZero, FrameLenPos
  <2> QED BY <2>1, <1>0
<1>7. ASSUME NEW k \in 0 .. n - 2, NEW i \in 1 .. FrameLen
      PROVE  u[Start(k + 1) + i] = r[Start(k) + i]
  <2>1. k \in Nat /\ k + 1 \in 0 .. n - 1  OBVIOUS
  <2>2. Start(k) \in Nat /\ Start(k + 1) = Start(k) + FrameLen
    BY <2>1, StartNat, StartNext
  <2>3. Start(k + 1) + FrameLen <= Len(u)
    BY <2>1, <1>1, PlacesOfCut
  <2> DEFINE j == Start(k + 1) + i
           h == Start(k) + i
  <2>4. j \in 1 .. Len(u) /\ ~(j <= FrameLen) /\ j - FrameLen = h
    BY <2>2, <2>3, FrameLenPos
  <2> HIDE DEF j, h
  <2>5. u[j] = r[j - FrameLen]  BY <2>4, <1>0
  <2>6. u[j] = r[h]  BY <2>4, <2>5
  <2> QED BY <2>6 DEF j, h
<1>8. b \in Frames
  <2>1. u[Start(0) + 1] \in Letters  BY <1>5 DEF Whole
  <2>2. u[Start(0) + 1] = b[1]  BY <1>5, <1>6
  <2> QED BY <2>1, <2>2, BytesOfFrame
<1>9. Whole(r, n - 1)
  <2>1. ASSUME NEW k \in 0 .. (n - 1) - 1
        PROVE  r[Start(k) + 1] \in Letters
    <3>1. k \in 0 .. n - 2 /\ k + 1 \in 0 .. n - 1  OBVIOUS
    <3>2. u[Start(k + 1) + 1] \in Letters  BY <3>1 DEF Whole
    <3> QED BY <3>1, <3>2, <1>5, <1>7
  <2> QED BY <2>1, <1>4 DEF Whole
<1>10. Cut(u, 1) = b
  <2>1. /\ Cut(u, 0 + 1) \in Seq(Bytes) /\ Len(Cut(u, 0 + 1)) = FrameLen
        /\ \A i \in 1 .. FrameLen : Cut(u, 0 + 1)[i] = u[Start(0) + i]
    BY <1>0, <1>1, <1>5, CutProperties
  <2>0. 0 + 1 = 1  OBVIOUS
  <2> DEFINE v == Cut(u, 1)
  <2>2. v \in Seq(Bytes) /\ Len(v) = FrameLen /\ \A i \in 1 .. FrameLen : v[i] = b[i]
    BY <2>0, <2>1, <1>6
  <2> HIDE DEF v
  <2>3. v = b  BY <2>2, SeqEqual
  <2> QED BY <2>3 DEF v
<1>11. ASSUME NEW k \in 0 .. n - 2
       PROVE  Cut(u, k + 2) = Cut(r, k + 1)
  <2>1. k + 1 \in 0 .. n - 1 /\ k \in 0 .. (n - 1) - 1 /\ k + 2 = (k + 1) + 1  OBVIOUS
  <2>2. \A i \in 1 .. FrameLen : u[Start(k + 1) + i] = r[Start(k) + i]  BY <1>7
  <2> DEFINE j == k + 1
           m == n - 1
  <2>3. j \in 0 .. n - 1 /\ m \in Nat /\ k \in 0 .. m - 1
    BY <2>1, <1>3
  <2>4. u \in Seq(Bytes) /\ Len(u) = Start(n) /\ Len(r) = Start(m)
    BY <1>0, <1>1, <1>4
  <2>5. SameBytes(u, j, r, k)  BY <2>2 DEF SameBytes
  <2> HIDE DEF j, m
  <2>6. Cut(u, j + 1) = Cut(r, k + 1)
    BY <2>3, <2>4, <2>5, SameCut
  <2> QED BY <2>1, <2>6 DEF j
<1> QED BY <1>2, <1>8, <1>9, <1>10, <1>11

---------------------------------------------------------------------------
(* What the steps do to the stream *)

LEMMA StreamType ==
  ASSUME NEW b \in Seq(Bytes), NEW f \in Seq(Bytes), NEW w \in Seq(Bytes)
  PROVE  /\ b \o f \o w \in Seq(Bytes) /\ Len(b \o f \o w) = Len(b) + Len(f) + Len(w)
         /\ b \o f \o w = b \o (f \o w)
<1>1. b \o f \in Seq(Bytes) /\ Len(b \o f) = Len(b) + Len(f)
  BY ConcatProperties
<1>2. (b \o f) \o w \in Seq(Bytes) /\ Len((b \o f) \o w) = Len(b \o f) + Len(w)
  BY <1>1, ConcatProperties
<1> QED BY <1>1, <1>2, ConcatAssociative

\* A byte that moves from one buffer to the next leaves the stream as it is.
LEMMA HeadBeforeTail ==
  ASSUME NEW t \in Seq(Bytes), t # << >>
  PROVE  /\ Head(t) \in Bytes /\ Tail(t) \in Seq(Bytes) /\ <<Head(t)>> \in Seq(Bytes)
         /\ <<Head(t)>> \o Tail(t) = t
<1>1. Head(t) \in Bytes /\ Tail(t) \in Seq(Bytes) /\ Head(t) = t[1]
  BY HeadTailProperties
<1> DEFINE h == <<Head(t)>>
           r == Tail(t)
           u == h \o r
<1>2. h \in Seq(Bytes) /\ Len(h) = 1 /\ h[1] = t[1]  BY <1>1
<1>3. r \in Seq(Bytes) /\ Len(r) = Len(t) - 1 /\ \A i \in 1 .. Len(r) : r[i] = t[i + 1]
  BY HeadTailProperties
<1> HIDE DEF h, r
<1>8. Joined(u, h, r)  BY <1>2, <1>3, ConcatJoins
<1> HIDE DEF u
<1>4. /\ u \in Seq(Bytes) /\ Len(u) = Len(h) + Len(r)
      /\ \A i \in 1 .. Len(u) : u[i] = IF i <= Len(h) THEN h[i] ELSE r[i - Len(h)]
  BY <1>8 DEF Joined
<1>5. ASSUME NEW i \in 1 .. Len(t)
      PROVE  u[i] = t[i]
  <2>1. i \in 1 .. Len(u)  BY <1>2, <1>3, <1>4
  <2>2. CASE i <= 1
    <3>1. i = 1  BY <2>2
    <3>2. u[1] = h[1]  BY <3>1, <2>1, <1>2, <1>4
    <3> QED BY <3>1, <3>2, <1>2
  <2>3. CASE ~(i <= 1)
    <3>1. i - 1 \in 1 .. Len(r) /\ (i - 1) + 1 = i  BY <2>3, <1>3
    <3>2. u[i] = r[i - 1]  BY <2>1, <2>3, <1>2, <1>4
    <3>3. r[i - 1] = t[i]  BY <3>1, <1>3
    <3> QED BY <3>2, <3>3
  <2> QED BY <2>2, <2>3
<1>6. Len(u) = Len(t)  BY <1>2, <1>3, <1>4
<1>7. t = u  BY <1>4, <1>5, <1>6, SeqEqual
<1> QED BY <1>1, <1>2, <1>7 DEF u, h, r

LEMMA MoveByte ==
  ASSUME NEW s \in Seq(Bytes), NEW t \in Seq(Bytes), t # << >>
  PROVE  Append(s, Head(t)) \o Tail(t) = s \o t
<1>1. /\ Head(t) \in Bytes /\ Tail(t) \in Seq(Bytes) /\ <<Head(t)>> \in Seq(Bytes)
      /\ <<Head(t)>> \o Tail(t) = t
  BY HeadBeforeTail
<1>2. Append(s, Head(t)) = s \o <<Head(t)>>
  BY <1>1, AppendIsConcat
<1>3. (s \o <<Head(t)>>) \o Tail(t) = s \o (<<Head(t)>> \o Tail(t))
  BY <1>1, ConcatAssociative
<1> QED BY <1>1, <1>2, <1>3

---------------------------------------------------------------------------
(* The invariant *)

Pending(s) == [k \in 1 .. Len(s) \div FrameLen |-> Cut(s, k)]

LEMMA StreamOfType ==
  ASSUME TypeOK
  PROVE  Stream \in Seq(Bytes)
BY StreamType DEF TypeOK, Stream

\* A stream that cuts right and gets an instruction behind it.
LEMMA AppendedStream ==
  ASSUME NEW s \in Seq(Bytes), CutsRight(s), NEW f \in Frames
  PROVE  /\ CutsRight(s \o f)
         /\ Pending(s \o f) = Append(Pending(s), f)
<1> DEFINE n == Len(s) \div FrameLen
           u == s \o f
<1>1. n \in Nat /\ Whole(s, n)  BY CutsRightWhole
<1>2. Joined(u, s, f)  BY BytesOfFrame, ConcatJoins
<1> HIDE DEF n, u
<1>3. u \in Seq(Bytes)  BY <1>2 DEF Joined
<1>4. /\ Whole(u, n + 1)
      /\ \A k \in 0 .. n - 1 : Cut(u, k + 1) = Cut(s, k + 1)
      /\ Cut(u, n + 1) = f
  BY <1>1, <1>2, WholeAppend
<1>5. CutsRight(u) /\ Len(u) \div FrameLen = n + 1
  BY <1>1, <1>3, <1>4, WholeCutsRight
<1>6. Pending(u) = [k \in 1 .. n + 1 |-> Cut(u, k)]  BY <1>5 DEF Pending
<1>7. Pending(s) = [k \in 1 .. n |-> Cut(s, k)]  BY DEF Pending, n
<1>8. \A k \in 1 .. n : Cut(u, k) = Cut(s, k)
  <2> SUFFICES ASSUME NEW k \in 1 .. n PROVE Cut(u, k) = Cut(s, k)  OBVIOUS
  <2>1. k - 1 \in 0 .. n - 1 /\ (k - 1) + 1 = k  BY <1>1
  <2>2. Cut(u, (k - 1) + 1) = Cut(s, (k - 1) + 1)  BY <2>1, <1>4
  <2> QED BY <2>1, <2>2
<1>9. Append([k \in 1 .. n |-> Cut(s, k)], f) = [k \in 1 .. n + 1 |-> Cut(u, k)]
  <2> DEFINE p == [k \in 1 .. n |-> Cut(s, k)]
             q == [k \in 1 .. n + 1 |-> Cut(u, k)]
             C == {Cut(s, k) : k \in 1 .. n} \cup {f}
  <2>1. p \in Seq(C) /\ Len(p) = n /\ \A k \in 1 .. n : p[k] = Cut(s, k)
    BY <1>1
  <2>2. f \in C  OBVIOUS
  <2>3. \A k \in 1 .. n + 1 : Cut(u, k) \in C
    BY <1>1, <1>4, <1>8
  <2>4. q \in Seq(C) /\ Len(q) = n + 1 /\ \A k \in 1 .. n + 1 : q[k] = Cut(u, k)
    BY <1>1, <2>3
  <2> HIDE DEF p, q, C
  <2> DEFINE a == Append(p, f)
  <2>5. /\ a \in Seq(C) /\ Len(a) = n + 1
        /\ \A k \in 1 .. n : a[k] = p[k]
    BY <2>1, <2>2, AppendProperties
  <2>6. a[n + 1] = f  BY <2>1, <2>2, AppendProperties
  <2> HIDE DEF a
  <2>7. \A k \in 1 .. n + 1 : a[k] = q[k]
    <3> SUFFICES ASSUME NEW k \in 1 .. n + 1 PROVE a[k] = q[k]  OBVIOUS
    <3>1. CASE k = n + 1  BY <3>1, <2>4, <2>6, <1>4
    <3>2. CASE k # n + 1
      <4>1. k \in 1 .. n  BY <3>2, <1>1
      <4> QED BY <4>1, <2>1, <2>4, <2>5, <1>8
    <3> QED BY <3>1, <3>2
  <2>8. a = q  BY <2>4, <2>5, <2>7, SeqEqual
  <2> QED BY <2>8 DEF a, p, q
<1> QED BY <1>5, <1>6, <1>7, <1>9 DEF u

\* A stream that cuts right and loses its first instruction.
LEMMA TakenStream ==
  ASSUME NEW b \in Seq(Bytes), Len(b) = FrameLen, NEW r \in Seq(Bytes), CutsRight(b \o r)
  PROVE  /\ b \in Frames /\ CutsRight(r)
         /\ Pending(b \o r) # << >>
         /\ Head(Pending(b \o r)) = b /\ Tail(Pending(b \o r)) = Pending(r)
<1> DEFINE u == b \o r
           n == Len(u) \div FrameLen
<1>1. Joined(u, b, r)  BY ConcatJoins
<1> HIDE DEF u
<1>2. u \in Seq(Bytes)  BY <1>1 DEF Joined
<1>3. n \in Nat /\ Whole(u, n)  BY <1>2, CutsRightWhole DEF u
<1> HIDE DEF n
<1>4. /\ n >= 1 /\ b \in Frames /\ Whole(r, n - 1)
      /\ Cut(u, 1) = b
      /\ \A k \in 0 .. n - 2 : Cut(u, k + 2) = Cut(r, k + 1)
  BY <1>1, <1>3, WholeFirst
<1>5. n - 1 \in Nat  BY <1>3, <1>4
<1>6. CutsRight(r) /\ Len(r) \div FrameLen = n - 1
  BY <1>4, <1>5, WholeCutsRight
<1>7. Pending(u) = [k \in 1 .. n |-> Cut(u, k)]  BY DEF Pending, n
<1>8. Pending(r) = [k \in 1 .. n - 1 |-> Cut(r, k)]  BY <1>6 DEF Pending
<1> DEFINE C == {Cut(u, k) : k \in 1 .. n}
           p == Pending(u)
           q == Pending(r)
<1>9. p \in Seq(C) /\ Len(p) = n /\ \A k \in 1 .. n : p[k] = Cut(u, k)
  BY <1>3, <1>7
<1>10. \A k \in 1 .. n - 1 : k + 1 \in 1 .. n /\ Cut(r, k) = Cut(u, k + 1)
  <2> SUFFICES ASSUME NEW k \in 1 .. n - 1
               PROVE  k + 1 \in 1 .. n /\ Cut(r, k) = Cut(u, k + 1)
    OBVIOUS
  <2>1. k - 1 \in 0 .. n - 2 /\ (k - 1) + 1 = k /\ (k - 1) + 2 = k + 1 /\ k + 1 \in 1 .. n
    BY <1>3
  <2>2. Cut(u, (k - 1) + 2) = Cut(r, (k - 1) + 1)  BY <2>1, <1>4
  <2> QED BY <2>1, <2>2
<1>11. \A k \in 1 .. n - 1 : Cut(r, k) \in C  BY <1>10
<1>12. q \in Seq(C) /\ Len(q) = n - 1 /\ \A k \in 1 .. n - 1 : q[k] = Cut(r, k)
  BY <1>5, <1>8, <1>11
<1> HIDE DEF C, p, q
<1>13. p # << >> /\ Head(p) = p[1]  BY <1>4, <1>9
<1>14. Head(p) = b
  <2>1. 1 \in 1 .. n  BY <1>3, <1>4
  <2> QED BY <2>1, <1>4, <1>9, <1>13
<1>15. Tail(p) = q
  <2> DEFINE s == Tail(p)
  <2>1. s \in Seq(C) /\ Len(s) = n - 1 /\ \A k \in 1 .. Len(s) : s[k] = p[k + 1]
    BY <1>9, <1>13, HeadTailProperties
  <2> HIDE DEF s
  <2>2. \A k \in 1 .. Len(s) : s[k] = q[k]
    BY <2>1, <1>9, <1>10, <1>12
  <2>3. s = q  BY <2>1, <2>2, <1>12, SeqEqual
  <2> QED BY <2>3 DEF s
<1> QED BY <1>4, <1>6, <1>13, <1>14, <1>15 DEF p, q, u

LEMMA EmptyStream == CutsRight(<< >>)
<1>1. Whole(<< >>, 0)  BY StartZero DEF Whole
<1>2. << >> \in Seq(Bytes) /\ 0 \in Nat  OBVIOUS
<1> QED BY <1>1, <1>2, WholeCutsRight

\* A stream that cuts right and is not empty starts with a letter.
LEMMA FirstLetter ==
  ASSUME NEW s \in Seq(Bytes), CutsRight(s), s # << >>
  PROVE  s[1] \in Letters
<1> DEFINE n == Len(s) \div FrameLen
<1>1. n \in Nat /\ Whole(s, n)  BY CutsRightWhole
<1> HIDE DEF n
<1>2. Len(s) \in Nat /\ Len(s) > 0  BY EmptySeq
<1>3. 0 \in 0 .. n - 1
  <2>1. CASE n = 0  BY <2>1, <1>1, <1>2, StartZero DEF Whole
  <2>2. CASE n # 0  BY <2>2, <1>1
  <2> QED BY <2>1, <2>2
<1>4. s[Start(0) + 1] \in Letters  BY <1>1, <1>3 DEF Whole
<1>5. Start(0) + 1 = 1  BY StartZero
<1> QED BY <1>4, <1>5

\* What make_command holds at each of its places, and that the sender never
\* outruns a link without loss.
Counting ==
  /\ pc # "read" => buf = << >>
  /\ buf # << >> => buf[1] \in Letters
  /\ ~noisy => ~damaged /\ ~dry /\ InFlight <= FifoDepth
  /\ ~noisy /\ pc = "read" => Len(buf) + Len(fifo) >= FrameLen

LinkInv == TypeOK /\ Counting /\ AlignedUnlessDamaged

LEMMA InitLink == Init => LinkInv
<1> SUFFICES ASSUME Init PROVE LinkInv  OBVIOUS
<1>1. TypeOK
  <2>1. << >> \in Seq(Bytes) /\ Len(<< >>) = 0  BY EmptySeq
  <2>2. Len(fifo) <= FifoDepth /\ Len(buf) <= FrameLen
    BY <2>1, FrameLenPos, UartAssumption DEF Init
  <2> QED BY <2>1, <2>2, Zenon DEF Init, TypeOK
<1>2. Counting
  <2>1. Len(wire) = 0 /\ Len(fifo) = 0  BY DEF Init
  <2> QED BY <2>1, UartAssumption DEF Init, Counting, InFlight
<1>3. Aligned
  <2>1. Stream = << >>  BY DEF Init, Stream
  <2> QED BY <2>1, EmptyStream DEF Aligned, CutsRight
<1> QED BY <1>1, <1>2, <1>3 DEF LinkInv, AlignedUnlessDamaged

LEMMA SendLink ==
  ASSUME LinkInv, NEW f \in Frames, Send(f)
  PROVE  LinkInv' /\ Stream' = Stream \o f
<1> USE DEF LinkInv
<1>1. f \in Seq(Bytes) /\ Len(f) = FrameLen  BY BytesOfFrame
<1>2. wire' \in Seq(Bytes) /\ Len(wire') = Len(wire) + FrameLen
  BY <1>1, ConcatProperties DEF Send, TypeOK
<1>3. TypeOK'  BY <1>2 DEF Send, TypeOK
<1>4. Counting'
  BY <1>2, FrameLenPos DEF Send, Counting, InFlight, TypeOK
<1>5. Stream' = Stream \o f
  <2> DEFINE s == buf \o fifo
  <2>1. s \in Seq(Bytes) /\ wire \in Seq(Bytes)
    BY ConcatProperties DEF TypeOK
  <2>2. Stream' = s \o (wire \o f) /\ Stream = s \o wire
    BY DEF Send, Stream
  <2> HIDE DEF s
  <2>3. s \o wire \o f = s \o (wire \o f)  BY <1>1, <2>1, StreamType
  <2> QED BY <2>2, <2>3
<1>6. AlignedUnlessDamaged'
  <2> SUFFICES ASSUME ~damaged PROVE CutsRight(Stream')
    BY DEF Send, AlignedUnlessDamaged, Aligned, CutsRight
  <2>1. CutsRight(Stream)  BY DEF AlignedUnlessDamaged, Aligned, CutsRight
  <2>2. CutsRight(Stream \o f)  BY <2>1, StreamOfType, AppendedStream
  <2> QED BY <2>2, <1>5
<1> QED BY <1>3, <1>4, <1>5, <1>6

\* A step that keeps the stream keeps its alignment.
LEMMA SameStream ==
  ASSUME LinkInv, ~damaged' => ~damaged /\ Stream' = Stream
  PROVE  AlignedUnlessDamaged'
BY DEF LinkInv, AlignedUnlessDamaged, Aligned

LEMMA ArriveLink ==
  ASSUME LinkInv, Arrive
  PROVE  LinkInv' /\ (~noisy => Stream' = Stream)
<1> USE DEF LinkInv
<1>1. Head(wire) \in Bytes /\ wire' \in Seq(Bytes) /\ Len(wire') = Len(wire) - 1
  BY HeadTailProperties DEF Arrive, TypeOK
<1>2. fifo' \in Seq(Bytes) /\ Len(fifo') <= FifoDepth
      /\ Len(fifo') >= Len(fifo) /\ Len(fifo') <= Len(fifo) + 1
  BY <1>1, AppendProperties, UartAssumption DEF Arrive, TypeOK
<1>3. TypeOK'  BY <1>1, <1>2 DEF Arrive, TypeOK
<1>4. ~noisy => Len(fifo) # FifoDepth
  <2>1. Len(wire) \in Nat /\ Len(wire) # 0  BY DEF Arrive, TypeOK
  <2> QED BY <2>1 DEF Counting, InFlight, TypeOK
<1>5. Counting'
  <2>1. InFlight' <= InFlight
    BY <1>1, <1>2 DEF InFlight, TypeOK
  <2>2. InFlight' \in Int /\ InFlight \in Int
    BY <1>1, <1>2 DEF InFlight, TypeOK
  <2>3. pc' = pc /\ buf' = buf /\ noisy' = noisy /\ dry' = dry
        /\ damaged' = (damaged \/ Len(fifo) = FifoDepth)
    BY DEF Arrive
  <2>4. Len(buf) + Len(fifo) >= FrameLen => Len(buf) + Len(fifo') >= FrameLen
    BY <1>2, FrameLenPos DEF TypeOK
  <2>5. ~noisy => ~damaged' /\ ~dry'
    BY <2>3, <1>4 DEF Counting
  <2>6. ~noisy => InFlight' <= FifoDepth
    BY <2>1, <2>2, UartAssumption DEF Counting
  <2> QED BY <2>3, <2>4, <2>5, <2>6 DEF Counting
<1>6. Len(fifo) # FifoDepth => Stream' = Stream
  <2> SUFFICES ASSUME Len(fifo) # FifoDepth PROVE Stream' = Stream  OBVIOUS
  <2>1. buf \in Seq(Bytes) /\ fifo \in Seq(Bytes) /\ wire \in Seq(Bytes) /\ wire # << >>
    BY DEF Arrive, TypeOK
  <2>2. fifo' = Append(fifo, Head(wire)) /\ wire' = Tail(wire) /\ buf' = buf
    BY UartAssumption DEF Arrive, TypeOK
  <2>3. fifo' \o wire' = fifo \o wire  BY <2>1, <2>2, MoveByte
  <2>4. Stream' = buf \o (fifo' \o wire')
    <3> DEFINE f == fifo'
               w == wire'
    <3>1. Stream' = buf \o f \o w  BY <2>2 DEF Stream
    <3>2. f \in Seq(Bytes) /\ w \in Seq(Bytes)  BY <1>1, <1>2
    <3> HIDE DEF f, w
    <3>3. buf \o f \o w = buf \o (f \o w)  BY <2>1, <3>2, StreamType
    <3> QED BY <3>1, <3>3 DEF f, w
  <2>5. Stream = buf \o (fifo \o wire)  BY <2>1, StreamType DEF Stream
  <2> QED BY <2>3, <2>4, <2>5
<1>7. AlignedUnlessDamaged'  BY <1>6, SameStream DEF Arrive
<1> QED BY <1>3, <1>4, <1>5, <1>6, <1>7

LEMMA LoseLink ==
  ASSUME LinkInv, LoseByte
  PROVE  LinkInv'
<1> USE DEF LinkInv
<1>1. wire' \in Seq(Bytes)
  BY HeadTailProperties DEF LoseByte, TypeOK
<1>2. TypeOK'  BY <1>1 DEF LoseByte, TypeOK
<1>3. Counting'  BY DEF LoseByte, Counting
<1>4. AlignedUnlessDamaged'  BY DEF LoseByte, AlignedUnlessDamaged
<1> QED BY <1>2, <1>3, <1>4

LEMMA CallLink ==
  ASSUME LinkInv, Call
  PROVE  LinkInv' /\ Stream' = Stream
<1> USE DEF LinkInv
<1>1. buf = << >>  BY DEF Call, Counting
<1>2. Stream' = Stream  BY <1>1 DEF Call, Stream
<1>3. TypeOK'  BY <1>1 DEF Call, TypeOK
<1>4. Counting'  BY <1>1 DEF Call, Counting, InFlight
<1>5. AlignedUnlessDamaged'  BY <1>2, SameStream DEF Call
<1> QED BY <1>2, <1>3, <1>4, <1>5

LEMMA WaitLink ==
  ASSUME LinkInv, WaitDone
  PROVE  LinkInv' /\ Stream' = Stream
<1> USE DEF LinkInv
<1>1. Stream' = Stream  BY DEF WaitDone, Stream
<1>2. TypeOK'  BY DEF WaitDone, TypeOK
<1>3. Counting'
  <2>1. buf = << >> /\ Len(buf) = 0 /\ Len(fifo) >= FrameLen
    BY DEF WaitDone, Counting, Enough
  <2>2. Len(buf) + Len(fifo) >= FrameLen
    BY <2>1, FrameLenPos DEF TypeOK
  <2> QED BY <2>1, <2>2 DEF WaitDone, Counting, InFlight
<1>4. AlignedUnlessDamaged'  BY <1>1, SameStream DEF WaitDone
<1> QED BY <1>1, <1>2, <1>3, <1>4

\* A byte read from a link that was not damaged is kept: if it is the first, it
\* is the letter of an instruction.
LEMMA ReadKeeps ==
  ASSUME LinkInv, NEW b \in Bytes, ReadByte(b), ~damaged, fifo # << >>
  PROVE  Kept(b) /\ Stream' = Stream
<1> USE DEF LinkInv
<1>1. b = Head(fifo) /\ fifo' = Tail(fifo) /\ wire' = wire
  BY DEF ReadByte, ReadData
<1>2. buf \in Seq(Bytes) /\ fifo \in Seq(Bytes) /\ wire \in Seq(Bytes)  BY DEF TypeOK
<1>3. CutsRight(Stream)  BY DEF AlignedUnlessDamaged, Aligned, CutsRight
<1>4. Kept(b)
  <2> SUFFICES ASSUME buf = << >> PROVE b \in Letters  BY DEF Kept
  <2>1. Stream = fifo \o wire
    <3>1. << >> \o fifo = fifo  BY <1>2, ConcatEmptySeq
    <3> QED BY <3>1 DEF Stream
  <2> DEFINE u == fifo \o wire
  <2>2. Joined(u, fifo, wire)  BY <1>2, ConcatJoins
  <2>3. Len(fifo) \in Nat /\ Len(fifo) > 0 /\ Len(wire) \in Nat  BY <1>2, EmptySeq
  <2>4. CutsRight(u)  BY <1>3, <2>1
  <2> HIDE DEF u
  <2>5. u \in Seq(Bytes) /\ Len(u) > 0 /\ 1 \in 1 .. Len(u) /\ u[1] = fifo[1]
    BY <2>2, <2>3 DEF Joined
  <2>6. u # << >>  BY <2>5, EmptySeq
  <2>7. u[1] \in Letters  BY <2>4, <2>5, <2>6, FirstLetter
  <2>8. Head(fifo) = fifo[1]  BY <1>2
  <2> QED BY <1>1, <2>5, <2>7, <2>8
<1>5. Stream' = Stream
  <2>1. buf' = Append(buf, Head(fifo))  BY <1>1, <1>4 DEF ReadByte
  <2>2. Append(buf, Head(fifo)) \o Tail(fifo) = buf \o fifo  BY <1>2, MoveByte
  <2> QED BY <1>1, <2>1, <2>2 DEF Stream
<1> QED BY <1>4, <1>5

LEMMA ReadLink ==
  ASSUME LinkInv, NEW b \in Bytes, ReadByte(b)
  PROVE  LinkInv' /\ (~noisy => Stream' = Stream)
<1> USE DEF LinkInv
<1>1. /\ pc = "read" /\ Len(buf) < FrameLen
      /\ pc' = pc /\ noisy' = noisy /\ wire' = wire /\ command' = command
      /\ buf' = IF Kept(b) THEN Append(buf, b) ELSE buf
      /\ fifo' = IF fifo = << >> THEN fifo ELSE Tail(fifo)
  BY DEF ReadByte, ReadData
<1>2. /\ dry' = (dry \/ fifo = << >>)
      /\ damaged' = (damaged \/ fifo = << >>)
  BY DEF ReadByte, ReadData
<1>3. buf \in Seq(Bytes) /\ fifo \in Seq(Bytes) /\ wire \in Seq(Bytes)
      /\ Len(buf) \in Nat /\ Len(fifo) \in Nat /\ Len(wire) \in Nat
  BY DEF TypeOK
<1>4. /\ Append(buf, b) \in Seq(Bytes) /\ Len(Append(buf, b)) = Len(buf) + 1
      /\ Append(buf, b)[1] = IF buf = << >> THEN b ELSE buf[1]
  <2>1. /\ Append(buf, b) \in Seq(Bytes) /\ Len(Append(buf, b)) = Len(buf) + 1
        /\ \A i \in 1 .. Len(buf) : Append(buf, b)[i] = buf[i]
        /\ Append(buf, b)[Len(buf) + 1] = b
    BY <1>3, AppendProperties
  <2>2. CASE buf = << >>
    <3>1. Len(buf) + 1 = 1  BY <2>2, EmptySeq
    <3>2. Append(buf, b)[1] = b  BY <2>1, <3>1
    <3> QED BY <2>1, <2>2, <3>2
  <2>3. CASE buf # << >>
    <3>1. 1 \in 1 .. Len(buf)  BY <2>3, <1>3, EmptySeq
    <3>2. Append(buf, b)[1] = buf[1]  BY <2>1, <3>1
    <3> QED BY <2>1, <2>3, <3>2
  <2> QED BY <2>2, <2>3
<1>5. fifo # << >> => Tail(fifo) \in Seq(Bytes) /\ Len(Tail(fifo)) = Len(fifo) - 1
  BY <1>3, HeadTailProperties
<1>6. /\ fifo' \in Seq(Bytes) /\ Len(fifo') <= Len(fifo)
      /\ fifo # << >> => Len(fifo') = Len(fifo) - 1
  BY <1>1, <1>3, <1>5
<1>7. TypeOK'
  <2>1. /\ buf' \in Seq(Bytes) /\ Len(buf') <= FrameLen
    BY <1>1, <1>3, <1>4, FrameLenPos
  <2>2. Len(fifo') <= FifoDepth  BY <1>3, <1>6, UartAssumption DEF TypeOK
  <2>3. dry' \in BOOLEAN /\ damaged' \in BOOLEAN  BY <1>2
  <2> QED BY <1>1, <1>6, <2>1, <2>2, <2>3 DEF TypeOK
<1>8. ~noisy => fifo # << >> /\ ~damaged
  <2> SUFFICES ASSUME ~noisy PROVE fifo # << >> /\ ~damaged  OBVIOUS
  <2>1. Len(buf) + Len(fifo) >= FrameLen  BY <1>1 DEF Counting
  <2>2. Len(fifo) > 0  BY <2>1, <1>1, <1>3, FrameLenPos
  <2> QED BY <2>2, EmptySeq DEF Counting
<1>9. ~damaged /\ fifo # << >> => Kept(b) /\ Stream' = Stream
  BY ReadKeeps
<1>10. Counting'
  <2>1. buf' # << >> => buf'[1] \in Letters
    <3>1. CASE Kept(b)
      <4>1. buf'[1] = IF buf = << >> THEN b ELSE buf[1]  BY <3>1, <1>1, <1>4
      <4> QED BY <4>1, <3>1 DEF Kept, Counting
    <3>2. CASE ~Kept(b)  BY <3>2, <1>1 DEF Counting
    <3> QED BY <3>1, <3>2
  <2>2. ~noisy => ~damaged' /\ ~dry'  BY <1>2, <1>8 DEF Counting
  <2>3. ~noisy => InFlight' <= FifoDepth
    <3>1. ~noisy => Len(wire) + Len(fifo) <= FifoDepth  BY DEF Counting, InFlight
    <3>2. ~noisy => Len(wire) + Len(fifo') <= FifoDepth
      BY <3>1, <1>3, <1>6, UartAssumption
    <3> QED BY <3>2, <1>1 DEF InFlight
  <2>4. ~noisy => Len(buf') + Len(fifo') >= FrameLen
    <3> SUFFICES ASSUME ~noisy PROVE Len(buf') + Len(fifo') >= FrameLen  OBVIOUS
    <3>1. Len(buf) + Len(fifo) >= FrameLen  BY <1>1 DEF Counting
    <3>2. Len(buf') = Len(buf) + 1 /\ Len(fifo') = Len(fifo) - 1
      BY <1>1, <1>4, <1>6, <1>8, <1>9
    <3> QED BY <3>1, <3>2, <1>3, FrameLenPos
  <2> QED BY <1>1, <2>1, <2>2, <2>3, <2>4 DEF Counting
<1>11. AlignedUnlessDamaged'
  <2>1. ~damaged' => ~damaged /\ fifo # << >>  BY <1>2
  <2> QED BY <2>1, <1>9, SameStream
<1> QED BY <1>7, <1>8, <1>9, <1>10, <1>11

\* What a call of make_command returns is the first instruction of a stream
\* that was not damaged, and the rest still cuts right.
LEMMA ReturnTakes ==
  ASSUME LinkInv, Return, ~damaged
  PROVE  /\ buf \in Frames /\ CutsRight(Stream')
         /\ Pending(Stream) # << >>
         /\ Head(Pending(Stream)) = buf /\ Tail(Pending(Stream)) = Pending(Stream')
<1> USE DEF LinkInv
<1> DEFINE r == fifo \o wire
<1>1. buf \in Seq(Bytes) /\ fifo \in Seq(Bytes) /\ wire \in Seq(Bytes) /\ Len(buf) = FrameLen
  BY DEF Return, TypeOK
<1>2. Stream = buf \o r  BY <1>1, StreamType DEF Stream
<1>3. Stream' = r
  <2>1. << >> \o fifo = fifo  BY <1>1, ConcatEmptySeq
  <2> QED BY <2>1 DEF Return, Stream
<1>4. r \in Seq(Bytes)  BY <1>1, ConcatProperties
<1>5. CutsRight(Stream)  BY DEF AlignedUnlessDamaged, Aligned, CutsRight
<1> HIDE DEF r
<1>6. CutsRight(buf \o r)  BY <1>2, <1>5
<1>7. /\ buf \in Frames /\ CutsRight(r)
      /\ Pending(buf \o r) # << >>
      /\ Head(Pending(buf \o r)) = buf /\ Tail(Pending(buf \o r)) = Pending(r)
  BY <1>1, <1>4, <1>6, TakenStream
<1> QED BY <1>2, <1>3, <1>7

LEMMA ReturnLink ==
  ASSUME LinkInv, Return
  PROVE  LinkInv'
<1> USE DEF LinkInv
<1>1. /\ buf \in Seq(Bytes) /\ Len(buf) = FrameLen /\ buf # << >>
      /\ buf' = << >> /\ command' = buf /\ pc' = "idle"
      /\ noisy' = noisy /\ wire' = wire /\ fifo' = fifo /\ dry' = dry
  BY FrameLenPos, EmptySeq DEF Return, TypeOK
<1>2. damaged' = (damaged /\ InFlight > 0)  BY DEF Return
<1>3. buf \in Frames  BY <1>1, BytesOfFrame DEF Counting
<1>4. TypeOK'
  <2>1. Len(buf') <= FrameLen /\ buf' \in Seq(Bytes)  BY <1>1, FrameLenPos, EmptySeq
  <2>2. damaged' \in BOOLEAN  BY <1>2 DEF TypeOK
  <2> QED BY <1>1, <1>3, <2>1, <2>2 DEF TypeOK
<1>5. Counting'
  <2>1. InFlight' = InFlight  BY <1>1 DEF InFlight
  <2>2. ~damaged => ~damaged'  BY <1>2
  <2> QED BY <1>1, <2>1, <2>2 DEF Counting
<1>6. AlignedUnlessDamaged'
  <2> SUFFICES ASSUME ~damaged' PROVE CutsRight(Stream')
    BY DEF AlignedUnlessDamaged, Aligned, CutsRight
  <2>1. CASE ~damaged  BY <2>1, ReturnTakes
  <2>2. CASE damaged
    <3>1. ~(InFlight > 0)  BY <2>2, <1>2
    <3>2. Len(wire) \in Nat /\ Len(fifo) \in Nat /\ wire \in Seq(Bytes) /\ fifo \in Seq(Bytes)
      BY DEF TypeOK
    <3>3. Len(wire) = 0 /\ Len(fifo) = 0  BY <3>1, <3>2 DEF InFlight
    <3>4. wire = << >> /\ fifo = << >>  BY <3>2, <3>3, EmptySeq
    <3>5. Stream' = << >>  BY <1>1, <3>4 DEF Stream
    <3> QED BY <3>5, EmptyStream
  <2> QED BY <2>1, <2>2
<1> QED BY <1>4, <1>5, <1>6

LEMMA StutterLink ==
  ASSUME LinkInv, UNCHANGED vars
  PROVE  LinkInv'
BY DEF vars, LinkInv, TypeOK, Counting, InFlight, AlignedUnlessDamaged, Aligned, Stream

LEMMA NextLink == LinkInv /\ [Next]_vars => LinkInv'
<1> SUFFICES ASSUME LinkInv, [Next]_vars PROVE LinkInv'  OBVIOUS
<1>1. ASSUME NEW f \in Frames, Send(f) PROVE LinkInv'  BY <1>1, SendLink
<1>2. CASE Arrive  BY <1>2, ArriveLink
<1>3. CASE LoseByte  BY <1>3, LoseLink
<1>4. CASE Call  BY <1>4, CallLink
<1>5. CASE WaitDone  BY <1>5, WaitLink
<1>6. ASSUME NEW b \in Bytes, ReadByte(b) PROVE LinkInv'  BY <1>6, ReadLink
<1>7. CASE Return  BY <1>7, ReturnLink
<1>8. CASE UNCHANGED vars  BY <1>8, StutterLink
<1> QED BY <1>1, <1>2, <1>3, <1>4, <1>5, <1>6, <1>7, <1>8 DEF Next, Main

THEOREM LinkInvariant == Spec => []LinkInv
<1>1. Init => LinkInv  BY InitLink
<1>2. LinkInv /\ [Next]_vars => LinkInv'  BY NextLink
<1> QED BY <1>1, <1>2, PTL DEF Spec

\* What make_command returns begins with a command's letter, no byte is read
\* from an empty FIFO on a link without loss, and only a lost byte makes it cut
\* the stream at the wrong places (rs232.c:32-60).
THEOREM FramesHoldAlways == Spec => []FramesHold
<1>1. LinkInv => FramesHold
  BY DEF LinkInv, Counting, FramesHold, NeverDry
<1> QED BY <1>1, LinkInvariant, PTL

---------------------------------------------------------------------------
(* A link without loss is a channel of instructions *)

Waiting == IF noisy THEN << >> ELSE Pending(Stream)
Delivered == IF noisy THEN << >> ELSE command

LEMMA InitChannel == Init => Channel!Init
<1> SUFFICES ASSUME Init PROVE Channel!Init  OBVIOUS
<1>1. Stream = << >>  BY DEF Init, Stream
<1>2. 0 \div FrameLen = 0  BY DivisionOfMultiple, StartZero
<1>3. Len(Stream) \div FrameLen = 0  BY <1>1, <1>2
<1>4. [k \in 1 .. Len(Stream) \div FrameLen |-> Cut(Stream, k)] = << >>
  BY <1>3
<1> QED BY <1>4 DEF Init, Channel!Init, Channel!None

LEMMA NextChannel ==
  ASSUME LinkInv, [Next]_vars
  PROVE  [Channel!Next]_<<Waiting, Delivered>>
<1> USE DEF LinkInv
<1>1. noisy' = noisy
  BY DEF Next, Main, vars, Send, Arrive, LoseByte, Call, WaitDone, ReadByte, ReadData, Return
<1>2. CASE noisy
  BY <1>1, <1>2 DEF Waiting, Delivered
<1>3. CASE ~noisy
  <2>1. ~damaged  BY <1>3 DEF Counting
  <2>2. CutsRight(Stream)  BY <2>1 DEF AlignedUnlessDamaged, Aligned, CutsRight
  <2>3. Waiting = Pending(Stream) /\ Waiting' = Pending(Stream')
        /\ Delivered = command /\ Delivered' = command'
    BY <1>1, <1>3 DEF Waiting, Delivered, Pending
  <2>4. ASSUME NEW f \in Frames, Send(f)
        PROVE  Channel!Next
    <3>1. Pending(Stream') = Append(Pending(Stream), f) /\ command' = command
      BY <2>2, <2>4, SendLink, StreamOfType, AppendedStream DEF Send
    <3> QED BY <3>1, <2>3 DEF Channel!Next, Channel!Put, Waiting, Delivered, Pending
  <2>5. CASE Return
    <3>1. /\ Pending(Stream) # << >> /\ command' = Head(Pending(Stream))
          /\ Pending(Stream') = Tail(Pending(Stream))
      BY <2>1, <2>5, ReturnTakes DEF Return
    <3> QED BY <3>1, <2>3 DEF Channel!Next, Channel!Take, Waiting, Delivered, Pending
  <2>6. ASSUME Stream' = Stream, command' = command
        PROVE  UNCHANGED <<Waiting, Delivered>>
    BY <2>3, <2>6 DEF Pending
  <2>7. CASE Arrive  BY <2>6, <2>7, <1>3, ArriveLink DEF Arrive
  <2>8. CASE LoseByte  BY <2>8, <1>3 DEF LoseByte
  <2>9. CASE Call  BY <2>6, <2>9, CallLink DEF Call
  <2>10. CASE WaitDone  BY <2>6, <2>10, WaitLink DEF WaitDone
  <2>11. ASSUME NEW b \in Bytes, ReadByte(b)
         PROVE  UNCHANGED <<Waiting, Delivered>>
    BY <2>6, <2>11, <1>3, ReadLink DEF ReadByte, ReadData
  <2>12. CASE UNCHANGED vars  BY <2>6, <2>12 DEF vars, Stream
  <2> QED BY <2>4, <2>5, <2>7, <2>8, <2>9, <2>10, <2>11, <2>12 DEF Next, Main
<1> QED BY <1>2, <1>3

\* On a link without loss the instructions that were sent come out of
\* make_command whole, once and in order (rs232.c:22-60).
THEOREM LinkImplementsChannel == Spec => ImplementsChannel
<1>1. Init => Channel!Init  BY InitChannel
<1>2. LinkInv /\ [Next]_vars => [Channel!Next]_<<Waiting, Delivered>>
  BY NextChannel
<1> QED BY <1>1, <1>2, LinkInvariant, PTL
        DEF Spec, ImplementsChannel, Channel!Spec, Waiting, Delivered, Pending
=============================================================================
