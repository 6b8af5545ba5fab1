---------------------------- MODULE LinksProofs ----------------------------
(***************************************************************************)
(* The JTAG UART driver's rings, for every size of buffer and FIFO and     *)
(* every length of call: an inductive invariant of the handler and the     *)
(* program together, and the step of the two pipes each action is; then    *)
(* what the two links together keep (module Links), with UartProofs.       *)
(*                                                                         *)
(* The handler moves only one end of each ring and the program only the    *)
(* other; what the program has read of the handler's end is stale when it  *)
(* is used.  The invariant says how stale: the bytes a read has measured   *)
(* are still there, and the places a write has measured are still free.    *)
(***************************************************************************)
EXTENDS Links, UartProofs

Char == 0 .. Numbers - 1
Slots == 0 .. BufLen - 1

\* The number of bytes of a ring.
Used(to, from) == Up(to, BufLen - from)

---------------------------------------------------------------------------
(* Places of a ring *)

LEMMA UpIs ==
  ASSUME NEW i \in Slots, NEW k \in 0 .. BufLen
  PROVE  /\ i + k < BufLen => Up(i, k) = i + k
         /\ i + k >= BufLen => Up(i, k) = i + k - BufLen
         /\ Up(i, k) \in Slots
<1>1. BufLen \in Nat /\ BufLen > 1  BY JtagAssumption
<1>2. i + k < BufLen => Up(i, k) = i + k  BY <1>1 DEF Up, Slots
<1>3. i + k >= BufLen => Up(i, k) = i + k - BufLen  BY <1>1 DEF Up, Slots
<1> QED BY <1>1, <1>2, <1>3 DEF Slots

LEMMA UsedIs ==
  ASSUME NEW to \in Slots, NEW from \in Slots
  PROVE  /\ to >= from => Used(to, from) = to - from
         /\ to < from => Used(to, from) = to + BufLen - from
         /\ Used(to, from) \in Slots
<1>1. BufLen \in Nat /\ BufLen > 1  BY JtagAssumption
<1> DEFINE k == BufLen - from
<1>2. k \in 0 .. BufLen  BY <1>1 DEF Slots
<1>3. /\ to + k < BufLen => Up(to, k) = to + k
      /\ to + k >= BufLen => Up(to, k) = to + k - BufLen
      /\ Up(to, k) \in Slots
  <2> HIDE DEF k
  <2> QED BY <1>2, UpIs
<1> QED BY <1>1, <1>3 DEF Used, Slots

\* Two steps around a ring, less than once around, are one.
LEMMA UpUp ==
  ASSUME NEW i \in Slots, NEW j \in Nat, NEW k \in Nat, j + k < BufLen
  PROVE  /\ Up(i, j) \in Slots /\ Up(Up(i, j), k) = Up(i, j + k)
<1>1. BufLen \in Nat /\ BufLen > 1  BY JtagAssumption
<1>2. j \in 0 .. BufLen /\ k \in 0 .. BufLen /\ j + k \in 0 .. BufLen  BY <1>1
<1> DEFINE u == Up(i, j)
           v == j + k
<1>3. /\ i + j < BufLen => u = i + j
      /\ i + j >= BufLen => u = i + j - BufLen
      /\ u \in Slots
  BY <1>2, UpIs
<1>4. /\ u + k < BufLen => Up(u, k) = u + k
      /\ u + k >= BufLen => Up(u, k) = u + k - BufLen
  <2> HIDE DEF u
  <2> QED BY <1>2, <1>3, UpIs
<1>5. /\ i + v < BufLen => Up(i, v) = i + v
      /\ i + v >= BufLen => Up(i, v) = i + v - BufLen
  <2>1. v \in 0 .. BufLen  BY <1>2
  <2> HIDE DEF v
  <2> QED BY <2>1, UpIs
<1> QED BY <1>1, <1>2, <1>3, <1>4, <1>5 DEF Slots

LEMMA RingIs ==
  ASSUME NEW ring \in [Slots -> Char], NEW from \in Slots, NEW to \in Slots
  PROVE  /\ Ring(ring, from, to) \in Seq(Char)
         /\ Len(Ring(ring, from, to)) = Used(to, from)
         /\ \A i \in 1 .. Used(to, from) : Ring(ring, from, to)[i] = ring[Up(from, i - 1)]
<1> DEFINE m == Used(to, from)
<1>1. m \in Slots /\ BufLen \in Nat  BY UsedIs, JtagAssumption
<1>2. \A i \in 1 .. m : Up(from, i - 1) \in Slots
  <2> SUFFICES ASSUME NEW i \in 1 .. m PROVE Up(from, i - 1) \in Slots  OBVIOUS
  <2> DEFINE j == i - 1
  <2>1. j \in 0 .. BufLen  BY <1>1 DEF Slots
  <2>2. Up(from, j) \in Slots
    <3> HIDE DEF j
    <3> QED BY <2>1, UpIs
  <2> QED BY <2>2
<1>3. Ring(ring, from, to) = [i \in 1 .. m |-> ring[Up(from, i - 1)]]
  BY DEF Ring, Used
<1>4. m \in Nat  BY <1>1 DEF Slots
<1>5. \A i \in 1 .. m : ring[Up(from, i - 1)] \in Char  BY <1>2
<1> HIDE DEF m
<1>6. [i \in 1 .. m |-> ring[Up(from, i - 1)]] \in [1 .. m -> Char]  BY <1>5
<1>7. /\ Ring(ring, from, to) \in Seq(Char) /\ Len(Ring(ring, from, to)) = m
  BY <1>3, <1>4, <1>6
<1> QED BY <1>3, <1>7 DEF m

\* Past its bytes a ring ends.
LEMMA UpUsed ==
  ASSUME NEW to \in Slots, NEW from \in Slots
  PROVE  Up(from, Used(to, from)) = to
<1>1. BufLen \in Nat /\ BufLen > 1  BY JtagAssumption
<1> DEFINE m == Used(to, from)
<1>2. /\ to >= from => m = to - from
      /\ to < from => m = to + BufLen - from
      /\ m \in Slots
  BY UsedIs
<1>3. /\ from + m < BufLen => Up(from, m) = from + m
      /\ from + m >= BufLen => Up(from, m) = from + m - BufLen
  <2>1. m \in 0 .. BufLen  BY <1>1, <1>2 DEF Slots
  <2> HIDE DEF m
  <2> QED BY <2>1, UpIs
<1> HIDE DEF m
<1>4. Up(from, m) = to  BY <1>1, <1>2, <1>3 DEF Slots
<1> QED BY <1>4 DEF m

\* Free places that follow the end of a ring hold none of its bytes.
LEMMA FreePlaces ==
  ASSUME NEW to \in Slots, NEW from \in Slots, NEW k \in Nat,
         to + k <= BufLen, k + Used(to, from) < BufLen,
         NEW i \in 1 .. Used(to, from)
  PROVE  Up(from, i - 1) \in Slots /\ Up(from, i - 1) \notin to .. to + k - 1
<1>1. BufLen \in Nat /\ BufLen > 1  BY JtagAssumption
<1> DEFINE m == Used(to, from)
           j == i - 1
           u == Up(from, j)
<1>2. /\ to >= from => m = to - from
      /\ to < from => m = to + BufLen - from
      /\ m \in Slots
  BY UsedIs
<1>3. j \in 0 .. BufLen /\ j < m  BY <1>1, <1>2 DEF Slots
<1>4. /\ from + j < BufLen => u = from + j
      /\ from + j >= BufLen => u = from + j - BufLen
      /\ u \in Slots
  <2> HIDE DEF j, m
  <2> QED BY <1>3, UpIs
<1>5. k + m < BufLen  OBVIOUS
<1> HIDE DEF m, j, u
<1>6. u \in Slots /\ u \notin to .. to + k - 1
  BY <1>1, <1>2, <1>3, <1>4, <1>5 DEF Slots
<1> QED BY <1>6 DEF u, j

\* The two buffers differ at most in the k places from lo on.
SameElsewhere(ring, ring2, lo, k) ==
  \A p \in Slots : p \notin lo .. lo + k - 1 => ring2[p] = ring[p]

\* A ring after k places at its end have been filled.
LEMMA RingGrows ==
  ASSUME NEW ring \in [Slots -> Char], NEW ring2 \in [Slots -> Char],
         NEW from \in Slots, NEW to \in Slots, NEW k \in Nat \ {0},
         to + k <= BufLen, k + Used(to, from) < BufLen,
         SameElsewhere(ring, ring2, to, k)
  PROVE  /\ Up(to, k) \in Slots /\ Used(Up(to, k), from) = Used(to, from) + k
         /\ \A i \in 1 .. Used(to, from) :
              Ring(ring2, from, Up(to, k))[i] = Ring(ring, from, to)[i]
         /\ \A j \in 1 .. k :
              Ring(ring2, from, Up(to, k))[Used(to, from) + j] = ring2[to + j - 1]
<1>1. BufLen \in Nat /\ BufLen > 1  BY JtagAssumption
<1> DEFINE m == Used(to, from)
           t == Up(to, k)
           l == Used(t, from)
<1>2. /\ to >= from => m = to - from
      /\ to < from => m = to + BufLen - from
      /\ m \in Slots
  BY UsedIs
<1>3. /\ to + k < BufLen => t = to + k
      /\ to + k >= BufLen => t = to + k - BufLen
      /\ t \in Slots
  <2>1. k \in 0 .. BufLen  BY <1>1 DEF Slots
  <2> QED BY <2>1, UpIs
<1>4. /\ t >= from => l = t - from
      /\ t < from => l = t + BufLen - from
      /\ l \in Slots
  <2> HIDE DEF t
  <2> QED BY <1>3, UsedIs
<1>5. k + m < BufLen  OBVIOUS
<1>6. l = m + k
  <2> HIDE DEF m, t, l
  <2> QED BY <1>1, <1>2, <1>3, <1>4, <1>5 DEF Slots
<1>7. \A i \in 1 .. l : Ring(ring2, from, t)[i] = ring2[Up(from, i - 1)]
  <2> HIDE DEF t
  <2> QED BY <1>3, RingIs
<1>8. \A i \in 1 .. m : Ring(ring2, from, t)[i] = Ring(ring, from, to)[i]
  <2> SUFFICES ASSUME NEW i \in 1 .. m
               PROVE  Ring(ring2, from, t)[i] = Ring(ring, from, to)[i]
    OBVIOUS
  <2>1. Ring(ring, from, to)[i] = ring[Up(from, i - 1)]  BY RingIs
  <2>2. i \in 1 .. l  BY <1>2, <1>6 DEF Slots
  <2>3. Up(from, i - 1) \in Slots /\ Up(from, i - 1) \notin to .. to + k - 1
    BY FreePlaces
  <2> QED BY <1>7, <2>1, <2>2, <2>3 DEF SameElsewhere
<1>9. \A j \in 1 .. k : Ring(ring2, from, t)[m + j] = ring2[to + j - 1]
  <2> SUFFICES ASSUME NEW j \in 1 .. k PROVE Ring(ring2, from, t)[m + j] = ring2[to + j - 1]
    OBVIOUS
  <2> DEFINE i == m + j
             h == j - 1
  <2>1. /\ i \in 1 .. l /\ i - 1 = m + h /\ h \in Nat /\ h \in 0 .. BufLen
        /\ m \in Nat /\ m + h < BufLen /\ to + h < BufLen
    <3> HIDE DEF m, l
    <3> QED BY <1>1, <1>2, <1>5, <1>6 DEF Slots
  <2>2. Ring(ring2, from, t)[i] = ring2[Up(from, i - 1)]
    <3> HIDE DEF i, m, l, t
    <3> QED BY <1>7, <2>1
  <2>3. Up(Up(from, m), h) = Up(from, m + h)
    <3> HIDE DEF m, h
    <3> QED BY <2>1, UpUp
  <2>4. Up(from, m) = to  BY UpUsed
  <2>5. Up(to, h) = to + h
    <3> HIDE DEF h
    <3> QED BY <2>1, UpIs
  <2>6. to + h = to + j - 1  BY DEF Slots
  <2> HIDE DEF m, t, l
  <2> QED BY <2>1, <2>2, <2>3, <2>4, <2>5, <2>6
<1> QED BY <1>3, <1>6, <1>8, <1>9

\* A ring after its k oldest bytes have been taken.
LEMMA RingDrops ==
  ASSUME NEW ring \in [Slots -> Char], NEW from \in Slots, NEW to \in Slots,
         NEW k \in 1 .. Used(to, from)
  PROVE  /\ Up(from, k) \in Slots /\ Used(to, Up(from, k)) = Used(to, from) - k
         /\ \A i \in 1 .. Used(to, from) - k :
              Ring(ring, Up(from, k), to)[i] = Ring(ring, from, to)[i + k]
<1>1. BufLen \in Nat /\ BufLen > 1  BY JtagAssumption
<1> DEFINE m == Used(to, from)
           f == Up(from, k)
           l == Used(to, f)
<1>2. /\ to >= from => m = to - from
      /\ to < from => m = to + BufLen - from
      /\ m \in Slots
  BY UsedIs
<1>3. /\ from + k < BufLen => f = from + k
      /\ from + k >= BufLen => f = from + k - BufLen
      /\ f \in Slots
  <2>1. k \in 0 .. BufLen  BY <1>1, <1>2 DEF Slots
  <2> QED BY <2>1, UpIs
<1>4. /\ to >= f => l = to - f
      /\ to < f => l = to + BufLen - f
      /\ l \in Slots
  <2> HIDE DEF f
  <2> QED BY <1>3, UsedIs
<1>5. l = m - k /\ k \in 1 .. m
  <2>1. k \in 1 .. m  OBVIOUS
  <2> HIDE DEF m, f, l
  <2> QED BY <1>1, <1>2, <1>3, <1>4, <2>1 DEF Slots
<1>6. \A i \in 1 .. m - k : Ring(ring, f, to)[i] = Ring(ring, from, to)[i + k]
  <2> SUFFICES ASSUME NEW i \in 1 .. m - k
               PROVE  Ring(ring, f, to)[i] = Ring(ring, from, to)[i + k]
    OBVIOUS
  <2> DEFINE j == i - 1
             v == i + k
  <2>1. /\ i \in 1 .. l /\ j \in Nat /\ k \in Nat /\ k + j < BufLen /\ v \in 1 .. m
        /\ v - 1 = k + j
    <3> HIDE DEF m, l
    <3> QED BY <1>1, <1>2, <1>5 DEF Slots
  <2>2. Ring(ring, f, to)[i] = ring[Up(f, i - 1)]
    <3> HIDE DEF f
    <3> QED BY <2>1, <1>3, RingIs
  <2>3. Ring(ring, from, to)[v] = ring[Up(from, v - 1)]
    <3> HIDE DEF v
    <3> QED BY <2>1, RingIs
  <2>4. Up(f, j) = Up(from, k + j)
    <3> HIDE DEF j
    <3> QED BY <2>1, UpUp
  <2> HIDE DEF f
  <2> QED BY <2>1, <2>2, <2>3, <2>4
<1> QED BY <1>3, <1>5, <1>6

---------------------------------------------------------------------------
(* Bytes put at one end of a stream and taken at the other *)

\* t is s with bytes added at its end, or s the end of t.
Grown(s, t) == Len(s) < Len(t) /\ \A i \in 1 .. Len(s) : t[i] = s[i]
Dropped(s, t) == Len(s) < Len(t) /\ \A i \in 1 .. Len(s) : s[i] = t[i + (Len(t) - Len(s))]

LEMMA GrownIsPut ==
  ASSUME NEW s \in Seq(Char), NEW t \in Seq(Char), Grown(s, t)
  PROVE  IsStrictPrefix(s, t)
<1>1. Len(s) \in Nat /\ Len(t) \in Nat /\ Len(s) < Len(t)  BY DEF Grown
<1>2. /\ \A i \in 1 .. Len(s) : s[i] \in Char
      /\ \A i \in 1 .. Len(s) : t[i] \in Char
  BY <1>1, ElementOfSeq
<1>3. SubSeq(s, 1, Len(s)) = SubSeq(t, 1, Len(s))
  <2> DEFINE a == SubSeq(s, 1, Len(s))
             b == SubSeq(t, 1, Len(s))
  <2>1. /\ a \in Seq(Char) /\ Len(a) = Len(s)
        /\ \A i \in 1 .. Len(s) : a[i] = s[i]
    BY <1>1, <1>2, SubSeqProperties
  <2>2. /\ b \in Seq(Char) /\ Len(b) = Len(s)
        /\ \A i \in 1 .. Len(s) : b[i] = t[i]
    BY <1>1, <1>2, SubSeqProperties
  <2>3. \A i \in 1 .. Len(a) : a[i] = b[i]  BY <2>1, <2>2 DEF Grown
  <2>4. Len(a) = Len(b)  BY <2>1, <2>2
  <2> HIDE DEF a, b
  <2>5. a = b  BY <2>1, <2>2, <2>3, <2>4, SeqEqual
  <2> QED BY <2>5 DEF a, b
<1> QED BY <1>1, <1>3 DEF IsStrictPrefix, IsPrefix

LEMMA ReverseIs ==
  ASSUME NEW s \in Seq(Char)
  PROVE  /\ Reverse(s) \in Seq(Char) /\ Len(Reverse(s)) = Len(s)
         /\ \A i \in 1 .. Len(s) : Reverse(s)[i] = s[(Len(s) - i) + 1]
<1> DEFINE l == Len(s)
<1>1. l \in Nat  OBVIOUS
<1>2. \A i \in 1 .. l : (l - i) + 1 \in 1 .. l
  <2> HIDE DEF l
  <2> QED BY <1>1
<1>3. \A i \in 1 .. l : s[(l - i) + 1] \in Char  BY <1>2, ElementOfSeq
<1>4. Reverse(s) = [i \in 1 .. l |-> s[(l - i) + 1]]  BY DEF Reverse
<1> HIDE DEF l
<1>5. [i \in 1 .. l |-> s[(l - i) + 1]] \in [1 .. l -> Char]  BY <1>3
<1>6. Reverse(s) \in Seq(Char) /\ Len(Reverse(s)) = l  BY <1>1, <1>4, <1>5
<1> QED BY <1>4, <1>6 DEF l

LEMMA DroppedIsTake ==
  ASSUME NEW s \in Seq(Char), NEW t \in Seq(Char), Dropped(s, t)
  PROVE  IsStrictSuffix(s, t)
<1> DEFINE a == Reverse(s)
           b == Reverse(t)
<1>1. Len(s) \in Nat /\ Len(t) \in Nat /\ Len(s) < Len(t)  BY DEF Dropped
<1>2. /\ a \in Seq(Char) /\ Len(a) = Len(s)
      /\ \A i \in 1 .. Len(s) : a[i] = s[(Len(s) - i) + 1]
  BY ReverseIs
<1>3. /\ b \in Seq(Char) /\ Len(b) = Len(t)
      /\ \A i \in 1 .. Len(t) : b[i] = t[(Len(t) - i) + 1]
  BY ReverseIs
<1>4. \A i \in 1 .. Len(s) : a[i] = b[i]
  <2> SUFFICES ASSUME NEW i \in 1 .. Len(s) PROVE a[i] = b[i]  OBVIOUS
  <2> DEFINE j == (Len(s) - i) + 1
  <2>1. j \in 1 .. Len(s) /\ j + (Len(t) - Len(s)) = (Len(t) - i) + 1  BY <1>1
  <2>2. s[j] = t[j + (Len(t) - Len(s))]
    <3> HIDE DEF j
    <3> QED BY <2>1 DEF Dropped
  <2>3. a[i] = s[j]  BY <1>2
  <2>4. b[i] = t[(Len(t) - i) + 1]
    <3>1. i \in 1 .. Len(t)  BY <1>1
    <3> QED BY <3>1, <1>3
  <2> HIDE DEF a, b, j
  <2> QED BY <2>1, <2>2, <2>3, <2>4
<1> HIDE DEF a, b
<1>5. Grown(a, b)  BY <1>1, <1>2, <1>3, <1>4 DEF Grown
<1>6. IsStrictPrefix(a, b)  BY <1>2, <1>3, <1>5, GrownIsPut
<1>7. IsSuffix(s, t)  BY <1>6 DEF IsStrictPrefix, IsSuffix, a, b
<1>8. s # t  BY <1>1
<1> QED BY <1>7, <1>8 DEF IsStrictSuffix

\* More bytes at the end of the later part.
LEMMA GrownAfter ==
  ASSUME NEW r \in Seq(Char), NEW s \in Seq(Char), NEW t \in Seq(Char), Grown(s, t)
  PROVE  r \o s \in Seq(Char) /\ r \o t \in Seq(Char) /\ Grown(r \o s, r \o t)
<1> DEFINE x == r \o s
           y == r \o t
<1>1. /\ x \in Seq(Char) /\ Len(x) = Len(r) + Len(s)
      /\ \A i \in 1 .. Len(r) + Len(s) :
           x[i] = IF i <= Len(r) THEN r[i] ELSE s[i - Len(r)]
  BY ConcatProperties
<1>2. /\ y \in Seq(Char) /\ Len(y) = Len(r) + Len(t)
      /\ \A i \in 1 .. Len(r) + Len(t) :
           y[i] = IF i <= Len(r) THEN r[i] ELSE t[i - Len(r)]
  BY ConcatProperties
<1>3. Len(r) \in Nat /\ Len(s) \in Nat /\ Len(t) \in Nat /\ Len(s) < Len(t)
  BY DEF Grown
<1> HIDE DEF x, y
<1>4. \A i \in 1 .. Len(x) : y[i] = x[i]
  <2> SUFFICES ASSUME NEW i \in 1 .. Len(r) + Len(s) PROVE y[i] = x[i]  BY <1>1
  <2>1. i \in 1 .. Len(r) + Len(t)  BY <1>3
  <2>2. CASE i <= Len(r)  BY <1>1, <1>2, <2>1, <2>2
  <2>3. CASE ~(i <= Len(r))
    <3>1. x[i] = s[i - Len(r)] /\ y[i] = t[i - Len(r)]  BY <1>1, <1>2, <2>1, <2>3
    <3>2. i - Len(r) \in 1 .. Len(s)  BY <1>3, <2>3
    <3> QED BY <3>1, <3>2 DEF Grown
  <2> QED BY <2>2, <2>3
<1>5. Len(x) < Len(y)  BY <1>1, <1>2, <1>3
<1>6. x \in Seq(Char) /\ y \in Seq(Char) /\ Grown(x, y)
  BY <1>1, <1>2, <1>4, <1>5 DEF Grown
<1> QED BY <1>6 DEF x, y

\* Fewer bytes at the start of the earlier part.
LEMMA DroppedBefore ==
  ASSUME NEW r \in Seq(Char), NEW s \in Seq(Char), NEW t \in Seq(Char), Dropped(s, t)
  PROVE  s \o r \in Seq(Char) /\ t \o r \in Seq(Char) /\ Dropped(s \o r, t \o r)
<1> DEFINE x == s \o r
           y == t \o r
           d == Len(t) - Len(s)
<1>1. /\ x \in Seq(Char) /\ Len(x) = Len(s) + Len(r)
      /\ \A i \in 1 .. Len(s) + Len(r) :
           x[i] = IF i <= Len(s) THEN s[i] ELSE r[i - Len(s)]
  BY ConcatProperties
<1>2. /\ y \in Seq(Char) /\ Len(y) = Len(t) + Len(r)
      /\ \A i \in 1 .. Len(t) + Len(r) :
           y[i] = IF i <= Len(t) THEN t[i] ELSE r[i - Len(t)]
  BY ConcatProperties
<1>3. Len(r) \in Nat /\ Len(s) \in Nat /\ Len(t) \in Nat /\ Len(s) < Len(t)
  BY DEF Dropped
<1>4. \A i \in 1 .. Len(s) : s[i] = t[i + d]  BY DEF Dropped
<1>5. d \in Int /\ Len(y) - Len(x) = d  BY <1>1, <1>2, <1>3
<1> HIDE DEF x, y
<1>6. \A i \in 1 .. Len(x) : x[i] = y[i + d]
  <2> SUFFICES ASSUME NEW i \in 1 .. Len(s) + Len(r) PROVE x[i] = y[i + d]  BY <1>1
  <2>1. i + d \in 1 .. Len(t) + Len(r)  BY <1>3
  <2>2. y[i + d] = IF i + d <= Len(t) THEN t[i + d] ELSE r[(i + d) - Len(t)]
    BY <1>2, <2>1
  <2>3. CASE i <= Len(s)
    <3>1. x[i] = s[i] /\ s[i] = t[i + d]  BY <1>1, <1>3, <1>4, <2>3
    <3>2. i + d <= Len(t)  BY <1>3, <2>3
    <3> QED BY <2>2, <3>1, <3>2
  <2>4. CASE ~(i <= Len(s))
    <3>1. x[i] = r[i - Len(s)]  BY <1>1, <2>4
    <3>2. ~(i + d <= Len(t)) /\ (i + d) - Len(t) = i - Len(s)  BY <1>3, <2>4
    <3> QED BY <2>2, <3>1, <3>2
  <2> QED BY <2>3, <2>4
<1>7. Len(x) < Len(y)  BY <1>1, <1>2, <1>3
<1>8. x \in Seq(Char) /\ y \in Seq(Char) /\ Dropped(x, y)
  BY <1>1, <1>2, <1>5, <1>6, <1>7 DEF Dropped
<1> QED BY <1>8 DEF x, y

\* A byte moved from one part of a stream to the other.
LEMMA MoveChar ==
  ASSUME NEW s \in Seq(Char), NEW t \in Seq(Char), t # << >>
  PROVE  Append(s, Head(t)) \o Tail(t) = s \o t
<1> DEFINE u == Append(s, Head(t))
           v == Tail(t)
           x == u \o v
           y == s \o t
<1>1. /\ Head(t) \in Char /\ v \in Seq(Char) /\ Len(v) = Len(t) - 1
      /\ Head(t) = t[1] /\ \A i \in 1 .. Len(v) : v[i] = t[i + 1]
  BY HeadTailProperties
<1>2. /\ u \in Seq(Char) /\ Len(u) = Len(s) + 1
      /\ \A i \in 1 .. Len(s) : u[i] = s[i]
      /\ u[Len(s) + 1] = Head(t)
  BY <1>1, AppendProperties
<1>3. Len(s) \in Nat /\ Len(t) \in Nat /\ Len(t) > 0  BY EmptySeq
<1> HIDE DEF u, v
<1>4. /\ x \in Seq(Char) /\ Len(x) = Len(u) + Len(v)
      /\ \A i \in 1 .. Len(u) + Len(v) :
           x[i] = IF i <= Len(u) THEN u[i] ELSE v[i - Len(u)]
  BY <1>1, <1>2, ConcatProperties
<1>5. /\ y \in Seq(Char) /\ Len(y) = Len(s) + Len(t)
      /\ \A i \in 1 .. Len(s) + Len(t) :
           y[i] = IF i <= Len(s) THEN s[i] ELSE t[i - Len(s)]
  BY ConcatProperties
<1> HIDE DEF x, y
<1>6. Len(x) = Len(y)  BY <1>1, <1>2, <1>3, <1>4, <1>5
<1>7. \A i \in 1 .. Len(x) : x[i] = y[i]
  <2> SUFFICES ASSUME NEW i \in 1 .. Len(s) + Len(t) PROVE x[i] = y[i]
    BY <1>5, <1>6
  <2>1. y[i] = IF i <= Len(s) THEN s[i] ELSE t[i - Len(s)]  BY <1>5
  <2>2. x[i] = IF i <= Len(u) THEN u[i] ELSE v[i - Len(u)]  BY <1>4, <1>5, <1>6
  <2>3. CASE i <= Len(s)  BY <2>1, <2>2, <2>3, <1>2, <1>3
  <2>4. CASE i = Len(s) + 1  BY <2>1, <2>2, <2>4, <1>1, <1>2, <1>3
  <2>5. CASE i > Len(s) + 1
    <3>1. x[i] = v[i - Len(u)] /\ y[i] = t[i - Len(s)]  BY <2>1, <2>2, <2>5, <1>2, <1>3
    <3>2. i - Len(u) \in 1 .. Len(v) /\ (i - Len(u)) + 1 = i - Len(s)
      BY <2>5, <1>1, <1>2, <1>3
    <3> QED BY <3>1, <3>2, <1>1
  <2> QED BY <2>3, <2>4, <2>5, <1>3
<1>8. x = y  BY <1>4, <1>5, <1>6, <1>7, SeqEqual
<1> QED BY <1>8 DEF x, y, u, v

---------------------------------------------------------------------------
(* The invariant *)

Places == {"idle", "look", "copy", "release", "looked", "await", "receive",
           "room", "fill", "publish", "send", "spin", "close"}
IsrStates == [at : {"off", "read", "write", "again"}, ri : BOOLEAN, wi : BOOLEAN,
              avail : BOOLEAN, space : Int]

JtagTypes ==
  /\ rxFifo \in Seq(Char) /\ txFifo \in Seq(Char)
  /\ hostNext \in Char /\ progNext \in Char
  /\ rx_in \in Slots /\ rx_out \in Slots /\ rx_buf \in [Slots -> Char]
  /\ tx_in \in Slots /\ tx_out \in Slots /\ tx_buf \in [Slots -> Char]
  /\ in \in Slots /\ out \in Slots /\ n \in Nat /\ left \in Nat
  /\ isr \in IsrStates
  /\ control = irq_enable /\ at \in Places

\* What a read has measured is still there, in one piece, and what it has
\* copied has not been overwritten.
Copying ==
  /\ at \in {"copy", "release"} =>
       /\ out = rx_out /\ n >= 1 /\ n <= left
       /\ n <= Used(rx_in, rx_out) /\ out + n <= BufLen
  /\ at = "release" => chunk = [i \in 1 .. n |-> rx_buf[out + i - 1]]

\* What a write has measured is still free, in one piece.
Filling ==
  /\ at \in {"fill", "publish"} =>
       in = tx_in /\ n >= 1 /\ in + n <= BufLen /\ n + Used(tx_in, tx_out) < BufLen
  /\ at = "fill" => n <= left
  /\ at \in {"look", "await", "room", "spin"} => left > 0
  /\ at = "looked" => moved \/ left > 0

\* While the handler works for an interrupt, that interrupt is still enabled.
Awake ==
  /\ NoLostWakeup
  /\ isr.at = "read" /\ isr.ri => "RE" \in control
  /\ isr.at \in {"read", "write"} /\ isr.wi => "WE" \in control

JtagInv == JtagTypes /\ Copying /\ Filling /\ Awake

LEMMA AwakeHost ==
  ASSUME JtagTypes, Awake,
         Plug \/ HostPolls \/ HostSends \/ HostTakes \/ Timeout
           \/ \E t \in Timeouts \cup {0} : SetTimeout(t)
  PROVE  Awake'
<1>1. UNCHANGED <<control, rx_in, rx_out, tx_in, tx_out, at, moved, isr>>
  BY DEF Plug, HostPolls, HostSends, HostTakes, Timeout, SetTimeout, coreVars, rxVars,
         txVars, callVars, JtagTypes
<1> QED BY <1>1 DEF Awake, NoLostWakeup

LEMMA AwakeIsr ==
  ASSUME JtagTypes, Awake, Isr
  PROVE  Awake'
<1> USE DEF Awake, NoLostWakeup
<1>1. at' = at /\ moved' = moved
  BY DEF Isr, ReadControl, TakeByte, NoByte, RxDone, GiveByte, TxDone, Handler, callVars
<1>2. isr \in IsrStates /\ control = irq_enable  BY DEF JtagTypes
<1>3. CASE ReadControl
  <2>1. UNCHANGED <<control, rx_in, rx_out, tx_in, tx_out>>
    BY <1>3 DEF ReadControl, coreVars, rxVars, txVars
  <2>2. /\ isr'.ri => "RE" \in control \/ isr'.at = "off"
        /\ isr'.wi => "WE" \in control \/ isr'.at = "off"
    BY <1>3 DEF ReadControl, ReadPending, WritePending, Quiet
  <2> QED BY <1>1, <2>1, <2>2
<1>4. CASE TakeByte
  <2>1. /\ isr.at = "read" /\ isr.ri /\ UNCHANGED <<control, tx_in, tx_out>>
        /\ isr'.at = isr.at /\ isr'.ri = isr.ri /\ isr'.wi = isr.wi
    BY <1>2, <1>4 DEF TakeByte, Handler, txVars, IsrStates
  <2> QED BY <1>1, <2>1
<1>5. CASE NoByte
  <2>1. /\ UNCHANGED <<control, rx_in, rx_out, tx_in, tx_out>>
        /\ isr.at = "read" /\ isr'.at = "write" /\ isr'.wi = isr.wi
    BY <1>2, <1>5 DEF NoByte, Handler, rxVars, txVars, IsrStates
  <2> QED BY <1>1, <2>1
<1>6. CASE RxDone
  <2>1. /\ UNCHANGED <<rx_in, rx_out, tx_in, tx_out>>
        /\ isr.at = "read" /\ isr'.at = "write" /\ isr'.wi = isr.wi
    BY <1>2, <1>6 DEF RxDone, Handler, rxVars, txVars, IsrStates
  <2>2. \/ control' = control
        \/ control' = control \ {"RE"} /\ ~IsrRoom
    BY <1>2, <1>6 DEF RxDone, Handler
  <2> QED BY <1>1, <2>1, <2>2 DEF IsrRoom
<1>7. CASE GiveByte
  <2>1. /\ UNCHANGED <<control, rx_in, rx_out>> /\ isr.at = "write" /\ isr.wi
        /\ isr'.at = isr.at /\ isr'.wi = isr.wi
    BY <1>2, <1>7 DEF GiveByte, Handler, rxVars, IsrStates
  <2> QED BY <1>1, <2>1
<1>8. CASE TxDone
  <2>1. /\ UNCHANGED <<rx_in, rx_out, tx_in, tx_out>>
        /\ isr.at = "write" /\ isr'.at = "again"
    BY <1>2, <1>8 DEF TxDone, Handler, rxVars, txVars, IsrStates
  <2>2. \/ control' = control
        \/ control' = control \ {"WE"} /\ tx_out = tx_in
    BY <1>2, <1>8 DEF TxDone, Handler, IsrStates
  <2> QED BY <1>1, <2>1, <2>2
<1> QED BY <1>3, <1>4, <1>5, <1>6, <1>7, <1>8 DEF Isr

LEMMA AwakeProgram ==
  ASSUME JtagTypes, Awake, Read \/ Write \/ Close \/ InCall
  PROVE  Awake'
<1> USE DEF Awake, NoLostWakeup
<1>1. isr' = isr /\ isr.at = "off"
  BY DEF Read, Write, Close, InCall, Begin, Program, ReadLook, ReadCopy, ReadRelease,
         ReadLooked, ReadAwait, ReadReceive, WriteRoom, WriteFill, WritePublish, WriteSend,
         WriteSpin, CloseWait
<1>2. CASE Read \/ Write \/ Close
  <2>1. at = "idle" /\ UNCHANGED <<control, rx_in, rx_out, tx_in, tx_out>>
    BY <1>2 DEF Read, Write, Close, Begin, Program, NoMove, rxVars, txVars
  <2> QED BY <1>1, <2>1
<1>3. CASE ReadLook \/ ReadCopy
  <2>1. /\ UNCHANGED <<control, rx_in, rx_out, tx_in, tx_out, moved>>
        /\ at \in {"look", "copy"} /\ at' \in {"looked", "copy", "release"}
    BY <1>3 DEF ReadLook, ReadCopy, Program, NoMove, rxVars, txVars
  <2> QED BY <1>1, <2>1
<1>4. CASE ReadRelease
  <2>1. /\ UNCHANGED <<control, tx_in, tx_out>> /\ at = "release"
        /\ at' \in {"looked", "look"} /\ moved'
    BY <1>4 DEF ReadRelease, Program, txVars
  <2> QED BY <1>1, <2>1
<1>5. CASE ReadLooked
  <2>1. UNCHANGED <<control, rx_in, rx_out, tx_in, tx_out>> /\ at = "looked"
    BY <1>5 DEF ReadLooked, Program, NoMove, rxVars, txVars
  <2>2. moved => at' = "receive" /\ moved' = moved
    BY <1>5 DEF ReadLooked, Program
  <2> QED BY <1>1, <2>1, <2>2
<1>6. CASE ReadAwait \/ CloseWait \/ WriteSpin
  <2>1. /\ UNCHANGED <<control, rx_in, rx_out, tx_in, tx_out>>
        /\ at \in {"await", "close", "spin"}
    BY <1>6 DEF ReadAwait, CloseWait, WriteSpin, Program, NoMove, rxVars, txVars
  <2> QED BY <1>1, <2>1
<1>7. CASE ReadReceive
  <2>1. /\ UNCHANGED <<rx_in, rx_out, tx_in, tx_out>> /\ at = "receive"
        /\ "RE" \in control' /\ control \subseteq control'
    BY <1>7 DEF ReadReceive, ReceivesAgain, Program, rxVars, txVars, JtagTypes
  <2> QED BY <1>1, <2>1
<1>8. CASE WriteRoom
  <2>1. /\ UNCHANGED <<control, rx_in, rx_out, tx_in, tx_out, moved>>
        /\ at = "room" /\ at' \in {"send", "fill"}
    BY <1>8 DEF WriteRoom, Program, NoMove, rxVars, txVars
  <2> QED BY <1>1, <2>1
<1>9. CASE WriteFill \/ WritePublish
  <2>1. /\ UNCHANGED <<control, rx_in, rx_out>>
        /\ at \in {"fill", "publish"} /\ at' \in {"send", "room", "publish"}
    BY <1>9 DEF WriteFill, WritePublish, Program, rxVars
  <2> QED BY <1>1, <2>1
<1>10. CASE WriteSend
  <2>1. /\ UNCHANGED <<rx_in, rx_out, tx_in, tx_out>> /\ at = "send"
        /\ "WE" \in control' /\ control \subseteq control'
    BY <1>10 DEF WriteSend, Program, rxVars, txVars, JtagTypes
  <2> QED BY <1>1, <2>1
<1> QED BY <1>2, <1>3, <1>4, <1>5, <1>6, <1>7, <1>8, <1>9, <1>10 DEF InCall

---------------------------------------------------------------------------
(* The two streams of bytes *)

InStream == Ring(rx_buf, rx_out, rx_in) \o rxFifo
OutStream == txFifo \o Ring(tx_buf, tx_out, tx_in)

\* A step of a pipe.
Flows(s, t) == s = t \/ Grown(s, t) \/ Dropped(t, s)

Moves == Flows(InStream, InStream') /\ Flows(OutStream, OutStream')

Sound == JtagTypes /\ Copying /\ Filling

LEMMA RoomMeans ==
  ASSUME NEW to \in Slots, NEW from \in Slots, Up(to, 1) # from
  PROVE  1 + Used(to, from) < BufLen
<1>1. BufLen \in Nat /\ BufLen > 1  BY JtagAssumption
<1> DEFINE m == Used(to, from)
           u == Up(to, 1)
<1>2. /\ to >= from => m = to - from
      /\ to < from => m = to + BufLen - from
      /\ m \in Slots
  BY UsedIs
<1>3. /\ to + 1 < BufLen => u = to + 1
      /\ to + 1 >= BufLen => u = to + 1 - BufLen
  <2>1. 1 \in 0 .. BufLen  BY <1>1
  <2> QED BY <2>1, UpIs
<1>4. u # from  OBVIOUS
<1> HIDE DEF m, u
<1>5. 1 + m < BufLen  BY <1>1, <1>2, <1>3, <1>4 DEF Slots
<1> QED BY <1>5 DEF m

\* Nothing of the rings or the FIFOs changes.
LEMMA Rests ==
  ASSUME UNCHANGED <<rxFifo, txFifo, rxVars, txVars>>
  PROVE  Moves /\ Used(rx_in, rx_out)' = Used(rx_in, rx_out)
         /\ Used(tx_in, tx_out)' = Used(tx_in, tx_out)
BY DEF Moves, Flows, InStream, OutStream, rxVars, txVars, Used, Up, Ring

LEMMA HostStep ==
  ASSUME Sound,
         Plug \/ HostPolls \/ HostSends \/ HostTakes \/ Timeout
           \/ \E t \in Timeouts \cup {0} : SetTimeout(t)
  PROVE  Sound' /\ Moves
<1> USE DEF Sound
<1>1. /\ UNCHANGED <<rx_in, rx_out, rx_buf, tx_in, tx_out, tx_buf, isr, irq_enable,
                     at, in, out, n, left, moved, chunk, progNext>>
      /\ control' = irq_enable'
  BY DEF Plug, HostPolls, HostSends, HostTakes, Timeout, SetTimeout, coreVars, rxVars,
         txVars, callVars, JtagTypes
<1>2. Copying' /\ Filling'  BY <1>1 DEF Copying, Filling, Used, Up
<1>3. /\ Ring(rx_buf, rx_out, rx_in) \in Seq(Char) /\ Ring(tx_buf, tx_out, tx_in) \in Seq(Char)
      /\ rxFifo \in Seq(Char) /\ txFifo \in Seq(Char)
  BY RingIs DEF JtagTypes
<1>4. CASE UNCHANGED <<rxFifo, txFifo, hostNext>>
  <2>1. JtagTypes'  BY <1>1, <1>4 DEF JtagTypes
  <2> QED BY <1>1, <1>2, <1>4, <2>1, Rests DEF rxVars, txVars
<1>5. CASE HostSends
  <2>1. /\ rxFifo' = Append(rxFifo, hostNext) /\ txFifo' = txFifo
        /\ hostNext' = ((hostNext + 1) % Numbers)
    BY <1>5 DEF HostSends
  <2>2. hostNext \in Char /\ hostNext' \in Char
    BY <2>1, JtagAssumption DEF JtagTypes, Char
  <2>3. /\ rxFifo' \in Seq(Char) /\ Len(rxFifo') = Len(rxFifo) + 1
        /\ \A i \in 1 .. Len(rxFifo) : rxFifo'[i] = rxFifo[i]
    BY <1>3, <2>1, <2>2, AppendProperties
  <2>4. Grown(rxFifo, rxFifo')
    <3>1. Len(rxFifo) \in Nat  BY <1>3
    <3> QED BY <2>3, <3>1 DEF Grown
  <2>5. Grown(InStream, InStream')
    <3> DEFINE r == Ring(rx_buf, rx_out, rx_in)
               f == rxFifo'
    <3>1. r \in Seq(Char) /\ f \in Seq(Char) /\ Grown(rxFifo, f)  BY <1>3, <2>3, <2>4
    <3>2. InStream = r \o rxFifo /\ InStream' = r \o f  BY <1>1 DEF InStream, Ring, Up
    <3> HIDE DEF r, f
    <3>3. Grown(r \o rxFifo, r \o f)  BY <1>3, <3>1, GrownAfter
    <3> QED BY <3>2, <3>3
  <2>6. OutStream' = OutStream  BY <1>1, <2>1 DEF OutStream, Ring, Up
  <2>7. JtagTypes'  BY <1>1, <2>1, <2>2, <2>3 DEF JtagTypes
  <2> QED BY <1>2, <2>5, <2>6, <2>7 DEF Moves, Flows
<1>6. CASE HostTakes
  <2>1. rxFifo' = rxFifo /\ hostNext' = hostNext /\ txFifo # << >> /\ txFifo' = Tail(txFifo)
    BY <1>6 DEF HostTakes
  <2>2. /\ txFifo' \in Seq(Char) /\ Len(txFifo') = Len(txFifo) - 1
        /\ \A i \in 1 .. Len(txFifo') : txFifo'[i] = txFifo[i + 1]
    BY <1>3, <2>1, HeadTailProperties
  <2>3. Dropped(txFifo', txFifo)
    <3>1. Len(txFifo) \in Nat /\ Len(txFifo) - Len(txFifo') = 1  BY <1>3, <2>2
    <3> QED BY <2>2, <3>1 DEF Dropped
  <2>4. Dropped(OutStream', OutStream)
    <3> DEFINE r == Ring(tx_buf, tx_out, tx_in)
               f == txFifo'
    <3>1. r \in Seq(Char) /\ f \in Seq(Char) /\ Dropped(f, txFifo)  BY <1>3, <2>2, <2>3
    <3>2. OutStream = txFifo \o r /\ OutStream' = f \o r  BY <1>1 DEF OutStream, Ring, Up
    <3> HIDE DEF r, f
    <3>3. Dropped(f \o r, txFifo \o r)  BY <1>3, <3>1, DroppedBefore
    <3> QED BY <3>2, <3>3
  <2>5. InStream' = InStream  BY <1>1, <2>1 DEF InStream, Ring, Up
  <2>6. JtagTypes'  BY <1>1, <2>1, <2>2 DEF JtagTypes
  <2> QED BY <1>2, <2>4, <2>5, <2>6 DEF Moves, Flows
<1> QED BY <1>4, <1>5, <1>6
     DEF Plug, HostPolls, Timeout, SetTimeout, coreVars, hostVars

\* The handler moves a byte from the receive FIFO to the buffer.
LEMMA TakeStep ==
  ASSUME Sound, TakeByte
  PROVE  Sound' /\ Moves
<1> USE DEF Sound
<1>1. /\ IsrRoom /\ rxFifo # << >>
      /\ rx_buf' = [rx_buf EXCEPT ![rx_in] = Head(rxFifo)] /\ rx_in' = Up(rx_in, 1)
      /\ rxFifo' = Tail(rxFifo)
      /\ isr' = [isr EXCEPT !.avail = Len(rxFifo) > 1]
      /\ UNCHANGED <<txFifo, control, rx_out, tx_in, tx_out, tx_buf, irq_enable, hostNext,
                     at, in, out, n, left, moved, chunk, progNext>>
  BY DEF TakeByte, Handler, txVars, callVars, hostVars
<1>2. /\ rxFifo \in Seq(Char) /\ rx_buf \in [Slots -> Char] /\ rx_in \in Slots
      /\ rx_out \in Slots /\ BufLen \in Nat /\ BufLen > 1
  BY JtagAssumption DEF JtagTypes
<1>3. Head(rxFifo) \in Char /\ rxFifo' \in Seq(Char)
  BY <1>1, <1>2, HeadTailProperties
<1>4. /\ rx_buf' \in [Slots -> Char] /\ rx_buf'[rx_in] = Head(rxFifo)
      /\ \A p \in Slots : p # rx_in => rx_buf'[p] = rx_buf[p]
  BY <1>1, <1>2, <1>3
<1>5. 1 + Used(rx_in, rx_out) < BufLen  BY <1>1, <1>2, RoomMeans DEF IsrRoom
<1>6. rx_in + 1 <= BufLen  BY <1>2 DEF Slots
<1>7. /\ rx_in' \in Slots /\ Used(rx_in', rx_out) = Used(rx_in, rx_out) + 1
      /\ \A i \in 1 .. Used(rx_in, rx_out) :
           Ring(rx_buf', rx_out, rx_in')[i] = Ring(rx_buf, rx_out, rx_in)[i]
      /\ Ring(rx_buf', rx_out, rx_in')[Used(rx_in, rx_out) + 1] = Head(rxFifo)
  <2> DEFINE b == rx_buf'
             k == 1
  <2>1. b \in [Slots -> Char] /\ SameElsewhere(rx_buf, b, rx_in, k)
    BY <1>2, <1>4 DEF Slots, SameElsewhere
  <2>2. b[rx_in + k - 1] = Head(rxFifo) /\ k \in 1 .. k  BY <1>2, <1>4 DEF Slots
  <2>3. k \in Nat \ {0} /\ rx_in + k <= BufLen /\ k + Used(rx_in, rx_out) < BufLen
    BY <1>5, <1>6
  <2> HIDE DEF b, k
  <2>4. /\ Up(rx_in, k) \in Slots /\ Used(Up(rx_in, k), rx_out) = Used(rx_in, rx_out) + k
        /\ \A i \in 1 .. Used(rx_in, rx_out) :
             Ring(b, rx_out, Up(rx_in, k))[i] = Ring(rx_buf, rx_out, rx_in)[i]
        /\ \A j \in 1 .. k :
             Ring(b, rx_out, Up(rx_in, k))[Used(rx_in, rx_out) + j] = b[rx_in + j - 1]
    BY <1>2, <2>1, <2>3, RingGrows
  <2>5. Ring(b, rx_out, Up(rx_in, k))[Used(rx_in, rx_out) + k] = Head(rxFifo)
    BY <2>2, <2>4
  <2> QED BY <1>1, <2>4, <2>5 DEF b, k
<1>8. InStream' = InStream
  <2> DEFINE r == Ring(rx_buf, rx_out, rx_in)
             q == Ring(rx_buf', rx_out, rx_in')
             m == Used(rx_in, rx_out)
             b == rx_buf'
             t == rx_in'
  <2>1. r \in Seq(Char) /\ Len(r) = m /\ m \in Nat
    <3>1. r \in Seq(Char) /\ Len(r) = m  BY <1>2, RingIs
    <3>2. m \in Slots  BY <1>2, UsedIs
    <3> HIDE DEF m
    <3>3. m \in Nat  BY <3>2 DEF Slots
    <3> QED BY <3>1, <3>3
  <2>2. q \in Seq(Char) /\ Len(q) = Used(t, rx_out)
    <3>1. b \in [Slots -> Char] /\ t \in Slots  BY <1>4, <1>7
    <3>2. q = Ring(b, rx_out, t)  OBVIOUS
    <3> HIDE DEF b, t, q
    <3> QED BY <1>2, <3>1, <3>2, RingIs
  <2>3. Len(q) = m + 1 /\ q[m + 1] = Head(rxFifo) /\ \A i \in 1 .. m : q[i] = r[i]
    BY <1>7, <2>2
  <2> DEFINE a == Append(r, Head(rxFifo))
  <2>4. /\ a \in Seq(Char) /\ Len(a) = m + 1 /\ a[m + 1] = Head(rxFifo)
        /\ \A i \in 1 .. m : a[i] = r[i]
    BY <1>3, <2>1, AppendProperties
  <2> HIDE DEF q, a, m
  <2>5. \A i \in 1 .. Len(q) : q[i] = a[i]  BY <2>1, <2>3, <2>4
  <2>6. q = a  BY <2>2, <2>3, <2>4, <2>5, SeqEqual
  <2> HIDE DEF r
  <2>7. Append(r, Head(rxFifo)) \o Tail(rxFifo) = r \o rxFifo
    BY <1>1, <1>2, <2>1, MoveChar
  <2>8. InStream = r \o rxFifo  BY DEF InStream, r
  <2>9. InStream' = q \o Tail(rxFifo)  BY <1>1 DEF InStream, q, Ring, Up
  <2> QED BY <2>6, <2>7, <2>8, <2>9 DEF a
<1>9. OutStream' = OutStream  BY <1>1 DEF OutStream, Ring, Up
<1>10. JtagTypes'
  <2>1. isr' \in IsrStates
    <3> DEFINE v == Len(rxFifo) > 1
    <3>1. v \in BOOLEAN /\ isr' = [isr EXCEPT !.avail = v]  BY <1>1
    <3> HIDE DEF v
    <3> QED BY <3>1 DEF JtagTypes, IsrStates
  <2> QED BY <1>1, <1>3, <1>4, <1>7, <2>1 DEF JtagTypes
<1>11. Copying'
  <2>1. Used(rx_in, rx_out) \in Nat /\ n \in Nat /\ out \in Slots
    <3> DEFINE m == Used(rx_in, rx_out)
    <3>1. m \in Slots  BY <1>2, UsedIs
    <3> HIDE DEF m
    <3>2. m \in Nat  BY <3>1 DEF Slots
    <3> QED BY <3>2 DEF JtagTypes, m
  <2>2. at \in {"copy", "release"} =>
          /\ out = rx_out /\ n >= 1 /\ n <= left
          /\ n <= Used(rx_in', rx_out) /\ out + n <= BufLen
    BY <1>7, <2>1 DEF Copying
  <2>3. ASSUME at = "release" PROVE chunk = [i \in 1 .. n |-> rx_buf'[out + i - 1]]
    <3>1. /\ chunk = [i \in 1 .. n |-> rx_buf[out + i - 1]]
          /\ out = rx_out /\ n <= Used(rx_in, rx_out) /\ out + n <= BufLen
      BY <2>3 DEF Copying
    <3>2. \A i \in 1 .. n : out + i - 1 \in Slots /\ out + i - 1 # rx_in
      <4>1. /\ rx_in >= rx_out => Used(rx_in, rx_out) = rx_in - rx_out
        BY <1>2, UsedIs
      <4> QED BY <1>2, <2>1, <3>1, <4>1 DEF Slots
    <3>3. \A i \in 1 .. n : rx_buf'[out + i - 1] = rx_buf[out + i - 1]
      BY <1>4, <3>2
    <3> QED BY <3>1, <3>3
  <2> QED BY <1>1, <2>2, <2>3 DEF Copying, Used, Up
<1>12. Filling'  BY <1>1 DEF Filling, Used, Up
<1> QED BY <1>8, <1>9, <1>10, <1>11, <1>12 DEF Moves, Flows

\* The handler moves a byte from the buffer to the transmit FIFO.
LEMMA GiveStep ==
  ASSUME Sound, GiveByte
  PROVE  Sound' /\ Moves
<1> USE DEF Sound
<1>1. /\ tx_out # tx_in /\ isr.space > 0
      /\ txFifo' = Append(txFifo, tx_buf[tx_out]) /\ tx_out' = Up(tx_out, 1)
      /\ isr' = [isr EXCEPT !.space = @ - 1]
      /\ UNCHANGED <<rxFifo, control, rx_in, rx_out, rx_buf, tx_in, tx_buf, irq_enable,
                     hostNext, at, in, out, n, left, moved, chunk, progNext>>
  BY DEF GiveByte, Handler, rxVars, callVars, hostVars
<1>2. /\ txFifo \in Seq(Char) /\ tx_buf \in [Slots -> Char] /\ tx_in \in Slots
      /\ tx_out \in Slots /\ BufLen \in Nat /\ BufLen > 1
  BY JtagAssumption DEF JtagTypes
<1> DEFINE m == Used(tx_in, tx_out)
           r == Ring(tx_buf, tx_out, tx_in)
           q == Ring(tx_buf, Up(tx_out, 1), tx_in)
<1>3. m \in Nat /\ m < BufLen /\ 1 \in 1 .. m
  <2>1. /\ tx_in >= tx_out => m = tx_in - tx_out
        /\ tx_in < tx_out => m = tx_in + BufLen - tx_out
    BY <1>2, UsedIs
  <2> QED BY <1>1, <1>2, <2>1 DEF Slots
<1>4. /\ Up(tx_out, 1) \in Slots /\ Used(tx_in, Up(tx_out, 1)) = m - 1
      /\ \A i \in 1 .. m - 1 : q[i] = r[i + 1]
  BY <1>2, <1>3, RingDrops
<1>5. r \in Seq(Char) /\ Len(r) = m /\ r # << >> /\ r[1] = tx_buf[tx_out]
  <2>1. r \in Seq(Char) /\ Len(r) = m /\ \A i \in 1 .. m : r[i] = tx_buf[Up(tx_out, i - 1)]
    BY <1>2, RingIs
  <2>2. Up(tx_out, 0) = tx_out
    <3>1. 0 \in 0 .. BufLen /\ tx_out + 0 < BufLen /\ tx_out + 0 = tx_out
      BY <1>2 DEF Slots
    <3> QED BY <1>2, <3>1, UpIs
  <2>3. r[1] = tx_buf[tx_out]  BY <1>3, <2>1, <2>2
  <2>4. r # << >>  BY <1>3, <2>1, EmptySeq
  <2> QED BY <2>1, <2>3, <2>4
<1>6. q \in Seq(Char) /\ Len(q) = m - 1
  <2> DEFINE f == Up(tx_out, 1)
  <2>1. f \in Slots /\ Used(tx_in, f) = m - 1  BY <1>4
  <2> HIDE DEF f
  <2>2. Ring(tx_buf, f, tx_in) \in Seq(Char) /\ Len(Ring(tx_buf, f, tx_in)) = m - 1
    BY <1>2, <2>1, RingIs
  <2> QED BY <2>2 DEF f
<1>7. /\ Tail(r) \in Seq(Char) /\ Len(Tail(r)) = m - 1
      /\ \A i \in 1 .. m - 1 : Tail(r)[i] = r[i + 1]
  BY <1>5, HeadTailProperties
<1> HIDE DEF q, r, m
<1>8. q = Tail(r) /\ Head(r) = tx_buf[tx_out]
  <2>1. \A i \in 1 .. Len(q) : q[i] = Tail(r)[i]  BY <1>4, <1>6, <1>7
  <2>2. Len(q) = Len(Tail(r))  BY <1>6, <1>7
  <2> QED BY <1>5, <1>6, <1>7, <2>1, <2>2, SeqEqual
<1>9. OutStream' = OutStream
  <2>1. Append(txFifo, Head(r)) \o Tail(r) = txFifo \o r  BY <1>2, <1>5, MoveChar
  <2>2. OutStream = txFifo \o r  BY DEF OutStream, r
  <2>3. OutStream' = Append(txFifo, tx_buf[tx_out]) \o q
    BY <1>1 DEF OutStream, q, Ring, Up
  <2> QED BY <1>8, <2>1, <2>2, <2>3
<1>10. InStream' = InStream  BY <1>1 DEF InStream, Ring, Up
<1>11. JtagTypes'
  <2>1. isr' \in IsrStates  BY <1>1 DEF JtagTypes, IsrStates
  <2>2. txFifo' \in Seq(Char)  BY <1>1, <1>2, AppendProperties
  <2> QED BY <1>1, <1>4, <2>1, <2>2 DEF JtagTypes
<1>12. Copying'  BY <1>1 DEF Copying, Used, Up
<1>13. Filling'
  <2>1. Used(tx_in', tx_out') = m - 1  BY <1>1, <1>4
  <2>2. at \in {"fill", "publish"} => n + (m - 1) < BufLen
    <3>1. at \in {"fill", "publish"} => n + m < BufLen  BY DEF Filling, m
    <3>2. n \in Nat  BY DEF JtagTypes
    <3> QED BY <1>2, <1>3, <3>1, <3>2
  <2> QED BY <1>1, <2>1, <2>2 DEF Filling
<1> QED BY <1>9, <1>10, <1>11, <1>12, <1>13 DEF Moves, Flows

\* The rest of the handler moves no bytes.
LEMMA ControlStep ==
  ASSUME Sound, ReadControl \/ NoByte \/ RxDone \/ TxDone
  PROVE  Sound' /\ Moves
<1> USE DEF Sound
<1>1. UNCHANGED <<rxFifo, txFifo, rx_in, rx_out, rx_buf, tx_in, tx_out, tx_buf, hostNext,
                  at, in, out, n, left, moved, chunk, progNext>>
  BY DEF ReadControl, NoByte, RxDone, TxDone, Handler, coreVars, rxVars, txVars, callVars,
         hostVars
<1>2. control' = irq_enable'
  BY DEF ReadControl, NoByte, RxDone, TxDone, Handler, coreVars, JtagTypes
<1>3. isr' \in IsrStates
  <2>1. CASE ReadControl
    <3> DEFINE r == ReadPending
               w == WritePending
               d == JtagDepth - Len(txFifo)
    <3>1. r \in BOOLEAN /\ w \in BOOLEAN  BY DEF ReadPending, WritePending
    <3>2. d \in Int  BY JtagAssumption DEF JtagTypes
    <3>3. \/ isr' = [at |-> "read", ri |-> r, wi |-> w, avail |-> TRUE, space |-> d]
          \/ isr' = Quiet
      BY <2>1 DEF ReadControl
    <3> HIDE DEF r, w, d
    <3>4. CASE isr' = Quiet  BY <3>4 DEF Quiet, IsrStates
    <3>5. CASE isr' = [at |-> "read", ri |-> r, wi |-> w, avail |-> TRUE, space |-> d]
      BY <3>1, <3>2, <3>5, Zenon DEF IsrStates
    <3> QED BY <3>3, <3>4, <3>5
  <2>2. CASE NoByte \/ RxDone \/ TxDone
    <3>1. \/ isr' = [isr EXCEPT !.avail = FALSE, !.at = "write"]
          \/ isr' = [isr EXCEPT !.at = "write"]
          \/ isr' = [isr EXCEPT !.at = "again"]
      BY <2>2 DEF NoByte, RxDone, TxDone, Handler
    <3> QED BY <3>1 DEF JtagTypes, IsrStates
  <2> QED BY <2>1, <2>2
<1>4. JtagTypes'  BY <1>1, <1>2, <1>3 DEF JtagTypes
<1>5. Copying' /\ Filling'  BY <1>1 DEF Copying, Filling, Used, Up
<1> QED BY <1>1, <1>4, <1>5, Rests DEF rxVars, txVars

\* What the program does between the rings is its own business.
LEMMA ProgramRests ==
  ASSUME Sound,
         Read \/ Write \/ Close \/ ReadLook \/ ReadCopy \/ ReadLooked \/ ReadAwait
           \/ ReadReceive \/ WriteRoom \/ WriteSend \/ WriteSpin \/ CloseWait
  PROVE  /\ UNCHANGED <<rxFifo, txFifo, rx_in, rx_out, rx_buf, tx_in, tx_out, tx_buf,
                        hostNext, progNext, isr>>
         /\ control' = irq_enable'
         /\ Moves
<1>1. UNCHANGED <<rxFifo, txFifo, rx_in, rx_out, rx_buf, tx_in, tx_out, tx_buf,
                  hostNext, progNext, isr>>
  BY DEF Read, Write, Close, Begin, ReadLook, ReadCopy, ReadLooked, ReadAwait, ReadReceive,
         WriteRoom, WriteSend, WriteSpin, CloseWait, Program, NoMove, rxVars, txVars, hostVars
<1>2. control' = irq_enable'
  BY DEF Read, Write, Close, Begin, ReadLook, ReadCopy, ReadLooked, ReadAwait, ReadReceive,
         WriteRoom, WriteSend, WriteSpin, CloseWait, Program, NoMove, Sound, JtagTypes
<1> QED BY <1>1, <1>2, Rests DEF rxVars, txVars

\* A call begins, waits or returns.
LEMMA CallStep ==
  ASSUME Sound,
         Read \/ Write \/ Close \/ ReadLooked \/ ReadAwait \/ ReadReceive
           \/ WriteSend \/ WriteSpin \/ CloseWait
  PROVE  Sound' /\ Moves
<1> USE DEF Sound
<1>1. /\ UNCHANGED <<rxFifo, txFifo, rx_in, rx_out, rx_buf, tx_in, tx_out, tx_buf,
                     hostNext, progNext, isr>>
      /\ control' = irq_enable' /\ Moves
  BY ProgramRests
<1>2. 0 \in Slots  BY JtagAssumption DEF Slots
<1>3. /\ in' \in Slots /\ out' \in Slots /\ n' \in Nat /\ left' \in Nat
      /\ at' \in Places \ {"copy", "release", "fill", "publish"}
      /\ at' \in {"look", "await", "room", "spin"} => left' > 0
      /\ at' # "looked"
  <2>1. CASE Read \/ Write \/ Close
    BY <2>1, JtagAssumption DEF Read, Write, Close, Begin, Program, Places, JtagTypes
  <2>2. CASE ReadLooked
    <3>1. CASE Answer  BY <1>2, <3>1 DEF Answer, Places
    <3>2. CASE moved /\ at' = "receive" /\ UNCHANGED <<in, out, n, left>>
      BY <3>2 DEF Places, JtagTypes
    <3>3. CASE ~moved /\ at' = "await" /\ UNCHANGED <<in, out, n, left>>
      <4>1. at = "looked"  BY <2>2 DEF ReadLooked, Program
      <4>2. left > 0  BY <3>3, <4>1 DEF Filling
      <4> QED BY <3>3, <4>2 DEF Places, JtagTypes
    <3> QED BY <2>2, <3>1, <3>2, <3>3 DEF ReadLooked, Program
  <2>3. CASE ReadAwait
    <3>1. CASE Answer  BY <1>2, <3>1 DEF Answer, Places
    <3>2. CASE at' = "look" /\ UNCHANGED <<in, out, n, left>>
      <4>1. at = "await"  BY <2>3 DEF ReadAwait, Program
      <4> QED BY <3>2, <4>1 DEF Places, JtagTypes, Filling
    <3> QED BY <2>3, <3>1, <3>2 DEF ReadAwait, Program
  <2>4. CASE ReadReceive  BY <1>2, <2>4 DEF ReadReceive, Program, Answer, Places
  <2>5. CASE WriteSend
    BY <1>2, <2>5 DEF WriteSend, Program, Answer, Places, JtagTypes
  <2>6. CASE WriteSpin
    BY <1>2, <2>6 DEF WriteSpin, Program, Answer, Places, JtagTypes, Filling
  <2>7. CASE CloseWait  BY <1>2, <2>7 DEF CloseWait, Program, Answer, Places
  <2> QED BY <2>1, <2>2, <2>3, <2>4, <2>5, <2>6, <2>7
<1>4. JtagTypes'  BY <1>1, <1>3 DEF JtagTypes
<1>5. Copying' /\ Filling'  BY <1>3 DEF Copying, Filling
<1> QED BY <1>1, <1>4, <1>5

\* What bounds a number bounds a smaller one.
LEMMA AtMost ==
  ASSUME NEW x \in Int, NEW s \in Int, NEW m \in Int, NEW p \in Int, NEW b \in Int,
         x <= s, s <= m, p + s <= b
  PROVE  x <= m /\ p + x <= b
  OBVIOUS

\* What fits beside others still fits when there is less of it.
LEMMA StillFits ==
  ASSUME NEW x \in Int, NEW s \in Int, NEW m \in Int, NEW p \in Int, NEW b \in Int,
         x <= s, s + m < b, p + s <= b
  PROVE  x + m < b /\ p + x <= b
  OBVIOUS

\* A read measures what it can copy in one piece, and copies it.
LEMMA ReadStep ==
  ASSUME Sound, ReadLook \/ ReadCopy
  PROVE  Sound' /\ Moves
<1> USE DEF Sound
<1>1. /\ UNCHANGED <<rxFifo, txFifo, rx_in, rx_out, rx_buf, tx_in, tx_out, tx_buf,
                     hostNext, progNext, isr>>
      /\ control' = irq_enable' /\ Moves
  BY ProgramRests
<1>2. /\ rx_in \in Slots /\ rx_out \in Slots /\ BufLen \in Nat /\ BufLen > 1
      /\ n \in Nat /\ left \in Nat /\ in \in Slots /\ out \in Slots
  BY JtagAssumption DEF JtagTypes
<1>3. CASE ReadLook
  <2> DEFINE s == Stored(rx_in, rx_out)
             m == Used(rx_in, rx_out)
  <2>1. /\ in' = rx_in /\ out' = rx_out /\ n' = Least(s, left) /\ left' = left
        /\ moved' = moved
        /\ at = "look" /\ at' = IF s = 0 THEN "looked" ELSE "copy"
    BY <1>3 DEF ReadLook, Program
  <2>2. left > 0  BY <2>1 DEF Filling
  <2>3. /\ rx_in >= rx_out => m = rx_in - rx_out
        /\ rx_in < rx_out => m = rx_in + BufLen - rx_out
    BY <1>2, UsedIs
  <2>4. s \in Nat /\ s <= m /\ rx_out + s <= BufLen
    BY <1>2, <2>3 DEF Stored, Slots
  <2>5. /\ n' \in Nat /\ n' <= left /\ n' <= m /\ rx_out + n' <= BufLen
        /\ s # 0 => n' >= 1
    <3> HIDE DEF s, m
    <3>1. n' \in {s, left} /\ n' <= s /\ n' <= left  BY <1>2, <2>1, <2>4 DEF Least
    <3>2. m \in Int /\ rx_out \in Int  BY <1>2, <2>3 DEF Slots
    <3>3. n' \in Nat /\ (s # 0 => n' >= 1)
      <4>1. s \in Nat /\ left \in Nat /\ left >= 1  BY <1>2, <2>2, <2>4
      <4>2. CASE n' = s  BY <4>1, <4>2
      <4>3. CASE n' = left  BY <4>1, <4>3
      <4> QED BY <3>1, <4>2, <4>3
    <3>4. /\ n' \in Int /\ s \in Int /\ m \in Int /\ rx_out \in Int /\ BufLen \in Int
          /\ n' <= s /\ s <= m /\ rx_out + s <= BufLen
      BY <1>2, <2>4, <3>1, <3>2, <3>3
    <3>5. n' <= m /\ rx_out + n' <= BufLen  BY <3>4, AtMost
    <3> QED BY <3>1, <3>3, <3>5
  <2>6. JtagTypes'  BY <1>1, <1>2, <2>1, <2>5 DEF JtagTypes, Places
  <2>7. Copying'
    <3>1. Used(rx_in, rx_out)' = m  BY <1>1 DEF Used, Up
    <3> HIDE DEF s, m
    <3> QED BY <1>1, <2>1, <2>5, <3>1 DEF Copying
  <2>8. Filling'
    <3> HIDE DEF s, m
    <3> QED BY <2>1, <2>2 DEF Filling
  <2> QED BY <1>1, <2>6, <2>7, <2>8
<1>4. CASE ReadCopy
  <2>1. /\ chunk' = [i \in 1 .. n |-> rx_buf[out + i - 1]]
        /\ at = "copy" /\ at' = "release" /\ UNCHANGED <<in, out, n, left, moved>>
    BY <1>4 DEF ReadCopy, Program
  <2>2. JtagTypes'  BY <1>1, <2>1 DEF JtagTypes, Places
  <2>3. Copying'  BY <1>1, <2>1 DEF Copying, Used, Up
  <2>4. Filling'  BY <2>1 DEF Filling
  <2> QED BY <1>1, <2>2, <2>3, <2>4
<1> QED BY <1>3, <1>4

\* A read gives the places it has copied back to the handler.
LEMMA ReleaseStep ==
  ASSUME Sound, ReadRelease
  PROVE  Sound' /\ Moves
<1> USE DEF Sound
<1>1. /\ rx_out' = Up(out, n) /\ left' = left - n
      /\ at = "release" /\ at' = (IF left' > 0 THEN "look" ELSE "looked")
      /\ moved' = TRUE
      /\ UNCHANGED <<rxFifo, txFifo, rx_in, rx_buf, tx_in, tx_out, tx_buf, hostNext,
                     progNext, isr, in, out, n>>
      /\ control' = irq_enable'
  BY DEF ReadRelease, Program, txVars, hostVars, JtagTypes
<1>2. /\ rx_in \in Slots /\ rx_out \in Slots /\ rx_buf \in [Slots -> Char]
      /\ rxFifo \in Seq(Char) /\ n \in Nat /\ left \in Nat /\ BufLen \in Nat
  BY JtagAssumption DEF JtagTypes
<1> DEFINE m == Used(rx_in, rx_out)
<1>3. out = rx_out /\ n >= 1 /\ n <= left /\ n <= m  BY <1>1 DEF Copying
<1>4. m \in Nat
  <2>1. m \in Slots  BY <1>2, UsedIs
  <2> HIDE DEF m
  <2> QED BY <2>1 DEF Slots
<1>5. n \in 1 .. m  BY <1>2, <1>3, <1>4
<1> DEFINE r == Ring(rx_buf, rx_out, rx_in)
           q == Ring(rx_buf, Up(rx_out, n), rx_in)
<1>6. /\ Up(rx_out, n) \in Slots /\ Used(rx_in, Up(rx_out, n)) = m - n
      /\ \A i \in 1 .. m - n : q[i] = r[i + n]
  BY <1>2, <1>5, RingDrops
<1>7. r \in Seq(Char) /\ Len(r) = m  BY <1>2, RingIs
<1>8. q \in Seq(Char) /\ Len(q) = m - n
  <2> DEFINE f == Up(rx_out, n)
  <2>1. f \in Slots /\ Used(rx_in, f) = m - n  BY <1>6
  <2> HIDE DEF f, m
  <2>2. Ring(rx_buf, f, rx_in) \in Seq(Char) /\ Len(Ring(rx_buf, f, rx_in)) = m - n
    BY <1>2, <2>1, RingIs
  <2> QED BY <2>2 DEF f
<1> HIDE DEF q, r, m
<1>9. Dropped(q, r)
  <2>1. Len(q) < Len(r) /\ Len(r) - Len(q) = n  BY <1>2, <1>3, <1>4, <1>7, <1>8
  <2> QED BY <1>6, <1>8, <2>1 DEF Dropped
<1>10. Dropped(q \o rxFifo, r \o rxFifo)  BY <1>2, <1>7, <1>8, <1>9, DroppedBefore
<1>11. InStream = r \o rxFifo /\ InStream' = q \o rxFifo
  BY <1>1, <1>3 DEF InStream, r, q, Ring, Up
<1>12. OutStream' = OutStream  BY <1>1 DEF OutStream, Ring, Up
<1>13. left' \in Nat  BY <1>1, <1>2, <1>3
<1>14. JtagTypes'
  <2>1. rx_out' \in Slots  BY <1>1, <1>3, <1>6
  <2> QED BY <1>1, <1>13, <2>1 DEF JtagTypes, Places
<1>15. Copying'  BY <1>1 DEF Copying
<1>16. Filling'
  <2>1. at' \in {"look", "looked"} /\ (at' = "look" => left' > 0)  BY <1>1
  <2> QED BY <1>1, <2>1 DEF Filling
<1> QED BY <1>10, <1>11, <1>12, <1>14, <1>15, <1>16 DEF Moves, Flows

\* A write measures what it can fill in one piece.
LEMMA RoomStep ==
  ASSUME Sound, WriteRoom
  PROVE  Sound' /\ Moves
<1> USE DEF Sound
<1>1. /\ UNCHANGED <<rxFifo, txFifo, rx_in, rx_out, rx_buf, tx_in, tx_out, tx_buf,
                     hostNext, progNext, isr>>
      /\ control' = irq_enable' /\ Moves
  BY ProgramRests
<1>2. /\ tx_in \in Slots /\ tx_out \in Slots /\ BufLen \in Nat /\ BufLen > 1
      /\ left \in Nat
  BY JtagAssumption DEF JtagTypes
<1> DEFINE s == Space(tx_in, tx_out)
           m == Used(tx_in, tx_out)
<1>3. /\ in' = tx_in /\ out' = tx_out /\ n' = Least(s, left) /\ left' = left
      /\ at = "room" /\ at' = IF s = 0 THEN "send" ELSE "fill"
  BY DEF WriteRoom, Program
<1>4. left > 0  BY <1>3 DEF Filling
<1>5. /\ tx_in >= tx_out => m = tx_in - tx_out
      /\ tx_in < tx_out => m = tx_in + BufLen - tx_out
  BY <1>2, UsedIs
<1>6. s \in Nat /\ s + m < BufLen /\ tx_in + s <= BufLen
  BY <1>2, <1>5 DEF Space, Slots
<1>7. /\ n' \in Nat /\ n' <= left /\ n' + m < BufLen /\ tx_in + n' <= BufLen
      /\ s # 0 => n' >= 1
  <2>1. m \in Int /\ tx_in \in Int  BY <1>2, <1>5 DEF Slots
  <2> HIDE DEF s, m
  <2>2. n' \in {s, left} /\ n' <= s /\ n' <= left  BY <1>2, <1>3, <1>6 DEF Least
  <2>3. n' \in Nat /\ (s # 0 => n' >= 1)
    <3>1. s \in Nat /\ left \in Nat /\ left >= 1  BY <1>2, <1>4, <1>6
    <3>2. CASE n' = s  BY <3>1, <3>2
    <3>3. CASE n' = left  BY <3>1, <3>3
    <3> QED BY <2>2, <3>2, <3>3
  <2>4. /\ n' \in Int /\ s \in Int /\ m \in Int /\ tx_in \in Int /\ BufLen \in Int
        /\ n' <= s /\ s + m < BufLen /\ tx_in + s <= BufLen
    BY <1>2, <1>6, <2>1, <2>2, <2>3
  <2>5. n' + m < BufLen /\ tx_in + n' <= BufLen  BY <2>4, StillFits
  <2> QED BY <2>2, <2>3, <2>5
<1>8. JtagTypes'  BY <1>1, <1>2, <1>3, <1>7 DEF JtagTypes, Places
<1>9. Copying'
  <2> HIDE DEF s, m
  <2> QED BY <1>3 DEF Copying
<1>10. Filling'
  <2>1. Used(tx_in, tx_out)' = m  BY <1>1 DEF Used, Up
  <2> HIDE DEF s, m
  <2>2. at' \in {"send", "fill"} /\ (at' = "fill" => s # 0)  BY <1>3
  <2>3. at' \in {"fill", "publish"} =>
          in' = tx_in' /\ n' >= 1 /\ in' + n' <= BufLen /\ n' + Used(tx_in, tx_out)' < BufLen
    BY <1>1, <1>3, <1>7, <2>1, <2>2
  <2>4. n' <= left'  BY <1>3, <1>7
  <2> QED BY <2>2, <2>3, <2>4 DEF Filling
<1> QED BY <1>1, <1>8, <1>9, <1>10

\* A write fills places that the handler does not read.
LEMMA FillStep ==
  ASSUME Sound, WriteFill
  PROVE  Sound' /\ Moves
<1> USE DEF Sound
<1>1. /\ tx_buf' = [i \in DOMAIN tx_buf |-> IF i \in in .. in + n - 1
                                            THEN ((progNext + i - in) % Numbers) ELSE tx_buf[i]]
      /\ progNext' = ((progNext + n) % Numbers) /\ left' = left - n
      /\ at = "fill" /\ at' = "publish"
      /\ UNCHANGED <<rxFifo, txFifo, rx_in, rx_out, rx_buf, tx_in, tx_out, hostNext, isr,
                     in, out, n>>
      /\ control' = irq_enable'
  BY DEF WriteFill, Program, rxVars, hostVars, JtagTypes
<1>2. /\ tx_in \in Slots /\ tx_out \in Slots /\ BufLen \in Nat /\ BufLen > 1
      /\ left \in Nat /\ n \in Nat /\ tx_buf \in [Slots -> Char] /\ txFifo \in Seq(Char)
      /\ progNext \in Nat /\ Numbers \in Nat \ {0}
  BY JtagAssumption DEF JtagTypes, Char
<1>3. /\ in = tx_in /\ n >= 1 /\ in + n <= BufLen /\ n + Used(tx_in, tx_out) < BufLen
      /\ n <= left
  BY <1>1 DEF Filling
<1>4. /\ tx_buf' \in [Slots -> Char]
      /\ \A p \in Slots : p \notin tx_in .. tx_in + n - 1 => tx_buf'[p] = tx_buf[p]
  <2>1. \A i \in Slots : i \in in .. in + n - 1 => ((progNext + i - in) % Numbers) \in Char
    <3> SUFFICES ASSUME NEW i \in Slots PROVE ((progNext + i - in) % Numbers) \in Char
      OBVIOUS
    <3> DEFINE x == progNext + i - in
    <3>1. x \in Int  BY <1>2, <1>3 DEF Slots
    <3> HIDE DEF x
    <3>2. (x % Numbers) \in Char  BY <1>2, <3>1 DEF Char
    <3> QED BY <3>2 DEF x
  <2>2. DOMAIN tx_buf = Slots  BY <1>2
  <2> QED BY <1>1, <1>2, <1>3, <2>1, <2>2
<1>5. Ring(tx_buf', tx_out, tx_in) = Ring(tx_buf, tx_out, tx_in)
  <2> DEFINE b == tx_buf'
             q == Ring(b, tx_out, tx_in)
             r == Ring(tx_buf, tx_out, tx_in)
  <2>1. b \in [Slots -> Char]  BY <1>4
  <2>2. /\ r \in Seq(Char) /\ Len(r) = Used(tx_in, tx_out)
        /\ \A i \in 1 .. Used(tx_in, tx_out) : r[i] = tx_buf[Up(tx_out, i - 1)]
    BY <1>2, RingIs
  <2>3. /\ q \in Seq(Char) /\ Len(q) = Used(tx_in, tx_out)
        /\ \A i \in 1 .. Used(tx_in, tx_out) : q[i] = b[Up(tx_out, i - 1)]
    <3> HIDE DEF b
    <3> QED BY <1>2, <2>1, RingIs
  <2>4. \A i \in 1 .. Len(q) : q[i] = r[i]
    <3> SUFFICES ASSUME NEW i \in 1 .. Used(tx_in, tx_out) PROVE q[i] = r[i]  BY <2>3
    <3>1. Up(tx_out, i - 1) \in Slots /\ Up(tx_out, i - 1) \notin tx_in .. tx_in + n - 1
      BY <1>2, <1>3, FreePlaces
    <3> QED BY <1>4, <2>2, <2>3, <3>1
  <2> HIDE DEF q, r
  <2>5. q = r  BY <2>2, <2>3, <2>4, SeqEqual
  <2> QED BY <2>5 DEF q, r
<1>6. OutStream' = OutStream /\ InStream' = InStream
  BY <1>1, <1>5 DEF OutStream, InStream, Ring, Up
<1>7. left' \in Nat  BY <1>1, <1>2, <1>3
<1>8. progNext' \in Char
  <2> DEFINE x == progNext + n
  <2>1. x \in Int  BY <1>2
  <2> HIDE DEF x
  <2>2. (x % Numbers) \in Char  BY <1>2, <2>1 DEF Char
  <2> QED BY <1>1, <2>2 DEF x
<1>9. JtagTypes'  BY <1>1, <1>4, <1>7, <1>8 DEF JtagTypes, Places
<1>10. Copying'  BY <1>1 DEF Copying
<1>11. Filling'  BY <1>1, <1>3 DEF Filling, Used, Up
<1> QED BY <1>6, <1>9, <1>10, <1>11 DEF Moves, Flows

\* A write hands the places it has filled to the handler.
LEMMA PublishStep ==
  ASSUME Sound, WritePublish
  PROVE  Sound' /\ Moves
<1> USE DEF Sound
<1>1. /\ tx_in' = Up(in, n) /\ at = "publish"
      /\ at' = (IF left > 0 THEN "room" ELSE "send")
      /\ UNCHANGED <<rxFifo, txFifo, rx_in, rx_out, rx_buf, tx_out, tx_buf, hostNext, isr,
                     in, out, n, left, progNext>>
      /\ control' = irq_enable'
  BY DEF WritePublish, Program, rxVars, hostVars, JtagTypes
<1>2. /\ tx_in \in Slots /\ tx_out \in Slots /\ BufLen \in Nat
      /\ n \in Nat /\ tx_buf \in [Slots -> Char] /\ txFifo \in Seq(Char)
  BY JtagAssumption DEF JtagTypes
<1> DEFINE m == Used(tx_in, tx_out)
           r == Ring(tx_buf, tx_out, tx_in)
           t == Up(tx_in, n)
           q == Ring(tx_buf, tx_out, t)
<1>3. in = tx_in /\ n >= 1 /\ tx_in + n <= BufLen /\ n + m < BufLen
  BY <1>1 DEF Filling
<1>4. n \in Nat \ {0} /\ SameElsewhere(tx_buf, tx_buf, tx_in, n)
  BY <1>2, <1>3 DEF SameElsewhere
<1>5. /\ t \in Slots /\ Used(t, tx_out) = m + n
      /\ \A i \in 1 .. m : q[i] = r[i]
  BY <1>2, <1>3, <1>4, RingGrows
<1>6. r \in Seq(Char) /\ Len(r) = m  BY <1>2, RingIs
<1>7. q \in Seq(Char) /\ Len(q) = m + n
  <2> HIDE DEF t, m
  <2> QED BY <1>2, <1>5, RingIs
<1>8. m \in Nat
  <2>1. m \in Slots  BY <1>2, UsedIs
  <2> HIDE DEF m
  <2> QED BY <2>1 DEF Slots
<1> HIDE DEF q, r, m
<1>9. Grown(r, q)
  <2>1. Len(r) < Len(q)  BY <1>2, <1>3, <1>6, <1>7, <1>8
  <2> QED BY <1>5, <1>6, <2>1 DEF Grown
<1>10. Grown(txFifo \o r, txFifo \o q)  BY <1>2, <1>6, <1>7, <1>9, GrownAfter
<1>11. OutStream = txFifo \o r /\ OutStream' = txFifo \o q
  BY <1>1, <1>3 DEF OutStream, r, q, Ring, Up
<1>12. InStream' = InStream  BY <1>1 DEF InStream, Ring, Up
<1>13. JtagTypes'
  <2>1. tx_in' \in Slots  BY <1>1, <1>3, <1>5
  <2> QED BY <1>1, <2>1 DEF JtagTypes, Places
<1>14. Copying'  BY <1>1 DEF Copying
<1>15. Filling'
  <2>1. at' \in {"room", "send"} /\ (at' = "room" => left' > 0)  BY <1>1
  <2> QED BY <2>1 DEF Filling
<1> QED BY <1>10, <1>11, <1>12, <1>13, <1>14, <1>15 DEF Moves, Flows

---------------------------------------------------------------------------
(* Every step *)

LEMMA InitJtag == JtagInit => JtagInv /\ InStream = << >> /\ OutStream = << >>
<1> SUFFICES ASSUME JtagInit PROVE JtagInv /\ InStream = << >> /\ OutStream = << >>
  OBVIOUS
<1>1. 0 \in Slots /\ 0 \in Char  BY JtagAssumption DEF Slots, Char
<1>2. Up(0, BufLen - 0) = 0 /\ Up(0, 1) # 0  BY JtagAssumption DEF Up
<1>3. \A b : Ring(b, 0, 0) = << >>  BY <1>2 DEF Ring
<1>4. InStream = << >> /\ OutStream = << >>
  BY <1>3 DEF JtagInit, InStream, OutStream
<1>5. JtagTypes
  <2>1. Quiet \in IsrStates  BY JtagAssumption DEF Quiet, IsrStates
  <2> QED BY <1>1, <2>1 DEF JtagInit, JtagTypes, Slots, Places
<1>6. Copying /\ Filling  BY DEF JtagInit, Copying, Filling
<1>7. Awake  BY DEF JtagInit, Awake, NoLostWakeup, Quiet
<1> QED BY <1>4, <1>5, <1>6, <1>7 DEF JtagInv

LEMMA NextJtag ==
  ASSUME JtagInv, [JtagNext]_jtagVars
  PROVE  JtagInv' /\ Moves
<1> USE DEF JtagInv
<1>1. CASE Plug \/ HostPolls \/ HostSends \/ HostTakes \/ Timeout
             \/ \E t \in Timeouts \cup {0} : SetTimeout(t)
  BY <1>1, AwakeHost, HostStep DEF Sound
<1>2. CASE Isr
  BY <1>2, AwakeIsr, TakeStep, GiveStep, ControlStep DEF Sound, Isr
<1>3. CASE Read \/ Write \/ Close \/ InCall
  BY <1>3, AwakeProgram, CallStep, ReadStep, ReleaseStep, RoomStep, FillStep, PublishStep
     DEF Sound, InCall
<1>4. CASE UNCHANGED jtagVars
  <2>1. JtagTypes' /\ Copying' /\ Filling' /\ Awake'
    BY <1>4 DEF jtagVars, hostVars, coreVars, rxVars, txVars, aliveVars, callVars, JtagTypes,
            Copying, Filling, Awake, NoLostWakeup, Used, Up
  <2>2. InStream' = InStream /\ OutStream' = OutStream
    BY <1>4 DEF jtagVars, coreVars, rxVars, txVars, InStream, OutStream, Ring, Up
  <2> QED BY <2>1, <2>2 DEF Moves, Flows
<1> QED BY <1>1, <1>2, <1>3, <1>4 DEF JtagNext

LEMMA StreamsType ==
  ASSUME JtagTypes
  PROVE  InStream \in Seq(Char) /\ OutStream \in Seq(Char)
<1> DEFINE r == Ring(rx_buf, rx_out, rx_in)
           t == Ring(tx_buf, tx_out, tx_in)
<1>1. r \in Seq(Char) /\ t \in Seq(Char)  BY RingIs DEF JtagTypes
<1>2. rxFifo \in Seq(Char) /\ txFifo \in Seq(Char)  BY DEF JtagTypes
<1> HIDE DEF r, t
<1>3. r \o rxFifo \in Seq(Char) /\ txFifo \o t \in Seq(Char)  BY <1>1, <1>2
<1> QED BY <1>3 DEF InStream, OutStream, r, t

\* What flows is put or taken.
LEMMA FlowsIsStep ==
  ASSUME NEW s \in Seq(Char), NEW t \in Seq(Char), Flows(s, t)
  PROVE  IsStrictPrefix(s, t) \/ IsStrictSuffix(t, s) \/ t = s
BY GrownIsPut, DroppedIsTake DEF Flows

\* The two pipes.
LEMMA NextPipes ==
  ASSUME JtagInv, [JtagNext]_jtagVars
  PROVE  /\ [Received!Put \/ Received!Take]_InStream
         /\ [Sent!Put \/ Sent!Take]_OutStream
<1>1. JtagTypes /\ JtagTypes' /\ Moves  BY NextJtag DEF JtagInv
<1> DEFINE s == InStream
           t == InStream'
           u == OutStream
           v == OutStream'
<1>2. s \in Seq(Char) /\ u \in Seq(Char)  BY <1>1, StreamsType
<1>3. t \in Seq(Char) /\ v \in Seq(Char)
  <2> DEFINE q == Ring(rx_buf', rx_out', rx_in')
             r == Ring(tx_buf', tx_out', tx_in')
  <2>1. q \in Seq(Char) /\ r \in Seq(Char)
    <3>1. /\ rx_buf' \in [Slots -> Char] /\ rx_out' \in Slots /\ rx_in' \in Slots
          /\ tx_buf' \in [Slots -> Char] /\ tx_out' \in Slots /\ tx_in' \in Slots
      BY <1>1 DEF JtagTypes, Slots, Char
    <3> QED BY <3>1, RingIs
  <2>2. rxFifo' \in Seq(Char) /\ txFifo' \in Seq(Char)  BY <1>1 DEF JtagTypes, Char
  <2>3. t = q \o rxFifo' /\ v = txFifo' \o r  BY DEF InStream, OutStream, Ring, Up
  <2> HIDE DEF q, r, t, v
  <2>4. q \o rxFifo' \in Seq(Char) /\ txFifo' \o r \in Seq(Char)  BY <2>1, <2>2
  <2> QED BY <2>3, <2>4
<1>4. Flows(s, t) /\ Flows(u, v)  BY <1>1 DEF Moves
<1> HIDE DEF s, t, u, v
<1>5. /\ IsStrictPrefix(s, t) \/ IsStrictSuffix(t, s) \/ t = s
      /\ IsStrictPrefix(u, v) \/ IsStrictSuffix(v, u) \/ v = u
  BY <1>2, <1>3, <1>4, FlowsIsStep
<1>6. /\ IsStrictPrefix(s, t) => Received!Put
      /\ IsStrictSuffix(t, s) => Received!Take
  BY DEF s, t, InStream, Received!Put, Received!Take, IsStrictPrefix, IsStrictSuffix, IsPrefix,
         IsSuffix, Reverse, Received!IsStrictPrefix, Received!IsStrictSuffix,
         Received!IsPrefix, Received!IsSuffix, Received!Reverse
<1>7. /\ IsStrictPrefix(u, v) => Sent!Put
      /\ IsStrictSuffix(v, u) => Sent!Take
  BY DEF u, v, OutStream, Sent!Put, Sent!Take, IsStrictPrefix, IsStrictSuffix, IsPrefix,
         IsSuffix, Reverse, Sent!IsStrictPrefix, Sent!IsStrictSuffix,
         Sent!IsPrefix, Sent!IsSuffix, Sent!Reverse
<1> QED BY <1>5, <1>6, <1>7 DEF s, t, u, v

\* What a read has copied is the oldest bytes of its ring.
LEMMA ReadsOldestHolds == JtagInv => ReadsOldest
<1> SUFFICES ASSUME JtagInv, at = "release"
             PROVE  IsPrefix(chunk, Ring(rx_buf, rx_out, rx_in))
  BY DEF ReadsOldest
<1> DEFINE m == Used(rx_in, rx_out)
           r == Ring(rx_buf, rx_out, rx_in)
<1>1. /\ chunk = [i \in 1 .. n |-> rx_buf[rx_out + i - 1]]
      /\ n >= 1 /\ n <= m /\ rx_out + n <= BufLen
  BY DEF JtagInv, Copying
<1>2. /\ rx_in \in Slots /\ rx_out \in Slots /\ rx_buf \in [Slots -> Char] /\ n \in Nat
      /\ BufLen \in Nat
  BY JtagAssumption DEF JtagInv, JtagTypes
<1>3. /\ r \in Seq(Char) /\ Len(r) = m
      /\ \A i \in 1 .. m : r[i] = rx_buf[Up(rx_out, i - 1)]
  BY <1>2, RingIs
<1>4. m \in Nat
  <2>1. m \in Slots  BY <1>2, UsedIs
  <2> HIDE DEF m
  <2> QED BY <2>1 DEF Slots
<1>5. \A i \in 1 .. n : Up(rx_out, i - 1) = rx_out + i - 1
  <2> SUFFICES ASSUME NEW i \in 1 .. n PROVE Up(rx_out, i - 1) = rx_out + i - 1  OBVIOUS
  <2> DEFINE j == i - 1
  <2>1. j \in 0 .. BufLen /\ rx_out + j < BufLen  BY <1>1, <1>2 DEF Slots
  <2>2. Up(rx_out, j) = rx_out + j
    <3> HIDE DEF j
    <3> QED BY <1>2, <2>1, UpIs
  <2> QED BY <1>2, <2>2 DEF Slots
<1>6. Len(chunk) = n /\ \A i \in 1 .. n : chunk[i] = rx_buf[rx_out + i - 1]
  BY <1>1, <1>2
<1> HIDE DEF r, m
<1>7. \A i \in 1 .. n : r[i] \in Char /\ chunk[i] = r[i]
  <2> SUFFICES ASSUME NEW i \in 1 .. n PROVE r[i] \in Char /\ chunk[i] = r[i]  OBVIOUS
  <2>1. i \in 1 .. m  BY <1>1, <1>2, <1>4
  <2>2. r[i] \in Char  BY <1>3, <2>1, ElementOfSeq
  <2> QED BY <1>3, <1>5, <1>6, <2>1, <2>2
<1>8. chunk \in Seq(Char)
  <2>1. chunk = [i \in 1 .. n |-> chunk[i]]  BY <1>1, <1>6
  <2>2. \A i \in 1 .. n : chunk[i] \in Char  BY <1>7
  <2>3. [i \in 1 .. n |-> chunk[i]] \in [1 .. n -> Char]  BY <2>2
  <2> QED BY <1>2, <2>1, <2>3
<1>9. SubSeq(chunk, 1, n) = SubSeq(r, 1, n)
  <2> DEFINE a == SubSeq(chunk, 1, n)
             b == SubSeq(r, 1, n)
  <2>1. /\ a \in Seq(Char) /\ Len(a) = n
        /\ \A i \in 1 .. n : a[i] = chunk[i]
    BY <1>2, <1>7, SubSeqProperties
  <2>2. /\ b \in Seq(Char) /\ Len(b) = n
        /\ \A i \in 1 .. n : b[i] = r[i]
    BY <1>2, <1>7, SubSeqProperties
  <2> HIDE DEF a, b
  <2>3. a = b  BY <1>7, <2>1, <2>2, SeqEqual
  <2> QED BY <2>3 DEF a, b
<1>10. n <= Len(r)  BY <1>1, <1>3
<1>11. IsPrefix(chunk, r)  BY <1>6, <1>9, <1>10 DEF IsPrefix
<1> QED BY <1>11 DEF r

---------------------------------------------------------------------------
(* The two links together *)

LinksInv == LinkInv /\ JtagInv

\* A step of the links is a step of each, or leaves it alone.
LEMMA LinksStep ==
  ASSUME [LinksNext]_<<link, vars, jtagVars>>
  PROVE  [Next]_vars /\ [JtagNext]_jtagVars
BY DEF LinksNext

LEMMA LinksStart ==
  LinksInit => /\ Init /\ JtagInit
               /\ LinksInv /\ InStream = << >> /\ OutStream = << >>
BY InitLink, InitJtag DEF LinksInit, LinksInv, JtagIdle

LEMMA LinksKeep == LinksInv /\ [LinksNext]_<<link, vars, jtagVars>> => LinksInv'
<1> SUFFICES ASSUME LinksInv, [LinksNext]_<<link, vars, jtagVars>> PROVE LinksInv'
  OBVIOUS
<1>1. [Next]_vars /\ [JtagNext]_jtagVars  BY LinksStep
<1> QED BY <1>1, NextLink, NextJtag DEF LinksInv

\* Both links keep their invariants, whatever the sizes of their buffers.
THEOREM LinksInvariant == LinksSpec => []LinksInv
<1>1. LinksInit => LinksInv  BY LinksStart
<1>2. LinksInv /\ [LinksNext]_<<link, vars, jtagVars>> => LinksInv'  BY LinksKeep
<1> QED BY <1>1, <1>2, PTL DEF LinksSpec

\* In every behaviour of the two links, what make_command returns begins with
\* a command's letter, without loss no byte is read from an empty FIFO, and
\* only a lost byte misaligns it (rs232.c:32-60).
THEOREM LinksFramesHold == LinksSpec => []FramesHold
<1>1. LinksInit => Init  BY LinksStart
<1>2. [LinksNext]_<<link, vars, jtagVars>> => [Next]_vars  BY LinksStep
<1> QED BY <1>1, <1>2, FramesHoldAlways, PTL DEF LinksSpec, Spec

\* Interrupts that the handler has turned off are turned on again by the call
\* that removes the reason (altera_avalon_jtag_uart_read.c:172-178,
\* altera_avalon_jtag_uart_write.c:142-147).
THEOREM NoWakeupIsLost == LinksSpec => []NoLostWakeup
<1>1. LinksInv => NoLostWakeup  BY DEF LinksInv, JtagInv, Awake
<1> QED BY <1>1, LinksInvariant, PTL

\* Each ring with the core's FIFO behind it is a pipe between the host and the
\* program (altera_avalon_jtag_uart_init.c:106-197, _read.c:116-143,
\* _write.c:104-128).
THEOREM RingsArePipes == LinksSpec => ImplementsPipes
<1>1. LinksInit => Received!Init /\ Sent!Init
  BY LinksStart DEF Received!Init, Sent!Init, InStream, OutStream
<1>2. LinksInv /\ [LinksNext]_<<link, vars, jtagVars>> =>
        /\ [Received!Put \/ Received!Take]_InStream
        /\ [Sent!Put \/ Sent!Take]_OutStream
  <2> SUFFICES ASSUME LinksInv, [LinksNext]_<<link, vars, jtagVars>>
               PROVE  /\ [Received!Put \/ Received!Take]_InStream
                      /\ [Sent!Put \/ Sent!Take]_OutStream
    OBVIOUS
  <2> QED BY LinksStep, NextPipes DEF LinksInv
<1>3. LinksInv => ReadsOldest  BY ReadsOldestHolds DEF LinksInv
<1> QED BY <1>1, <1>2, <1>3, LinksInvariant, PTL
        DEF LinksSpec, ImplementsPipes, ImplementsReceive, ImplementsSend, Received!Spec,
            Sent!Spec, InStream, OutStream

\* Without loss the RS232 link is a channel of instructions, in every behaviour
\* of the links (rs232.c:22-60).
THEOREM LinksImplementChannel == LinksSpec => ImplementsChannel
<1>1. LinksInit => Init  BY LinksStart
<1>2. [LinksNext]_<<link, vars, jtagVars>> => [Next]_vars  BY LinksStep
<1> QED BY <1>1, <1>2, LinkImplementsChannel, PTL DEF LinksSpec, Spec
=============================================================================
