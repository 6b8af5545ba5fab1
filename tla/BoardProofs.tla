---------------------------- MODULE BoardProofs ----------------------------
(***************************************************************************)
(* Proofs about the line rasteriser (module Raster) and the render loop    *)
(* (module Board): a line contains both of its ends and stays between      *)
(* them, whatever the loop's rounding does on the way; the loop keeps its  *)
(* types, draws to the hidden buffer only and copies from inside the       *)
(* image; a full redraw repairs both buffers and removes a grid that was   *)
(* switched off; and a paced sender always sees the image on the screen.   *)
(*                                                                         *)
(* Walk, of Raster, is a recursive function.  That it exists and what it   *)
(* computes is shown by looking for the least iteration at which it would  *)
(* not.                                                                    *)
(***************************************************************************)
EXTENDS Board, WellFoundedInduction, TLAPS

---------------------------------------------------------------------------
(* Arithmetic *)

\* The least-number principle, for a set given as such.
LEMMA LeastNatural ==
  ASSUME NEW S \in SUBSET Nat, S # {}
  PROVE  \E m \in S : \A n \in S : m <= n
<1> DEFINE R == {ss \in Nat \X Nat : ss[1] < ss[2]}
<1>1. IsWellFoundedOn(R, Nat)
  BY NatLessThanWellFounded DEF OpToRel
<1>2. \E m \in S : \A n \in S : ~ (<<n, m>> \in R)
  <2> HIDE DEF R
  <2> QED BY <1>1, WFMin
<1>3. \A m, n \in S : ~ (<<n, m>> \in R) => m <= n
  OBVIOUS
<1> QED BY <1>2, <1>3

LEMMA NPixNat == NPix \in Nat
BY SizeAssumption, SMT DEF NPix

\* Products, kept apart from the linear arithmetic around them.
Times(a, b) == a * b

LEMMA TimesIs ==
  ASSUME NEW a \in Int, NEW b \in Int
  PROVE  /\ Times(a, b) \in Int /\ Times(0, b) = 0
         /\ Times(a + 1, b) = Times(a, b) + b
         /\ Times(a - 1, b) = Times(a, b) - b
BY SMT DEF Times

LEMMA TimesNext ==
  ASSUME NEW a \in Int, NEW b \in Int
  PROVE  Times(a + 1, b) = Times(a, b) + b
BY TimesIs

LEMMA TimesCommutes ==
  ASSUME NEW a \in Int, NEW b \in Int
  PROVE  Times(a, b) = Times(b, a)
BY SMT DEF Times

LEMMA TimesMonotone ==
  ASSUME NEW a \in Int, NEW b \in Int, NEW c \in Nat, a <= b
  PROVE  Times(a, c) <= Times(b, c)
<1>1. b - a \in Nat /\ b = a + (b - a)  OBVIOUS
<1>2. b * c = a * c + (b - a) * c  BY <1>1
<1>3. (b - a) * c \in Nat /\ a * c \in Int  BY <1>1
<1> QED BY <1>2, <1>3 DEF Times

\* The column and the row of an offset.
LEMMA Coordinates ==
  ASSUME NEW p \in Nat
  PROVE  /\ PX(p) \in Nat /\ PX(p) < W /\ PY(p) \in Nat
         /\ p = PY(p) * W + PX(p)
BY SizeAssumption, SMT DEF PX, PY

LEMMA RowInside ==
  ASSUME NEW p \in Pixels
  PROVE  PY(p) < H
<1>1. p \in Nat /\ p < NPix  BY NPixNat DEF Pixels
<1>2. W \in Nat /\ W > 0 /\ H \in Nat  BY SizeAssumption
<1>3. PY(p) \in Nat /\ PX(p) \in Nat /\ p = Times(PY(p), W) + PX(p)
  BY <1>1, Coordinates DEF Times
<1>4. NPix = Times(H, W)  BY <1>2, SMT DEF NPix, Times
<1> DEFINE y == PY(p)
           x == PX(p)
<1>5. y \in Nat /\ x \in Nat /\ p = Times(y, W) + x  BY <1>3
<1> HIDE DEF y, x
<1>6. ASSUME H <= y PROVE FALSE
  <2>1. Times(H, W) <= Times(y, W)  BY <1>2, <1>5, <1>6, TimesMonotone
  <2>2. Times(H, W) \in Int /\ Times(y, W) \in Int  BY <1>2, <1>5, TimesIs
  <2> QED BY <1>1, <1>4, <1>5, <2>1, <2>2
<1>7. y < H  BY <1>2, <1>5, <1>6
<1> QED BY <1>7 DEF y

\* A column and a row of the image are a pixel of it.
LEMMA PixelInside ==
  ASSUME NEW x \in Nat, NEW y \in Nat, x < W, y < H
  PROVE  y * W + x \in Pixels
<1>1. W \in Nat /\ H \in Nat /\ y + 1 \in Int /\ y + 1 <= H  BY SizeAssumption
<1>2. Times(y + 1, W) <= Times(H, W)  BY <1>1, TimesMonotone
<1>3. Times(y + 1, W) = Times(y, W) + W /\ Times(y, W) \in Int /\ Times(H, W) \in Int
  BY <1>1, TimesIs
<1>4. 0 <= Times(y, W)
  <2>1. Times(0, W) <= Times(y, W) /\ Times(0, W) = 0  BY <1>1, TimesMonotone, TimesIs
  <2> QED BY <2>1
<1>5. NPix = Times(H, W)  BY <1>1, SMT DEF NPix, Times
<1>6. Times(y, W) + x \in 0 .. NPix - 1  BY <1>1, <1>2, <1>3, <1>4, <1>5
<1> QED BY <1>6 DEF Pixels, Times

---------------------------------------------------------------------------
(* The ends of a line *)

\* The offset at a place along each axis.
Place(steep, major, minor) == IF steep THEN major * W + minor ELSE minor * W + major

Lo(p, q) == Ends(p, q).lo
Hi(p, q) == Ends(p, q).hi

\* b is n steps from a, in the direction given.
Moved(step, a, b, n) == (step = 1 /\ b = a + n) \/ (step = -1 /\ b = a - n)

\* What the preparation of fillLine establishes before its loop.
LEMMA EndsAre ==
  ASSUME NEW p \in Nat, NEW q \in Nat
  PROVE  /\ Lo(p, q)[1] \in Nat /\ Lo(p, q)[2] \in Nat
         /\ Hi(p, q)[1] \in Nat /\ Hi(p, q)[2] \in Nat
         /\ DeltaX(p, q) \in Nat /\ DeltaY(p, q) \in Nat
         /\ DeltaY(p, q) <= DeltaX(p, q)
         /\ Hi(p, q)[1] = Lo(p, q)[1] + DeltaX(p, q)
         /\ Moved(YStep(p, q), Lo(p, q)[2], Hi(p, q)[2], DeltaY(p, q))
<1> DEFINE px == PX(p)
           py == PY(p)
           qx == PX(q)
           qy == PY(q)
<1>1. px \in Nat /\ py \in Nat /\ qx \in Nat /\ qy \in Nat  BY Coordinates
<1> HIDE DEF px, py, qx, qy
<1>2. Steep(p, q) <=> Abs(qy - py) > Abs(qx - px)  BY DEF Steep, px, py, qx, qy
<1>3. CASE Steep(p, q)
  <2>1. Axes(p, Steep(p, q)) = <<py, px>> /\ Axes(q, Steep(p, q)) = <<qy, qx>>
    BY <1>3 DEF Axes, px, py, qx, qy
  <2>2. \/ py > qy /\ Lo(p, q) = <<qy, qx>> /\ Hi(p, q) = <<py, px>>
        \/ py <= qy /\ Lo(p, q) = <<py, px>> /\ Hi(p, q) = <<qy, qx>>
    BY <1>1, <2>1 DEF Ends, Lo, Hi
  <2> QED BY <1>1, <1>2, <1>3, <2>2 DEF DeltaX, DeltaY, YStep, Abs, Lo, Hi, Moved
<1>4. CASE ~Steep(p, q)
  <2>1. Axes(p, Steep(p, q)) = <<px, py>> /\ Axes(q, Steep(p, q)) = <<qx, qy>>
    BY <1>4 DEF Axes, px, py, qx, qy
  <2>2. \/ px > qx /\ Lo(p, q) = <<qx, qy>> /\ Hi(p, q) = <<px, py>>
        \/ px <= qx /\ Lo(p, q) = <<px, py>> /\ Hi(p, q) = <<qx, qy>>
    BY <1>1, <2>1 DEF Ends, Lo, Hi
  <2> QED BY <1>1, <1>2, <1>4, <2>2 DEF DeltaX, DeltaY, YStep, Abs, Lo, Hi, Moved
<1> QED BY <1>3, <1>4

\* The two ends are the line's first and last offset.
LEMMA EndsPlaces ==
  ASSUME NEW p \in Nat, NEW q \in Nat
  PROVE  {Place(Steep(p, q), Lo(p, q)[1], Lo(p, q)[2]),
          Place(Steep(p, q), Hi(p, q)[1], Hi(p, q)[2])} = {p, q}
<1>1. p = PY(p) * W + PX(p) /\ q = PY(q) * W + PX(q)  BY Coordinates
<1>2. CASE Steep(p, q)
  <2>1. \/ Lo(p, q) = <<PY(p), PX(p)>> /\ Hi(p, q) = <<PY(q), PX(q)>>
        \/ Lo(p, q) = <<PY(q), PX(q)>> /\ Hi(p, q) = <<PY(p), PX(p)>>
    BY <1>2 DEF Ends, Axes, Lo, Hi
  <2> QED BY <1>1, <1>2, <2>1 DEF Place
<1>3. CASE ~Steep(p, q)
  <2>1. \/ Lo(p, q) = <<PX(p), PY(p)>> /\ Hi(p, q) = <<PX(q), PY(q)>>
        \/ Lo(p, q) = <<PX(q), PY(q)>> /\ Hi(p, q) = <<PX(p), PY(p)>>
    BY <1>3 DEF Ends, Axes, Lo, Hi
  <2> QED BY <1>1, <1>3, <2>1 DEF Place
<1> QED BY <1>2, <1>3

\* The rectangle between two pixels lies in the image.
LEMMA BoxInside ==
  ASSUME NEW p \in Pixels, NEW q \in Pixels, NEW major \in Nat, NEW minor \in Nat,
         major <= Hi(p, q)[1],
         minor <= Lo(p, q)[2] \/ minor <= Hi(p, q)[2]
  PROVE  Place(Steep(p, q), major, minor) \in Pixels
<1> DEFINE px == PX(p)
           py == PY(p)
           qx == PX(q)
           qy == PY(q)
<1>1. p \in Nat /\ q \in Nat  BY NPixNat DEF Pixels
<1>2. /\ px \in Nat /\ py \in Nat /\ qx \in Nat /\ qy \in Nat
      /\ px < W /\ qx < W /\ py < H /\ qy < H
  BY <1>1, Coordinates, RowInside
<1> HIDE DEF px, py, qx, qy
<1>3. CASE Steep(p, q)
  <2>1. \/ Lo(p, q) = <<qy, qx>> /\ Hi(p, q) = <<py, px>>
        \/ Lo(p, q) = <<py, px>> /\ Hi(p, q) = <<qy, qx>>
    BY <1>3 DEF Axes, Ends, Lo, Hi, px, py, qx, qy
  <2>2. minor < W /\ major < H  BY <1>2, <2>1, SizeAssumption
  <2>3. major * W + minor \in Pixels  BY <2>2, PixelInside
  <2> QED BY <1>3, <2>3 DEF Place
<1>4. CASE ~Steep(p, q)
  <2>1. \/ Lo(p, q) = <<qx, qy>> /\ Hi(p, q) = <<px, py>>
        \/ Lo(p, q) = <<px, py>> /\ Hi(p, q) = <<qx, qy>>
    BY <1>4 DEF Axes, Ends, Lo, Hi, px, py, qx, qy
  <2>2. major < W /\ minor < H  BY <1>2, <2>1, SizeAssumption
  <2>3. minor * W + major \in Pixels  BY <2>2, PixelInside
  <2> QED BY <1>4, <2>3 DEF Place
<1> QED BY <1>3, <1>4

---------------------------------------------------------------------------
(* The loop *)

First(p, q, dx) == [minor |-> Ends(p, q).lo[2], err |-> -(dx \div 2)]

Advance(p, q, dx, v) ==
  LET e == v.err + DeltaY(p, q)
  IN IF e > 0
     THEN [minor |-> v.minor + YStep(p, q), err |-> e - dx]
     ELSE [minor |-> v.minor, err |-> e]

\* f is what the loop computes in its first n iterations.
IsWalk(p, q, dx, n, f) ==
  f = [k \in 0 .. n |-> IF k = 0 THEN First(p, q, dx) ELSE Advance(p, q, dx, f[k - 1])]

LEMMA WalkExists ==
  ASSUME NEW p, NEW q, NEW dx, NEW n \in Nat
  PROVE  \E f : IsWalk(p, q, dx, n, f)
<1> DEFINE Good(m) == \E f : IsWalk(p, q, dx, m, f)
           Bad == {m \in Nat : ~Good(m)}
<1>1. Good(0)
  <2> DEFINE f == [k \in 0 .. 0 |-> First(p, q, dx)]
  <2>1. IsWalk(p, q, dx, 0, f)  BY DEF IsWalk
  <2> QED BY <2>1
<1>2. ASSUME NEW m \in Nat, m > 0, Good(m - 1) PROVE Good(m)
  <2>1. PICK f : IsWalk(p, q, dx, m - 1, f)  BY <1>2
  <2> DEFINE g == [k \in 0 .. m |-> IF k = m THEN Advance(p, q, dx, f[m - 1]) ELSE f[k]]
             h == [k \in 0 .. m |-> IF k = 0 THEN First(p, q, dx)
                                    ELSE Advance(p, q, dx, g[k - 1])]
  <2>2. \A k \in 0 .. m - 1 : g[k] = f[k]  BY <1>2
  <2>3. \A k \in 0 .. m : g[k] = h[k]
    <3> SUFFICES ASSUME NEW k \in 0 .. m PROVE g[k] = h[k]  OBVIOUS
    <3>1. CASE k = m  BY <1>2, <2>2, <3>1
    <3>2. CASE k = 0  BY <1>2, <2>1, <3>2 DEF IsWalk
    <3>3. CASE k # 0 /\ k # m
      <4>1. k \in 0 .. m - 1 /\ k - 1 \in 0 .. m - 1  BY <1>2, <3>3
      <4>2. f[k] = Advance(p, q, dx, f[k - 1])  BY <2>1, <3>3, <4>1 DEF IsWalk
      <4> QED BY <2>2, <3>3, <4>1, <4>2
    <3> QED BY <3>1, <3>2, <3>3
  <2>4. g = h  BY <2>3
  <2>5. IsWalk(p, q, dx, m, g)  BY <2>4 DEF IsWalk
  <2> QED BY <2>5
<1>3. CASE Bad # {}
  <2>1. PICK m \in Bad : \A k \in Bad : m <= k  BY <1>3, LeastNatural
  <2>2. m \in Nat /\ ~Good(m)  OBVIOUS
  <2> HIDE DEF Good
  <2>3. m > 0  BY <1>1, <2>2
  <2>4. m - 1 \in Nat /\ m - 1 \notin Bad
    <3>1. m - 1 \in Nat /\ ~(m <= m - 1)  BY <2>2, <2>3
    <3> HIDE DEF Bad
    <3> QED BY <2>1, <3>1
  <2> QED BY <1>2, <2>2, <2>3, <2>4
<1>4. CASE Bad = {}  BY <1>4
<1> QED BY <1>3, <1>4

\* Walk is the loop.
LEMMA WalkIs ==
  ASSUME NEW p \in Nat, NEW q \in Nat
  PROVE  /\ Walk(p, q)[0] = First(p, q, DeltaX(p, q))
         /\ \A k \in 1 .. DeltaX(p, q) :
              Walk(p, q)[k] = Advance(p, q, DeltaX(p, q), Walk(p, q)[k - 1])
<1> DEFINE P(f) == IsWalk(p, q, DeltaX(p, q), DeltaX(p, q), f)
<1>1. Walk(p, q) = CHOOSE f : P(f)
  BY Zenon DEF Walk, IsWalk, First, Advance
<1>2. DeltaX(p, q) \in Nat  BY EndsAre
<1>3. \E f : P(f)  BY <1>2, WalkExists
<1>4. P(Walk(p, q))
  <2> HIDE DEF P
  <2>1. P(CHOOSE f : P(f))  BY <1>3, Zenon
  <2> QED BY <1>1, <2>1
<1> QED BY <1>2, <1>4 DEF IsWalk

\* After k iterations, s of which have moved along the minor axis.
Along(p, q, k, s) ==
  LET v == Walk(p, q)[k]
      dx == DeltaX(p, q)
  IN /\ Moved(YStep(p, q), Lo(p, q)[2], v.minor, s)
     /\ v.err = Times(k, DeltaY(p, q)) - Times(s, dx) - (dx \div 2)
     /\ v.err <= 0 /\ (dx > 0 => v.err > -dx)
     /\ s <= k

LEMMA HalfIs ==
  ASSUME NEW n \in Nat
  PROVE  n \div 2 \in Nat /\ n \div 2 <= n /\ (n > 0 => n \div 2 < n)
OBVIOUS

LEMMA AlongStarts ==
  ASSUME NEW p \in Nat, NEW q \in Nat
  PROVE  Along(p, q, 0, 0)
<1> DEFINE dx == DeltaX(p, q)
           dy == DeltaY(p, q)
           v == Walk(p, q)[0]
           h == dx \div 2
<1>1. v.minor = Lo(p, q)[2] /\ v.err = -h
  <2>1. v = First(p, q, DeltaX(p, q))  BY WalkIs
  <2> HIDE DEF v
  <2> QED BY <2>1 DEF First, Lo
<1>2. dx \in Nat /\ dy \in Nat /\ Lo(p, q)[2] \in Nat  BY EndsAre
<1>3. Moved(YStep(p, q), Lo(p, q)[2], v.minor, 0)
  BY <1>1, <1>2 DEF YStep, Moved
<1>4. Times(0, dy) = 0 /\ Times(0, dx) = 0  BY <1>2, TimesIs
<1>5. h \in Nat /\ (dx > 0 => h < dx)
  <2> HIDE DEF dx
  <2> QED BY <1>2, HalfIs
<1> HIDE DEF dx, dy, h
<1>6. v.err = Times(0, dy) - Times(0, dx) - h /\ v.err <= 0 /\ (dx > 0 => v.err > -dx)
  BY <1>1, <1>2, <1>4, <1>5
<1> QED BY <1>1, <1>2, <1>3, <1>6 DEF Along, dx, dy, h

LEMMA AlongAdvances ==
  ASSUME NEW p \in Nat, NEW q \in Nat, NEW k \in 1 .. DeltaX(p, q), NEW s \in Nat,
         Along(p, q, k - 1, s)
  PROVE  Along(p, q, k, s) \/ Along(p, q, k, s + 1)
<1> DEFINE dx == DeltaX(p, q)
           dy == DeltaY(p, q)
           ys == YStep(p, q)
           lo == Lo(p, q)[2]
           u == Walk(p, q)[k - 1]
           v == Walk(p, q)[k]
           h == dx \div 2
           a == u.err
           m == u.minor
           e == a + dy
           T == Times(k - 1, dy)
           S == Times(s, dx)
<1>1. dx \in Nat /\ dx > 0 /\ dy \in Nat /\ dy <= dx /\ lo \in Nat  BY EndsAre
<1>2. /\ e > 0 => v.minor = m + ys /\ v.err = e - dx
      /\ ~(e > 0) => v.minor = m /\ v.err = e
  <2>1. v = Advance(p, q, DeltaX(p, q), u)  BY WalkIs
  <2> HIDE DEF u, v
  <2> QED BY <2>1 DEF Advance
<1>3. /\ Moved(ys, lo, m, s)
      /\ a = T - S - h /\ a <= 0 /\ a > -dx /\ s <= k - 1
  BY <1>1 DEF Along
<1>4. h \in Nat
  <2> HIDE DEF dx
  <2> QED BY <1>1, HalfIs
<1>5. T \in Int /\ S \in Int /\ Times(k, dy) = T + dy /\ Times(s + 1, dx) = S + dx
  <2> DEFINE j == k - 1
  <2>1. j \in Int /\ k = j + 1  BY <1>1
  <2> HIDE DEF dx, dy, j
  <2>2. dx \in Int /\ dy \in Int /\ s \in Int  BY <1>1
  <2>3. Times(j, dy) \in Int /\ Times(s, dx) \in Int  BY <2>1, <2>2, TimesIs
  <2>4. Times(j + 1, dy) = Times(j, dy) + dy  BY <2>1, <2>2, TimesNext
  <2>5. Times(s + 1, dx) = Times(s, dx) + dx  BY <2>2, TimesNext
  <2> QED BY <2>1, <2>3, <2>4, <2>5 DEF j
<1> HIDE DEF dx, dy, ys, lo, h, a, m, T, S
<1>6. CASE e > 0
  <2>1. /\ Moved(ys, lo, v.minor, s + 1)
        /\ v.err = Times(k, dy) - Times(s + 1, dx) - h /\ v.err <= 0 /\ v.err > -dx
        /\ s + 1 <= k
    BY <1>1, <1>2, <1>3, <1>4, <1>5, <1>6 DEF Moved
  <2> QED BY <2>1 DEF Along, dx, dy, ys, lo, h
<1>7. CASE ~(e > 0)
  <2>1. v.err = Times(k, dy) - Times(s, dx) - h
    BY <1>1, <1>2, <1>3, <1>4, <1>5, <1>7 DEF S
  <2>2. v.err <= 0 /\ v.err > -dx
    BY <1>1, <1>2, <1>3, <1>4, <1>5, <1>7
  <2>3. s <= k  BY <1>1, <1>3
  <2>4. Moved(ys, lo, v.minor, s)  BY <1>2, <1>3, <1>7
  <2> QED BY <2>1, <2>2, <2>3, <2>4 DEF Along, dx, dy, ys, lo, h
<1> QED BY <1>6, <1>7

\* Every iteration of the loop is one of those.
LEMMA AlongAll ==
  ASSUME NEW p \in Nat, NEW q \in Nat, NEW k \in 0 .. DeltaX(p, q)
  PROVE  \E s \in Nat : Along(p, q, k, s)
<1> DEFINE Good(j) == \E s \in Nat : Along(p, q, j, s)
           Bad == {j \in 0 .. DeltaX(p, q) : ~Good(j)}
<1>1. DeltaX(p, q) \in Nat  BY EndsAre
<1>2. Good(0)  BY AlongStarts
<1>3. ASSUME NEW j \in 1 .. DeltaX(p, q), Good(j - 1) PROVE Good(j)
  <2>1. PICK s \in Nat : Along(p, q, j - 1, s)  BY <1>3
  <2>2. Along(p, q, j, s) \/ Along(p, q, j, s + 1)  BY <2>1, AlongAdvances
  <2>3. s + 1 \in Nat  OBVIOUS
  <2> QED BY <2>2, <2>3
<1> HIDE DEF Good
<1>4. CASE Bad # {}
  <2>1. Bad \subseteq Nat  BY <1>1
  <2>2. PICK m \in Bad : \A j \in Bad : m <= j
    <3> HIDE DEF Bad
    <3> QED BY <1>4, <2>1, LeastNatural
  <2>3. m \in 0 .. DeltaX(p, q) /\ ~Good(m)  OBVIOUS
  <2>4. m \in 1 .. DeltaX(p, q)  BY <1>1, <1>2, <2>3
  <2>5. m - 1 \in 0 .. DeltaX(p, q) /\ ~(m <= m - 1)  BY <1>1, <2>4
  <2>6. Good(m - 1)  BY <2>2, <2>5
  <2> QED BY <1>3, <2>3, <2>4, <2>6
<1>5. CASE Bad = {}
  <2>1. k \notin Bad  BY <1>5
  <2>2. Good(k)  BY <2>1
  <2> QED BY <2>2 DEF Good
<1>6. Good(k)
  <2>1. \E s \in Nat : Along(p, q, k, s)  BY <1>4, <1>5
  <2> QED BY <2>1 DEF Good
<1> QED BY <1>6 DEF Good

\* The loop never passes the last row (or column), and reaches it at its end.
LEMMA AlongEnds ==
  ASSUME NEW p \in Nat, NEW q \in Nat, NEW k \in 0 .. DeltaX(p, q), NEW s \in Nat,
         Along(p, q, k, s)
  PROVE  s <= DeltaY(p, q) /\ (k = DeltaX(p, q) => s = DeltaY(p, q))
<1> DEFINE dx == DeltaX(p, q)
           dy == DeltaY(p, q)
           a == Walk(p, q)[k].err
           h == dx \div 2
           T == Times(k, dy)
           S == Times(s, dx)
           Q == Times(dy, dx)
<1>1. dx \in Nat /\ dy \in Nat /\ dy <= dx /\ k \in Nat /\ k <= dx  BY EndsAre
<1>2. s <= k /\ a = T - S - h /\ a <= 0 /\ (dx > 0 => a > -dx)  BY DEF Along
<1>3. h \in Nat /\ (dx > 0 => h < dx)
  <2> HIDE DEF dx
  <2> QED BY <1>1, HalfIs
<1> HIDE DEF dx, dy, a
<1>4. T \in Int /\ S \in Int /\ Q \in Int /\ Times(dx, dy) = Q
  <2>1. Times(k, dy) \in Int  BY <1>1, TimesIs
  <2>2. Times(s, dx) \in Int  BY <1>1, TimesIs
  <2>3. Times(dy, dx) \in Int  BY <1>1, TimesIs
  <2>4. Times(dy, dx) = Times(dx, dy)  BY <1>1, TimesCommutes
  <2> QED BY <2>1, <2>2, <2>3, <2>4
<1>5. Times(dy + 1, dx) = Q + dx /\ Times(dy - 1, dx) = Q - dx
  <2>1. Times(dy + 1, dx) = Times(dy, dx) + dx  BY <1>1, TimesIs
  <2>2. Times(dy - 1, dx) = Times(dy, dx) - dx  BY <1>1, TimesIs
  <2> QED BY <2>1, <2>2
<1>6. T <= Q  BY <1>1, <1>4, TimesMonotone
<1>7. dy + 1 <= s => Q + dx <= S
  <2>1. dy + 1 \in Int  BY <1>1
  <2> QED BY <1>1, <1>5, <2>1, TimesMonotone
<1>8. s <= dy - 1 => S <= Q - dx
  <2>1. dy - 1 \in Int  BY <1>1
  <2> QED BY <1>1, <1>5, <2>1, TimesMonotone
<1>9. k = dx => T = Q  BY <1>4
<1> HIDE DEF h, T, S, Q
<1>10. s <= dy /\ (k = dx => s = dy)
  <2>1. CASE dx = 0  BY <1>1, <1>2, <2>1
  <2>2. CASE dx > 0  BY <1>1, <1>2, <1>3, <1>4, <1>6, <1>7, <1>8, <1>9, <2>2
  <2> QED BY <1>1, <2>1, <2>2
<1> QED BY <1>10 DEF dx, dy

---------------------------------------------------------------------------
(* Lines *)

\* Where an iteration plots.
LEMMA PlotIs ==
  ASSUME NEW p \in Nat, NEW q \in Nat, NEW k \in 0 .. DeltaX(p, q)
  PROVE  /\ Plot(p, q, k) = Place(Steep(p, q), Lo(p, q)[1] + k, Walk(p, q)[k].minor)
         /\ Walk(p, q)[k].minor \in Nat
         /\ Walk(p, q)[k].minor <= Lo(p, q)[2] \/ Walk(p, q)[k].minor <= Hi(p, q)[2]
         /\ k = 0 => Walk(p, q)[k].minor = Lo(p, q)[2]
         /\ k = DeltaX(p, q) => Walk(p, q)[k].minor = Hi(p, q)[2]
<1>1. PICK s \in Nat : Along(p, q, k, s)  BY AlongAll
<1>2. s <= DeltaY(p, q) /\ (k = DeltaX(p, q) => s = DeltaY(p, q)) /\ s <= k
  BY <1>1, AlongEnds DEF Along
<1> DEFINE m == Walk(p, q)[k].minor
           l == Lo(p, q)[2]
           r == Hi(p, q)[2]
           dx == DeltaX(p, q)
           dy == DeltaY(p, q)
           ys == YStep(p, q)
<1>3. Moved(ys, l, m, s)  BY <1>1 DEF Along
<1>4. /\ l \in Nat /\ r \in Nat /\ dy \in Nat /\ dx \in Nat /\ k \in Nat
      /\ Moved(ys, l, r, dy)
  BY EndsAre
<1>5. Plot(p, q, k) = Place(Steep(p, q), Lo(p, q)[1] + k, m)  BY DEF Plot, Place, Lo
<1> HIDE DEF m, l, r, dx, dy, ys
<1>6. s <= dy /\ (k = dx => s = dy)  BY <1>2 DEF dx, dy
<1>7. /\ m \in Nat /\ (m <= l \/ m <= r)
      /\ (k = 0 => m = l) /\ (k = dx => m = r)
  BY <1>2, <1>3, <1>4, <1>6 DEF Moved
<1> QED BY <1>5, <1>7 DEF m, l, r, dx

\* A line contains the offset it starts from and the one it goes to, whatever
\* the slope and the direction (lib_bitmap.c:239-320).
THEOREM LineHasEnds ==
  ASSUME NEW p \in Nat, NEW q \in Nat
  PROVE  p \in LinePixels(p, q) /\ q \in LinePixels(p, q)
<1> DEFINE dx == DeltaX(p, q)
           lo == Place(Steep(p, q), Lo(p, q)[1], Lo(p, q)[2])
           hi == Place(Steep(p, q), Hi(p, q)[1], Hi(p, q)[2])
<1>1. /\ dx \in Nat /\ Lo(p, q)[1] \in Nat /\ Hi(p, q)[1] = Lo(p, q)[1] + dx
  BY EndsAre
<1>2. 0 \in 0 .. dx /\ dx \in 0 .. dx  BY <1>1
<1>3. Plot(p, q, 0) = lo
  <2>1. Plot(p, q, 0) = Place(Steep(p, q), Lo(p, q)[1] + 0, Lo(p, q)[2])  BY <1>2, PlotIs
  <2>2. Lo(p, q)[1] + 0 = Lo(p, q)[1]  BY <1>1
  <2> QED BY <2>1, <2>2
<1>4. Plot(p, q, dx) = hi  BY <1>1, <1>2, PlotIs
<1>5. lo \in LinePixels(p, q) /\ hi \in LinePixels(p, q)
  BY <1>2, <1>3, <1>4 DEF LinePixels
<1>6. {lo, hi} = {p, q}  BY EndsPlaces
<1> HIDE DEF lo, hi
<1> QED BY <1>5, <1>6

\* A line between two pixels of the image writes nowhere else: the rounding
\* never takes it past its last row or column (lib_bitmap.c:239-320).
THEOREM LineStaysInside ==
  ASSUME NEW p \in Pixels, NEW q \in Pixels
  PROVE  LinePixels(p, q) \subseteq Pixels
<1>1. p \in Nat /\ q \in Nat  BY NPixNat DEF Pixels
<1> SUFFICES ASSUME NEW k \in 0 .. DeltaX(p, q) PROVE Plot(p, q, k) \in Pixels
  BY DEF LinePixels
<1> DEFINE m == Walk(p, q)[k].minor
           j == Lo(p, q)[1] + k
<1>2. /\ Plot(p, q, k) = Place(Steep(p, q), j, m) /\ m \in Nat
      /\ m <= Lo(p, q)[2] \/ m <= Hi(p, q)[2]
  BY <1>1, PlotIs
<1>3. j \in Nat /\ j <= Hi(p, q)[1]
  <2>1. /\ Lo(p, q)[1] \in Nat /\ DeltaX(p, q) \in Nat
        /\ Hi(p, q)[1] = Lo(p, q)[1] + DeltaX(p, q)
    BY <1>1, EndsAre
  <2> QED BY <2>1
<1> HIDE DEF m, j
<1>4. Place(Steep(p, q), j, m) \in Pixels  BY <1>2, <1>3, BoxInside
<1> QED BY <1>2, <1>4

---------------------------------------------------------------------------
(* The dirty range *)

LEMMA MinIsLeast ==
  ASSUME NEW S \in SUBSET Nat, S # {}
  PROVE  Min(S) \in S /\ \A n \in S : Min(S) <= n
BY LeastNatural, Zenon DEF Min

\* A set of numbers below a bound has a greatest element.
LEMMA MaxIsGreatest ==
  ASSUME NEW S \in SUBSET Nat, S # {},
         NEW bound \in Nat, \A n \in S : n <= bound
  PROVE  Max(S) \in S /\ \A n \in S : Max(S) >= n
<1> DEFINE D == {bound - n : n \in S}
<1>1. D \subseteq Nat /\ D # {}
  <2>1. \A n \in S : bound - n \in Nat  OBVIOUS
  <2>2. D \subseteq Nat  BY <2>1
  <2>3. D # {}  OBVIOUS
  <2> QED BY <2>2, <2>3
<1>2. PICK d \in D : \A e \in D : d <= e
  BY <1>1, LeastNatural
<1>3. PICK m \in S : d = bound - m
  BY <1>2
<1>4. \A n \in S : bound - m <= bound - n
  BY <1>2, <1>3
<1>5. \A n \in S : m >= n
  <2> SUFFICES ASSUME NEW n \in S PROVE m >= n  OBVIOUS
  <2>1. m \in Nat /\ n \in Nat /\ bound - m <= bound - n  BY <1>4
  <2> QED BY <2>1
<1> QED BY <1>5, Zenon DEF Max

RangeType == [start : Nat, stop : Nat, sync : BOOLEAN]

LEMMA SetRangeType ==
  ASSUME NEW r \in RangeType, NEW p \in Nat
  PROVE  SetRange(r, p) \in RangeType
BY SMT DEF SetRange, RangeType

LEMMA LineRangeType ==
  ASSUME NEW r \in RangeType, NEW p \in Nat, NEW q \in Nat
  PROVE  LineRange(r, p, q) \in RangeType
<1>1. r.start \in Nat /\ r.stop \in Nat  BY DEF RangeType
<1>2. Min({r.start, p, q}) \in Nat
  BY <1>1, MinIsLeast
<1>3. Max({r.stop, p, q}) \in Nat
  <2>1. \A n \in {r.stop, p, q} : n <= r.stop + p + q  BY <1>1
  <2> QED BY <1>1, <2>1, MaxIsGreatest
<1> QED BY <1>2, <1>3 DEF LineRange, RangeType

LEMMA ColorRangeType ==
  ASSUME NEW r \in RangeType, NEW S \in SUBSET Pixels
  PROVE  ColorRange(r, S) \in RangeType
<1>1. S \subseteq Nat /\ \A n \in S : n <= NPix
  BY NPixNat DEF Pixels
<1>2. S # {} => Min(S) \in Nat  BY <1>1, MinIsLeast
<1>3. S # {} => Max(S) \in Nat  BY <1>1, MaxIsGreatest, NPixNat
<1> QED BY <1>2, <1>3, NPixNat DEF ColorRange, RangeType

LEMMA FullRangeType == FullRange \in RangeType
BY NPixNat DEF FullRange, RangeType

LEMMA FilledType ==
  ASSUME NEW img \in [Pixels -> Color], NEW S, NEW c \in Color
  PROVE  Filled(img, S, c) \in [Pixels -> Color]
BY DEF Filled

---------------------------------------------------------------------------
(* Type correctness *)

CopyType == [Pixels -> Palette]

LEMMA CopiedType ==
  ASSUME TypeOK, NEW b \in CopyType
  PROVE  Copied(b) \in CopyType
BY DEF TypeOK, Copied, CopyType, Palette

LEMMA WithGridType ==
  ASSUME NEW b \in CopyType
  PROVE  WithGrid(b) \in CopyType
BY DEF WithGrid, CopyType, Palette

LEMMA DrawnType ==
  ASSUME TypeOK, DrawAndSwap
  PROVE  vram' \in [Buffers -> CopyType]
<1> DEFINE drawn == IF redraw THEN [vram EXCEPT ![back_buffer] = Copied(@)]
                    ELSE vram
<1>1. vram \in [Buffers -> CopyType] /\ back_buffer \in Buffers /\ dev_back \in Buffers
  BY DEF TypeOK, CopyType
<1>2. Copied(vram[back_buffer]) \in CopyType
  BY <1>1, CopiedType
<1>3. drawn \in [Buffers -> CopyType]
  BY <1>1, <1>2
<1>4. WithGrid(drawn[dev_back]) \in CopyType
  BY <1>1, <1>3, WithGridType
<1>5. vram' = IF grid_on = 1 THEN [drawn EXCEPT ![dev_back] = WithGrid(@)] ELSE drawn
  BY DEF DrawAndSwap
<1> HIDE DEF drawn
<1> QED BY <1>1, <1>3, <1>4, <1>5

\* TypeOK in two parts: what the commands change and what they do not.
LoopOK ==
  /\ pc \in PCs
  /\ image \in [Pixels -> Color]
  /\ range \in RangeType
  /\ redraw \in BOOLEAN /\ run \in BOOLEAN /\ instr_isnew \in BOOLEAN
  /\ instr \in [cmd : AllCmds, pixel : 0 .. NPix, color : Color]
  /\ prev_pix \in Nat
  /\ stray \in BOOLEAN /\ unseen \in BOOLEAN /\ flipped \in BOOLEAN

ScreenOK ==
  /\ vram \in [Buffers -> CopyType]
  /\ front \in Buffers /\ dev_back \in Buffers /\ back_buffer \in Buffers
  /\ swapping \in BOOLEAN
  /\ sw \in {0, 1} /\ grid_on \in {0, 1} /\ grid_was_on \in {0, 1}
  /\ buf_swap \in BOOLEAN /\ check_uart \in BOOLEAN
  /\ buf_swap_ctr \in 0 .. 255

LEMMA ExecTypes ==
  ASSUME TypeOK, Execute
  PROVE  LoopOK' /\ ScreenOK'
<1>1. range \in RangeType /\ image \in [Pixels -> Color] /\ instr.pixel \in Nat
      /\ instr.color \in Color /\ prev_pix \in Nat
      /\ redraw \in BOOLEAN /\ run \in BOOLEAN
  BY NPixNat DEF TypeOK, RangeType
<1>2. PICK cmd : Exec(cmd)
  BY DEF Execute, FillPixel, FillScr, FillColor, Quit, Save, LineStart, LinePt, LineEnd, NoneCmd
<1>3. ScreenOK'
  BY <1>2 DEF Exec, screen, grid, flags, TypeOK, CopyType, ScreenOK
<1>4. /\ pc' \in PCs /\ instr' \in [cmd : AllCmds, pixel : 0 .. NPix, color : Color]
      /\ instr_isnew' \in BOOLEAN /\ unseen' \in BOOLEAN /\ flipped' \in BOOLEAN
  <2>1. pc' = "grid" /\ instr' = Spent /\ instr_isnew' = FALSE
        /\ unseen' = unseen /\ flipped' = flipped
    BY <1>2 DEF Exec
  <2>2. Spent \in [cmd : AllCmds, pixel : 0 .. NPix, color : Color]
    BY NPixNat, BoardAssumption DEF Spent, AllCmds
  <2>3. unseen \in BOOLEAN /\ flipped \in BOOLEAN  BY DEF TypeOK
  <2> QED BY <2>1, <2>2, <2>3 DEF PCs
<1>5. SUFFICES /\ image' \in [Pixels -> Color] /\ range' \in RangeType /\ prev_pix' \in Nat
               /\ redraw' \in BOOLEAN /\ run' \in BOOLEAN /\ stray' \in BOOLEAN
  BY <1>3, <1>4 DEF LoopOK
<1>6. stray \in BOOLEAN  BY DEF TypeOK
<1>7. CASE FillPixel  BY <1>1, <1>6, <1>7, FilledType, SetRangeType DEF FillPixel
<1>8. CASE FillScr  BY <1>1, <1>6, <1>8, FilledType, FullRangeType DEF FillScr
<1>9. CASE FillColor  BY <1>1, <1>6, <1>9, FilledType, ColorRangeType DEF FillColor
<1>10. CASE Quit \/ Save \/ NoneCmd
  BY <1>1, <1>6, <1>10, FullRangeType DEF Quit, Save, NoneCmd
<1>11. CASE LineStart  BY <1>1, <1>6, <1>11, FilledType, SetRangeType DEF LineStart
<1>12. CASE LinePt  BY <1>1, <1>6, <1>12, FilledType, LineRangeType DEF LinePt
<1>13. CASE LineEnd  BY <1>1, <1>6, <1>13, FilledType, FullRangeType DEF LineEnd
<1> QED BY <1>7, <1>8, <1>9, <1>10, <1>11, <1>12, <1>13 DEF Execute

\* The receive FIFO and the handlers, the swap block and the environment
\* keep every variable in its type.
LEMMA TypeInductive ==
  ASSUME TypeOK, [Next]_vars
  PROVE  TypeOK'
<1> SUFFICES LoopOK' /\ ScreenOK'
  BY DEF TypeOK, LoopOK, ScreenOK, RangeType, CopyType
<1>1. LoopOK /\ ScreenOK
  BY DEF TypeOK, LoopOK, ScreenOK, RangeType, CopyType
<1>2. ASSUME UNCHANGED <<screen, grid>>, buf_swap' = buf_swap, check_uart' \in BOOLEAN,
             buf_swap_ctr' = buf_swap_ctr
      PROVE  ScreenOK'
  BY <1>1, <1>2 DEF screen, grid, ScreenOK
<1>3. ASSUME UNCHANGED drawing, pc' \in PCs PROVE LoopOK'
  BY <1>1, <1>3 DEF drawing, LoopOK
<1>4. check_uart \in BOOLEAN /\ vram \in [Buffers -> CopyType] /\ dev_back \in Buffers
  BY <1>1 DEF ScreenOK
<1>5. CASE PollNothing
  <2>1. pc' \in PCs  BY <1>5 DEF PollNothing, AfterPoll, PCs
  <2> QED BY <1>2, <1>3, <1>5, <2>1 DEF PollNothing
<1>6. ASSUME NEW i \in Instrs, Receive(i) PROVE LoopOK' /\ ScreenOK'
  <2>1. i \in [cmd : AllCmds, pixel : 0 .. NPix, color : Color]
    BY BoardAssumption DEF Instrs
  <2>2. LoopOK'  BY <1>1, <1>6, <2>1 DEF Receive, AfterPoll, PCs, LoopOK
  <2> QED BY <1>2, <1>6, <2>2 DEF Receive
<1>7. CASE Execute  BY <1>7, ExecTypes
<1>8. CASE GridCheck
  <2>1. LoopOK'
    BY <1>1, <1>8, FullRangeType DEF GridCheck, RangeOnSwitch, PCs, LoopOK
  <2> QED BY <1>1, <1>8, <2>1 DEF GridCheck, screen, flags, ScreenOK
<1>9. CASE NoSwap
  <2>1. pc' \in PCs  BY <1>9 DEF NoSwap, AfterPass, PCs
  <2> QED BY <1>2, <1>3, <1>4, <1>9, <2>1 DEF NoSwap, flags
<1>10. CASE DrawAndSwap
  <2>1. vram' \in [Buffers -> CopyType]  BY <1>10, DrawnType
  <2>2. dev_back' \in Buffers  BY <1>4, <1>10 DEF DrawAndSwap, Buffers
  <2>3. pc' \in PCs  BY <1>10 DEF DrawAndSwap, PCs
  <2> QED BY <1>1, <1>3, <1>10, <2>1, <2>2, <2>3 DEF DrawAndSwap, grid, flags, ScreenOK
<1>11. CASE CopyAgain
  <2>1. Copied(vram[dev_back]) \in CopyType  BY <1>4, CopiedType
  <2>2. vram' \in [Buffers -> CopyType]  BY <1>4, <1>11, <2>1 DEF CopyAgain
  <2>3. ScreenOK'  BY <1>1, <1>11, <2>2 DEF CopyAgain, grid, flags, ScreenOK
  <2> QED BY <1>1, <1>11, <2>3, FullRangeType DEF CopyAgain, PCs, LoopOK
<1>12. CASE ClearSwap
  <2>1. pc' \in PCs  BY <1>12 DEF ClearSwap, AfterPass, PCs
  <2> QED BY <1>1, <1>3, <1>12, <2>1 DEF ClearSwap, screen, grid, ScreenOK
<1>13. CASE Tick
  <2>1. buf_swap' \in BOOLEAN /\ check_uart' \in BOOLEAN /\ buf_swap_ctr' \in 0 .. 255
    BY <1>1, <1>13 DEF Tick, SwapRequested, CountDown, ScreenOK
  <2>2. LoopOK'  BY <1>1, <1>3, <1>13 DEF Tick, LoopOK
  <2> QED BY <1>1, <1>13, <2>1, <2>2 DEF Tick, screen, grid, ScreenOK
<1>14. CASE Refresh
  <2>1. front' \in Buffers  BY <1>1, <1>14 DEF Refresh, ScreenOK, Buffers
  <2>2. LoopOK'  BY <1>1, <1>3, <1>14 DEF Refresh, LoopOK
  <2> QED BY <1>1, <1>14, <2>1, <2>2 DEF Refresh, grid, flags, ScreenOK
<1>15. CASE FlipSwitch
  <2>1. LoopOK'  BY <1>1, <1>3, <1>15 DEF FlipSwitch, LoopOK
  <2> QED BY <1>1, <1>15, <2>1 DEF FlipSwitch, screen, flags, ScreenOK
<1>16. CASE UNCHANGED vars
  <2>1. LoopOK'  BY <1>1, <1>3, <1>16 DEF vars, LoopOK
  <2> QED BY <1>1, <1>16, <2>1 DEF vars, screen, grid, flags, ScreenOK
<1> QED
  BY <1>5, <1>6, <1>7, <1>8, <1>9, <1>10, <1>11, <1>12, <1>13, <1>14, <1>15, <1>16
  DEF Next, Main

\* Every variable of main.c keeps its type, for every screen, palette and
\* sender.
THEOREM BoardTypeCorrect == Spec => []TypeOK
<1>1. Init => TypeOK
  <2> SUFFICES ASSUME Init PROVE TypeOK
    OBVIOUS
  <2>1. vram \in [Buffers -> [Pixels -> Palette]]
    BY DEF Init, Palette
  <2>2. range \in [start : Nat, stop : Nat, sync : BOOLEAN]
    BY FullRangeType DEF Init, RangeType
  <2>3. instr \in [cmd : AllCmds, pixel : 0 .. NPix, color : Color]
    BY BoardAssumption, NPixNat DEF Init, AllCmds
  <2>4. front \in Buffers /\ dev_back \in Buffers /\ back_buffer \in Buffers
    BY DEF Init, Buffers
  <2>5. pc \in PCs /\ image \in [Pixels -> Color] /\ prev_pix \in Nat
    BY BoardAssumption DEF Init, PCs
  <2>6. /\ swapping \in BOOLEAN /\ redraw \in BOOLEAN /\ run \in BOOLEAN
        /\ instr_isnew \in BOOLEAN /\ stray \in BOOLEAN /\ unseen \in BOOLEAN
        /\ flipped \in BOOLEAN
        /\ buf_swap \in BOOLEAN /\ check_uart \in BOOLEAN
    BY DEF Init
  <2>7. /\ sw \in {0, 1} /\ grid_on \in {0, 1} /\ grid_was_on \in {0, 1}
        /\ buf_swap_ctr \in 0 .. 255
    BY DEF Init
  <2> QED BY <2>1, <2>2, <2>3, <2>4, <2>5, <2>6, <2>7, Zenon DEF TypeOK
<1>2. TypeOK /\ [Next]_vars => TypeOK'
  BY TypeInductive
<1> QED BY <1>1, <1>2, PTL DEF Spec

---------------------------------------------------------------------------
(* main() draws to the hidden buffer, and the tick counter never wraps *)

\* Between two swaps main()'s pointer, the driver and the hardware agree;
\* during a swap the driver is one exchange ahead of main(), and ahead of the
\* hardware until the refresh.
BufferInv ==
  /\ pc # "wait" => back_buffer = dev_back /\ dev_back # front /\ ~swapping
  /\ pc = "wait" => /\ back_buffer = 1 - dev_back
                    /\ swapping <=> dev_back = front

LEMMA BufferInductive ==
  ASSUME TypeOK, BufferInv, [Next]_vars
  PROVE  BufferInv'
<1> USE DEF BufferInv
<1>1. ASSUME DrawAndSwap PROVE BufferInv'
  BY <1>1 DEF DrawAndSwap, TypeOK, Buffers
<1>2. ASSUME Refresh PROVE BufferInv'
  <2>1. pc = "wait" /\ dev_back = front  BY <1>2 DEF Refresh, TypeOK
  <2>2. pc' = "wait" /\ dev_back' # front' /\ ~swapping'
    BY <1>2, <2>1 DEF Refresh, TypeOK, Buffers
  <2>3. back_buffer' = 1 - dev_back'  BY <1>2, <2>1 DEF Refresh
  <2> QED BY <2>2, <2>3
<1>3. ASSUME CopyAgain PROVE BufferInv'
  BY <1>3 DEF CopyAgain, SwapDone, TypeOK, Buffers
<1>4. ASSUME NEW cmd, Exec(cmd) PROVE BufferInv'
  BY <1>4 DEF Exec, screen
<1>5. ASSUME Execute PROVE BufferInv'
  BY <1>4, <1>5 DEF Execute, FillPixel, FillScr, FillColor, Quit, Save,
                    LineStart, LinePt, LineEnd, NoneCmd
<1>6. ASSUME \/ PollNothing \/ \E i \in Instrs : Receive(i)
             \/ GridCheck \/ NoSwap \/ ClearSwap
      PROVE  BufferInv'
  BY <1>6 DEF PollNothing, Receive, GridCheck, NoSwap, ClearSwap,
              AfterPoll, AfterPass, screen
<1>7. ASSUME Tick \/ FlipSwitch \/ UNCHANGED vars PROVE BufferInv'
  BY <1>7 DEF Tick, FlipSwitch, vars, screen
<1> QED
  BY <1>1, <1>2, <1>3, <1>5, <1>6, <1>7 DEF Next, Main

\* main() never writes to the buffer being scanned out, for every screen and
\* every sender (main.c:320-342).
THEOREM DrawsHiddenBuffer == Spec => []DrawHidden
<1>1. Init => BufferInv
  BY DEF Init, BufferInv
<1>2. TypeOK /\ BufferInv /\ [Next]_vars => BufferInv'
  BY BufferInductive
<1>3. BufferInv => DrawHidden
  BY DEF BufferInv, DrawHidden, SwapDone
<1> QED BY <1>1, <1>2, <1>3, BoardTypeCorrect, PTL DEF Spec

\* The interrupt's counter stays at 0 or 1 between ticks (main.c:31-37).
THEOREM CounterNeverWraps == Spec => []CtrNoWrap
<1>1. Init => CtrNoWrap
  BY DEF Init, CtrNoWrap
<1>2. CtrNoWrap /\ [Next]_vars => CtrNoWrap'
  <2> SUFFICES ASSUME CtrNoWrap, [Next]_vars PROVE CtrNoWrap'
    OBVIOUS
  <2>1. ASSUME Tick PROVE CtrNoWrap'
    BY <2>1 DEF Tick, CountDown, CtrNoWrap
  <2>2. ASSUME NEW cmd, Exec(cmd) PROVE CtrNoWrap'
    BY <2>2 DEF Exec, flags, CtrNoWrap
  <2>3. ASSUME Execute PROVE CtrNoWrap'
    BY <2>2, <2>3 DEF Execute, FillPixel, FillScr, FillColor, Quit, Save,
                      LineStart, LinePt, LineEnd, NoneCmd
  <2>4. ASSUME \/ PollNothing \/ (\E i \in Instrs : Receive(i)) \/ GridCheck
               \/ NoSwap \/ DrawAndSwap \/ CopyAgain \/ ClearSwap
        PROVE  CtrNoWrap'
    BY <2>4 DEF PollNothing, Receive, GridCheck, NoSwap, DrawAndSwap,
                CopyAgain, ClearSwap, flags, CtrNoWrap
  <2>5. ASSUME Refresh \/ FlipSwitch PROVE CtrNoWrap'
    BY <2>5 DEF Refresh, FlipSwitch, flags, CtrNoWrap
  <2>6. CASE UNCHANGED vars
    BY <2>6 DEF vars, flags, CtrNoWrap
  <2> QED BY <2>1, <2>3, <2>4, <2>5, <2>6 DEF Next, Main
<1> QED BY <1>1, <1>2, PTL DEF Spec

---------------------------------------------------------------------------
(* A paced sender sees the image on the screen *)

AllCurrent == \A b \in Buffers, p \in Pixels : Current(b, p)

Covered == \A b \in Buffers, p \in Pixels : ~Current(b, p) => redraw /\ p \in CopySet

\* The strengthening of StaleIsPending and ScreenShowsImage.  An instruction
\* is executed on a screen that shows the image (or is the first FILL_SCR),
\* with a full redraw pending at most, for the switch; from there to the swap
\* every stale pixel is in the pending range; the buffer drawn in the swap
\* block is current at once and the other one after the second copy.
PacedInv ==
  /\ range.sync => redraw
  /\ ~unseen => AllCurrent /\ ~range.sync
  /\ instr_isnew => pc \in {"poll", "exec"} /\ unseen
  /\ instr.cmd # "LINE_PT"
  /\ pc = "poll" /\ instr_isnew => instr.cmd = "FILL_SCR"
  /\ pc = "exec" => instr_isnew /\ (instr.cmd = "FILL_SCR" \/ (AllCurrent /\ ~range.sync))
  /\ pc \in {"grid", "swap", "wait"} => Covered
  /\ pc \in {"poll", "done"} /\ ~instr_isnew => Covered
  /\ pc = "wait" => \A p \in Pixels : Current(back_buffer, p)
  /\ pc = "clear" => AllCurrent /\ ~redraw

LEMMA FullRangeCopies ==
  ASSUME range' = FullRange
  PROVE  CopySet' = Pixels /\ ~range'.sync
BY DEF CopySet, FullRange

\* Filling with a range that is full, or that covers what was filled, keeps
\* every stale pixel covered.
LEMMA FillCovered ==
  ASSUME TypeOK, AllCurrent, NEW S, NEW c,
         image' = Filled(image, S, c), vram' = vram, redraw' = TRUE,
         \A p \in Pixels : p \in S => p \in CopySet'
  PROVE  Covered'
BY DEF AllCurrent, Covered, Current, Filled

LEMMA FullCovered ==
  ASSUME redraw' = TRUE, range' = FullRange
  PROVE  Covered'
BY FullRangeCopies DEF Covered

LEMMA PixelCovered ==
  ASSUME NEW r \in RangeType, NEW p \in Nat, range' = SetRange(r, p)
  PROVE  p \in CopySet'
<1>1. range'.sync /\ range'.start \in Nat /\ range'.stop \in Nat
      /\ range'.start <= p /\ p + 1 <= range'.stop
  BY DEF SetRange, RangeType
<1> QED BY <1>1 DEF CopySet

LEMMA ExecPaced ==
  ASSUME TypeOK, PacedInv, Execute
  PROVE  PacedInv'
<1>1. ASSUME NEW cmd, Exec(cmd), Covered', range'.sync => redraw'
      PROVE  PacedInv'
  <2>1. unseen' = unseen /\ unseen  BY <1>1 DEF Exec, PacedInv
  <2> QED BY <1>1, <2>1 DEF Exec, Spent, PacedInv
<1>2. ASSUME NEW cmd, Exec(cmd), cmd # "FILL_SCR"
      PROVE  AllCurrent /\ ~range.sync
  BY <1>2 DEF Exec, PacedInv
<1>3. ASSUME NEW cmd, Exec(cmd) PROVE vram' = vram
  BY <1>3 DEF Exec, screen
<1>4. range \in RangeType /\ instr.pixel \in Nat
  BY NPixNat DEF TypeOK, RangeType
<1>5. ASSUME FillPixel PROVE PacedInv'
  <2>1. instr.pixel \in CopySet'  BY <1>4, <1>5, PixelCovered DEF FillPixel
  <2>2. Covered'  BY <1>2, <1>3, <1>5, <2>1, FillCovered DEF FillPixel
  <2> QED BY <1>1, <1>5, <2>2 DEF FillPixel
<1>6. ASSUME LineStart PROVE PacedInv'
  <2>1. instr.pixel \in CopySet'  BY <1>4, <1>6, PixelCovered DEF LineStart
  <2>2. Covered'  BY <1>2, <1>3, <1>6, <2>1, FillCovered DEF LineStart
  <2> QED BY <1>1, <1>6, <2>2 DEF LineStart
<1>7. ASSUME FillScr PROVE PacedInv'
  BY <1>1, <1>7, FullCovered DEF FillScr
<1>8. ASSUME LineEnd PROVE PacedInv'
  BY <1>1, <1>8, FullCovered DEF LineEnd
<1>9. ASSUME NoneCmd PROVE PacedInv'
  BY <1>1, <1>9, FullCovered DEF NoneCmd
<1>10. ASSUME FillColor PROVE PacedInv'
  <2>1. PICK c \in Color :
          /\ image' = Filled(image, {p \in Pixels : image[p] = c}, instr.color)
          /\ range' = ColorRange(range, {p \in Pixels : image[p] = c})
    BY <1>10 DEF FillColor
  <2>2. ~range'.sync  BY <1>2, <1>10, <2>1 DEF FillColor, ColorRange
  <2>3. Covered'  BY <1>2, <1>3, <1>10, <2>1, <2>2, FillCovered DEF FillColor, CopySet
  <2> QED BY <1>1, <1>10, <2>2, <2>3 DEF FillColor
<1>11. ASSUME Quit \/ Save PROVE PacedInv'
  <2>1. AllCurrent'
    BY <1>2, <1>3, <1>11 DEF Quit, Save, AllCurrent, Current
  <2>2. Covered' /\ ~range'.sync
    BY <1>11, <2>1, FullRangeCopies DEF Quit, Save, Covered, AllCurrent
  <2> QED BY <1>1, <1>11, <2>2 DEF Quit, Save
<1>12. ~LinePt
  BY DEF LinePt, Exec, PacedInv
<1> QED BY <1>5, <1>6, <1>7, <1>8, <1>9, <1>10, <1>11, <1>12 DEF Execute

\* The first copy and the grid make the hidden buffer current.
LEMMA DrawPaced ==
  ASSUME TypeOK, BufferInv, PacedInv, DrawAndSwap
  PROVE  PacedInv'
<1> DEFINE drawn == IF redraw THEN [vram EXCEPT ![back_buffer] = Copied(@)]
                    ELSE vram
<1>1. Covered /\ dev_back = back_buffer /\ back_buffer \in Buffers
  BY DEF DrawAndSwap, PacedInv, BufferInv, TypeOK
<1>2. vram' = IF grid_on = 1 THEN [drawn EXCEPT ![dev_back] = WithGrid(@)] ELSE drawn
  BY DEF DrawAndSwap
<1>3. drawn \in [Buffers -> [Pixels -> Palette]]
  BY <1>1, CopiedType DEF TypeOK, CopyType
<1> DEFINE Shown(b, p) == b[p] = image[p] \/ (p \in GridPixels /\ b[p] = GridColor)
<1>4. \A p \in Pixels : Shown(drawn[back_buffer], p)
  <2>1. drawn[back_buffer] = IF redraw THEN Copied(vram[back_buffer])
                             ELSE vram[back_buffer]
    BY <1>1 DEF TypeOK
  <2> HIDE DEF drawn
  <2>2. CASE ~redraw
    BY <1>1, <2>1, <2>2 DEF Covered, Current
  <2>3. CASE redraw
    <3>1. drawn[back_buffer] = Copied(vram[back_buffer])  BY <2>1, <2>3
    <3> QED BY <1>1, <3>1 DEF Covered, Current, Copied
  <2> QED BY <2>2, <2>3
<1>5. \A b \in Buffers : b # back_buffer => drawn[b] = vram[b]
  BY <1>1 DEF TypeOK
<1> HIDE DEF drawn
<1>6. \A b \in Buffers : b # back_buffer => vram'[b] = vram[b]
  BY <1>1, <1>2, <1>3, <1>5
<1>7. \A p \in Pixels : Shown(vram'[back_buffer], p)
  <2>1. CASE grid_on # 1  BY <1>2, <1>4, <2>1
  <2>2. CASE grid_on = 1
    <3>1. vram'[back_buffer] = WithGrid(drawn[back_buffer])
      BY <1>1, <1>2, <1>3, <2>2
    <3> QED BY <1>4, <3>1 DEF WithGrid
  <2> QED BY <2>1, <2>2
<1>8. UNCHANGED <<image, range, redraw, instr, instr_isnew, unseen, back_buffer>> /\ pc' = "wait"
  BY DEF DrawAndSwap, drawing
<1>9. \A p \in Pixels : Current(back_buffer, p)'
  BY <1>7, <1>8 DEF Current
<1>10. Covered'
  BY <1>1, <1>6, <1>8, <1>9 DEF Covered, Current, CopySet
<1>11. AllCurrent => AllCurrent'
  BY <1>1, <1>6, <1>8, <1>9 DEF AllCurrent, Current
<1> QED BY <1>8, <1>9, <1>10, <1>11 DEF PacedInv, DrawAndSwap

\* The second copy makes the other buffer current too and ends the redraw.
LEMMA CopyPaced ==
  ASSUME TypeOK, BufferInv, PacedInv, CopyAgain
  PROVE  PacedInv'
<1>1. /\ Covered /\ \A p \in Pixels : Current(back_buffer, p)
      /\ dev_back \in Buffers /\ back_buffer = 1 - dev_back
  BY DEF CopyAgain, PacedInv, BufferInv, TypeOK
<1>2. image' = image /\ redraw' = FALSE /\ pc' = "clear" /\ instr' = instr
      /\ instr_isnew' = instr_isnew
  BY DEF CopyAgain
<1>3. vram' = IF redraw THEN [vram EXCEPT ![dev_back] = Copied(@)] ELSE vram
  BY DEF CopyAgain
<1> DEFINE Shown(b, p) == \/ vram'[b][p] = image[p]
                          \/ p \in GridPixels /\ vram'[b][p] = GridColor
<1>4. \A p \in Pixels : Shown(dev_back, p)
  <2>1. CASE ~redraw
    BY <1>1, <1>3, <2>1 DEF Covered, Current
  <2>2. CASE redraw
    <3>1. vram'[dev_back] = Copied(vram[dev_back])
      BY <1>1, <1>3, <2>2 DEF TypeOK
    <3> QED BY <1>1, <3>1 DEF Covered, Current, Copied
  <2> QED BY <2>1, <2>2
<1>5. \A p \in Pixels : Shown(back_buffer, p)
  <2>1. back_buffer # dev_back  BY <1>1 DEF Buffers
  <2>2. vram'[back_buffer] = vram[back_buffer]  BY <1>3, <2>1 DEF TypeOK
  <2> QED BY <1>1, <2>2 DEF Current
<1>6. \A b \in Buffers : b = dev_back \/ b = back_buffer
  BY <1>1 DEF Buffers
<1>7. AllCurrent'
  <2>1. \A b \in Buffers, p \in Pixels : Shown(b, p)
    <3> HIDE DEF Shown
    <3> QED BY <1>4, <1>5, <1>6
  <2> QED BY <1>2, <2>1 DEF AllCurrent, Current
<1>8. ~range'.sync
  BY DEF CopyAgain, PacedInv, FullRange
<1>9. ~instr_isnew
  BY DEF CopyAgain, PacedInv
<1> QED BY <1>2, <1>7, <1>8, <1>9 DEF PacedInv

LEMMA PacedInductive ==
  ASSUME Pace = "framed", "LINE_PT" \notin Cmds,
         TypeOK, BufferInv, PacedInv, [Next]_vars
  PROVE  PacedInv'
<1>1. ASSUME UNCHANGED <<image, vram, range, redraw>>
      PROVE  /\ Covered' <=> Covered
             /\ AllCurrent' <=> AllCurrent
             /\ \A b, p : Current(b, p)' <=> Current(b, p)
  BY <1>1 DEF Covered, AllCurrent, Current, CopySet
<1>2. ASSUME PollNothing PROVE PacedInv'
  <2>1. UNCHANGED <<image, vram, range, redraw, instr, instr_isnew, unseen>>
    BY <1>2 DEF PollNothing, screen, drawing
  <2> QED BY <1>1, <1>2, <2>1 DEF PollNothing, AfterPoll, PacedInv
<1>3. ASSUME NEW i \in Instrs, Receive(i) PROVE PacedInv'
  <2>1. ~unseen /\ unseen'  BY <1>3 DEF Receive, MayArrive
  <2>2. UNCHANGED <<image, vram, range, redraw>>  BY <1>3 DEF Receive, screen
  <2>3. AllCurrent /\ ~range.sync  BY <2>1 DEF PacedInv
  <2>4. instr'.cmd # "LINE_PT"  BY <1>3 DEF Receive, Instrs
  <2> QED BY <1>1, <1>3, <2>1, <2>2, <2>3, <2>4 DEF Receive, AfterPoll, PacedInv
<1>4. ASSUME Execute PROVE PacedInv'
  BY <1>4, ExecPaced
<1>5. ASSUME GridCheck PROVE PacedInv'
  <2>1. UNCHANGED <<image, vram, instr, instr_isnew, unseen>> /\ pc = "grid" /\ pc' = "swap"
    BY <1>5 DEF GridCheck, screen
  <2>4. AllCurrent' <=> AllCurrent  BY <2>1 DEF AllCurrent, Current
  <2>2. CASE sw = grid_was_on
    BY <1>1, <1>5, <2>1, <2>2 DEF GridCheck, PacedInv
  <2>3. CASE sw # grid_was_on
    <3>1. redraw' = TRUE /\ range' = FullRange
      BY <1>5, <2>3 DEF GridCheck, RangeOnSwitch
    <3> QED BY <2>1, <2>4, <3>1, FullCovered, FullRangeCopies DEF PacedInv
  <2> QED BY <2>2, <2>3
<1>6. ASSUME NoSwap \/ ClearSwap PROVE PacedInv'
  <2>1. UNCHANGED <<image, vram, range, redraw, instr, instr_isnew, unseen>>
    BY <1>6 DEF NoSwap, ClearSwap, screen, drawing
  <2>2. AllCurrent => Covered  BY DEF AllCurrent, Covered
  <2> QED BY <1>1, <1>6, <2>1, <2>2 DEF NoSwap, ClearSwap, AfterPass, PacedInv
<1>7. ASSUME DrawAndSwap PROVE PacedInv'
  BY <1>7, DrawPaced
<1>8. ASSUME CopyAgain PROVE PacedInv'
  BY <1>8, CopyPaced
<1>9. ASSUME Tick \/ Refresh \/ FlipSwitch \/ UNCHANGED vars PROVE PacedInv'
  <2>1. UNCHANGED <<pc, image, vram, range, redraw, instr, instr_isnew, unseen, back_buffer>>
    BY <1>9 DEF Tick, Refresh, FlipSwitch, vars, screen, drawing
  <2> QED BY <1>1, <2>1 DEF PacedInv
<1> QED BY <1>2, <1>3, <1>4, <1>5, <1>6, <1>7, <1>8, <1>9 DEF Next, Main

LEMMA PacedInvariant ==
  ASSUME Pace = "framed", "LINE_PT" \notin Cmds
  PROVE  Spec => [](TypeOK /\ PacedInv)
<1>1. Init => PacedInv
  <2>1. Init => unseen /\ instr_isnew /\ pc = "poll"  BY Zenon DEF Init
  <2> QED BY <2>1 DEF Init, PacedInv, FullRange
<1>2. TypeOK /\ BufferInv /\ PacedInv /\ [Next]_vars => PacedInv'
  BY PacedInductive
<1>3. TypeOK /\ BufferInv /\ [Next]_vars => BufferInv'
  BY BufferInductive
<1>4. Init => BufferInv
  BY DEF Init, BufferInv
<1> QED BY <1>1, <1>2, <1>3, <1>4, BoardTypeCorrect, PTL DEF Spec

\* If the sender sends one instruction a frame at most, and no LINE_PT,
\* then after every swap block the screen shows the image.  Both hypotheses
\* are needed: runs board_lost_fill and board_line drop one each.
THEOREM PacedScreenShowsImage ==
  ASSUME Pace = "framed", "LINE_PT" \notin Cmds
  PROVE  Spec => []ScreenShowsImage
<1>1. TypeOK /\ PacedInv => ScreenShowsImage
  BY DEF PacedInv, ScreenShowsImage, AllCurrent, TypeOK
<1> QED BY <1>1, PacedInvariant, PTL

\* With the same sender, what either buffer does not show of the image is in
\* the pending range whenever main() is between its blocks (main.c:318-345).
THEOREM PacedStaleIsPending ==
  ASSUME Pace = "framed", "LINE_PT" \notin Cmds
  PROVE  Spec => []StaleIsPending
<1>1. PacedInv => StaleIsPending
  BY DEF PacedInv, StaleIsPending, Covered
<1> QED BY <1>1, PacedInvariant, PTL

---------------------------------------------------------------------------
(* A full redraw repairs both buffers *)

\* After a full first copy the buffer drawn shows the image until the second.
DrawnInv ==
  pc = "wait" /\ redraw /\ ~range.sync => \A p \in Pixels : Repaired(back_buffer, p)

LEMMA ImageGridless ==
  ASSUME TypeOK, NEW p \in Pixels
  PROVE  image[p] # GridColor
BY BoardAssumption DEF TypeOK

LEMMA DrawnInductive ==
  ASSUME TypeOK, BufferInv, DrawnInv, [Next]_vars
  PROVE  DrawnInv'
<1>1. ASSUME DrawAndSwap PROVE DrawnInv'
  <2> SUFFICES ASSUME redraw, ~range.sync, NEW p \in Pixels
               PROVE  /\ \/ vram'[back_buffer][p] = image[p]
                         \/ p \in GridPixels /\ vram'[back_buffer][p] = GridColor
                      /\ grid_on = 0 => vram'[back_buffer][p] # GridColor
    BY <1>1 DEF DrawAndSwap, drawing, grid, DrawnInv, Repaired, Current
  <2> DEFINE drawn == [vram EXCEPT ![back_buffer] = Copied(@)]
  <2>1. vram \in [Buffers -> CopyType] /\ back_buffer \in Buffers /\ dev_back = back_buffer
    BY <1>1 DEF TypeOK, CopyType, DrawAndSwap, BufferInv
  <2>2. drawn \in [Buffers -> CopyType]  BY <2>1, CopiedType
  <2>3. drawn[back_buffer] = Copied(vram[back_buffer])  BY <2>1
  <2>4. Copied(vram[back_buffer])[p] = image[p]  BY DEF Copied, CopySet
  <2>5. vram' = (IF grid_on = 1 THEN [drawn EXCEPT ![dev_back] = WithGrid(@)] ELSE drawn)
    BY <1>1 DEF DrawAndSwap
  <2> HIDE DEF drawn
  <2>6. CASE grid_on = 1
    <3>1. vram'[back_buffer] = WithGrid(drawn[back_buffer])  BY <2>1, <2>2, <2>5, <2>6
    <3> QED BY <2>3, <2>4, <2>6, <3>1 DEF WithGrid
  <2>7. CASE grid_on # 1  BY <2>3, <2>4, <2>5, <2>7, ImageGridless
  <2> QED BY <2>6, <2>7
<1>2. ASSUME Tick \/ Refresh \/ FlipSwitch \/ UNCHANGED vars PROVE DrawnInv'
  <2>1. UNCHANGED <<pc, vram, image, redraw, range, grid_on, back_buffer>>
    BY <1>2 DEF Tick, Refresh, FlipSwitch, vars, screen, grid, drawing
  <2> QED BY <2>1 DEF DrawnInv, Repaired, Current
<1>3. ASSUME pc' # "wait" PROVE DrawnInv'
  BY <1>3 DEF DrawnInv
<1>4. ASSUME Execute PROVE pc' # "wait"
  BY <1>4 DEF Execute, FillPixel, FillScr, FillColor, Quit, Save, LineStart, LinePt, LineEnd,
              NoneCmd, Exec
<1>5. ASSUME PollNothing \/ (\E i \in Instrs : Receive(i)) \/ GridCheck \/ NoSwap
               \/ CopyAgain \/ ClearSwap
      PROVE  pc' # "wait"
  BY <1>5 DEF PollNothing, Receive, GridCheck, NoSwap, CopyAgain, ClearSwap, AfterPoll,
              AfterPass
<1> QED BY <1>1, <1>2, <1>3, <1>4, <1>5 DEF Next, Main

\* A full redraw leaves both buffers showing the image, without a grid that is
\* off, for every sender, fast or slow, and every history of lost redraws
\* before it (main.c:318-345).
THEOREM FullRedrawsRepair == Spec => FullRedrawRepairs
<1>1. Init => BufferInv /\ DrawnInv  BY DEF Init, BufferInv, DrawnInv
<1>2. TypeOK /\ BufferInv /\ [Next]_vars => BufferInv'  BY BufferInductive
<1>3. TypeOK /\ BufferInv /\ DrawnInv /\ [Next]_vars => DrawnInv'  BY DrawnInductive
<1>4. ASSUME TypeOK, BufferInv, DrawnInv, CopyAgain, redraw, ~range.sync
      PROVE  \A b \in Buffers, p \in Pixels : Repaired(b, p)'
  <2>1. /\ image' = image /\ grid_on' = grid_on /\ dev_back \in Buffers /\ back_buffer = 1 - dev_back
        /\ vram \in [Buffers -> CopyType]
        /\ vram' = [vram EXCEPT ![dev_back] = Copied(@)]
    BY <1>4 DEF CopyAgain, BufferInv, TypeOK, CopyType, grid
  <2>2. \A p \in Pixels : Repaired(back_buffer, p)  BY <1>4 DEF DrawnInv, CopyAgain
  <2>3. vram'[dev_back] = Copied(vram[dev_back])  BY <2>1
  <2>4. \A p \in Pixels : vram'[dev_back][p] = image[p]
    BY <1>4, <2>3 DEF Copied, CopySet
  <2>5. back_buffer # dev_back /\ back_buffer \in Buffers
        /\ \A b \in Buffers : b = dev_back \/ b = back_buffer
    BY <2>1 DEF Buffers
  <2>6. vram'[back_buffer] = vram[back_buffer]  BY <2>1, <2>5
  <2> SUFFICES ASSUME NEW b \in Buffers, NEW p \in Pixels PROVE Repaired(b, p)'
    OBVIOUS
  <2>7. CASE b = dev_back  BY <1>4, <2>1, <2>4, <2>7, ImageGridless DEF Repaired, Current
  <2>8. CASE b = back_buffer  BY <2>1, <2>2, <2>6, <2>8 DEF Repaired, Current
  <2> QED BY <2>5, <2>7, <2>8
<1>5. TypeOK /\ BufferInv /\ DrawnInv =>
        (CopyAgain /\ redraw /\ ~range.sync =>
           \A b \in Buffers, p \in Pixels : Repaired(b, p)')
  BY <1>4
<1> QED BY <1>1, <1>2, <1>3, <1>5, BoardTypeCorrect, PTL DEF Spec, FullRedrawRepairs

\* What GridCheck asks for when the switch has changed is still asked for at
\* the swap block if no instruction has come since.
FlipInv ==
  /\ flipped => redraw /\ ~range.sync /\ ~instr_isnew /\ pc # "exec"
  /\ pc = "grid" => ~instr_isnew

LEMMA FlipInductive ==
  ASSUME FlipInv, [Next]_vars
  PROVE  FlipInv'
<1>1. ASSUME PollNothing PROVE FlipInv'
  BY <1>1 DEF PollNothing, AfterPoll, drawing, FlipInv
<1>2. ASSUME NEW i \in Instrs, Receive(i) PROVE FlipInv'
  BY <1>2 DEF Receive, AfterPoll, FlipInv
<1>3. ASSUME NEW cmd, Exec(cmd) PROVE FlipInv'
  BY <1>3 DEF Exec, FlipInv
<1>4. ASSUME Execute PROVE FlipInv'
  BY <1>3, <1>4 DEF Execute, FillPixel, FillScr, FillColor, Quit, Save, LineStart, LinePt, LineEnd,
                    NoneCmd
<1>5. ASSUME GridCheck PROVE FlipInv'
  BY <1>5 DEF GridCheck, RangeOnSwitch, FullRange, FlipInv
<1>6. ASSUME NoSwap \/ ClearSwap PROVE FlipInv'
  BY <1>6 DEF NoSwap, ClearSwap, AfterPass, drawing, FlipInv
<1>7. ASSUME DrawAndSwap PROVE FlipInv'
  BY <1>7 DEF DrawAndSwap, drawing, FlipInv
<1>8. ASSUME CopyAgain PROVE FlipInv'
  BY <1>8 DEF CopyAgain, FlipInv
<1>9. ASSUME Tick \/ Refresh \/ FlipSwitch \/ UNCHANGED vars PROVE FlipInv'
  <2>1. UNCHANGED <<pc, drawing>>  BY <1>9 DEF Tick, Refresh, FlipSwitch, vars
  <2> QED BY <2>1 DEF drawing, FlipInv
<1> QED BY <1>1, <1>2, <1>4, <1>5, <1>6, <1>7, <1>8, <1>9 DEF Next, Main

\* At any pace of the sender, the swap block after a flip removes the grid from
\* both buffers unless an instruction has come between the two; that it may
\* stay if one has is what run board_grid shows (main.c:304-313).
THEOREM GridGoesAlways == Spec => GridGoes
<1>1. Init => FlipInv  BY DEF Init, FlipInv
<1>2. FlipInv /\ [Next]_vars => FlipInv'  BY FlipInductive
<1>3. (CopyAgain /\ redraw /\ ~range.sync =>
         \A b \in Buffers, p \in Pixels : Repaired(b, p)') /\ FlipInv =>
      (CopyAgain /\ flipped /\ grid_on = 0 =>
         \A b \in Buffers, p \in Pixels : vram'[b][p] # GridColor)
  <2> SUFFICES ASSUME FlipInv, CopyAgain, flipped, grid_on = 0,
                      redraw /\ ~range.sync =>
                        \A b \in Buffers, p \in Pixels : Repaired(b, p)',
                      NEW b \in Buffers, NEW p \in Pixels
               PROVE  vram'[b][p] # GridColor
    OBVIOUS
  <2>1. Repaired(b, p)'  BY DEF FlipInv
  <2>2. grid_on' = 0  BY DEF CopyAgain, grid
  <2> QED BY <2>1, <2>2 DEF Repaired
<1> QED BY <1>1, <1>2, <1>3, FullRedrawsRepair, PTL DEF Spec, FullRedrawRepairs, GridGoes

---------------------------------------------------------------------------
(* The copies stay inside the image *)

\* As long as nothing outside the image was touched, the range ends with it.
\* fillLine puts both of its ends into the range; that the line has drawn its
\* ends, and so would have strayed, is what keeps the garbage of prev_pix out.
RangeInv == ~stray => range.stop <= NPix

LEMMA SetRangeStops ==
  ASSUME NEW r \in RangeType, NEW p \in Nat, r.stop <= NPix, p \in Pixels
  PROVE  SetRange(r, p).stop <= NPix
<1>1. p + 1 <= NPix  BY NPixNat DEF Pixels
<1> QED BY <1>1, NPixNat DEF SetRange, RangeType

LEMMA LineRangeStops ==
  ASSUME NEW r \in RangeType, NEW p \in Nat, NEW q \in Nat, r.stop <= NPix,
         LinePixels(p, q) \subseteq Pixels
  PROVE  LineRange(r, p, q).stop <= NPix
<1>1. p \in Pixels /\ q \in Pixels  BY LineHasEnds
<1>2. r.stop \in Nat  BY DEF RangeType
<1>3. \A n \in {r.stop, p, q} : n <= NPix  BY <1>1, NPixNat DEF Pixels
<1>4. Max({r.stop, p, q}) \in {r.stop, p, q}
  BY <1>2, <1>3, NPixNat, MaxIsGreatest
<1>5. Max({r.stop, p, q}) <= NPix  BY <1>3, <1>4
<1> QED BY <1>5 DEF LineRange

LEMMA ColorRangeStops ==
  ASSUME NEW r \in RangeType, NEW S \in SUBSET Pixels
  PROVE  ColorRange(r, S).stop <= NPix
<1>1. CASE S = {}
  <2>1. 0 <= NPix  BY NPixNat
  <2> QED BY <1>1, <2>1 DEF ColorRange
<1>2. CASE S # {}
  <2>1. S \subseteq Nat /\ \A n \in S : n <= NPix  BY NPixNat DEF Pixels
  <2>2. Max(S) \in S  BY <1>2, <2>1, NPixNat, MaxIsGreatest
  <2>3. Max(S) <= NPix  BY <2>1, <2>2
  <2> QED BY <1>2, <2>3 DEF ColorRange
<1> QED BY <1>1, <1>2

LEMMA ExecInside ==
  ASSUME TypeOK, RangeInv, Execute
  PROVE  RangeInv'
<1>1. range \in RangeType /\ prev_pix \in Nat /\ instr.pixel \in Nat
  BY NPixNat DEF TypeOK, RangeType
<1>2. FullRange.stop <= NPix  BY NPixNat DEF FullRange
<1>3. CASE FillPixel
  <2>1. range' = SetRange(range, instr.pixel) /\ (~stray' => ~stray /\ instr.pixel \in Pixels)
    BY <1>3 DEF FillPixel
  <2>2. ~stray' => range'.stop <= NPix
    <3> SUFFICES ASSUME ~stray' PROVE SetRange(range, instr.pixel).stop <= NPix  BY <2>1
    <3> QED BY <1>1, <2>1, SetRangeStops DEF RangeInv
  <2> QED BY <2>2 DEF RangeInv
<1>4. CASE LineStart
  <2>1. range' = SetRange(range, instr.pixel) /\ (~stray' => ~stray /\ instr.pixel \in Pixels)
    BY <1>4 DEF LineStart
  <2>2. ~stray' => range'.stop <= NPix
    <3> SUFFICES ASSUME ~stray' PROVE SetRange(range, instr.pixel).stop <= NPix  BY <2>1
    <3> QED BY <1>1, <2>1, SetRangeStops DEF RangeInv
  <2> QED BY <2>2 DEF RangeInv
<1>5. CASE LinePt
  <2>1. /\ range' = LineRange(range, prev_pix, instr.pixel)
        /\ ~stray' => ~stray /\ LinePixels(prev_pix, instr.pixel) \subseteq Pixels
    BY <1>5 DEF LinePt
  <2>2. ~stray' => range'.stop <= NPix
    <3> SUFFICES ASSUME ~stray' PROVE LineRange(range, prev_pix, instr.pixel).stop <= NPix
      BY <2>1
    <3> QED BY <1>1, <2>1, LineRangeStops DEF RangeInv
  <2> QED BY <2>2 DEF RangeInv
<1>6. CASE FillColor
  <2>1. PICK c \in Color : range' = ColorRange(range, {p \in Pixels : image[p] = c})
    BY <1>6 DEF FillColor
  <2>2. {p \in Pixels : image[p] = c} \in SUBSET Pixels  OBVIOUS
  <2>3. range'.stop <= NPix  BY <1>1, <2>1, <2>2, ColorRangeStops
  <2> QED BY <2>3 DEF RangeInv
<1>7. CASE FillScr \/ Quit \/ Save \/ LineEnd \/ NoneCmd
  <2>1. range' = FullRange  BY <1>7 DEF FillScr, Quit, Save, LineEnd, NoneCmd
  <2> QED BY <1>2, <2>1 DEF RangeInv
<1> QED BY <1>3, <1>4, <1>5, <1>6, <1>7 DEF Execute

LEMMA RangeInductive ==
  ASSUME TypeOK, RangeInv, [Next]_vars
  PROVE  RangeInv'
<1>1. FullRange.stop <= NPix  BY NPixNat DEF FullRange
<1>2. CASE Execute  BY <1>2, ExecInside
<1>3. CASE GridCheck \/ CopyAgain
  <2>1. stray' = stray /\ (range' = range \/ range' = FullRange)
    BY <1>3 DEF GridCheck, CopyAgain, RangeOnSwitch
  <2> QED BY <1>1, <2>1 DEF RangeInv
<1>4. CASE \/ PollNothing \/ (\E i \in Instrs : Receive(i)) \/ NoSwap \/ DrawAndSwap
           \/ ClearSwap \/ Tick \/ Refresh \/ FlipSwitch \/ UNCHANGED vars
  <2>1. stray' = stray /\ range' = range
    BY <1>4 DEF PollNothing, Receive, NoSwap, DrawAndSwap, ClearSwap, Tick, Refresh,
                FlipSwitch, vars, drawing
  <2> QED BY <2>1 DEF RangeInv
<1> QED BY <1>2, <1>3, <1>4 DEF Next, Main

\* Whatever the sender does and whatever prev_pix held at first, the copies to
\* the screen stay inside the image as long as no drawing has left it
\* (main.c:323 and 336).
THEOREM CopiesStayInside == Spec => []CopyInside
<1>1. Init => RangeInv  BY NPixNat DEF Init, RangeInv, FullRange
<1>2. TypeOK /\ RangeInv /\ [Next]_vars => RangeInv'  BY RangeInductive
<1>3. TypeOK /\ RangeInv => CopyInside
  BY NPixNat DEF TypeOK, RangeInv, CopyInside, CopySet, Pixels
<1> QED BY <1>1, <1>2, <1>3, BoardTypeCorrect, PTL DEF Spec
===========================================================================
