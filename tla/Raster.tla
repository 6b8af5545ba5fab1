------------------------------ MODULE Raster ------------------------------
(***************************************************************************)
(* The frame geometry of the drawing board and the line rasteriser it      *)
(* shares with the pixel-buffer driver (Nios/lib_bitmap.c, fillLine).      *)
(*                                                                         *)
(* A pixel is its offset y*W + x in the row-major DRAM image, as in every  *)
(* instruction the phone sends.  fillLine runs Bresenham's loop along the  *)
(* longer axis; the loop is the recursive function Walk.                   *)
(***************************************************************************)
EXTENDS Integers

CONSTANTS W, H       \* STD_W and STD_H: columns and rows of the image

ASSUME SizeAssumption == W \in Nat \ {0} /\ H \in Nat \ {0}

NPix == W * H
Pixels == 0 .. NPix - 1

Abs(n) == IF n < 0 THEN -n ELSE n

PX(p) == p % W
PY(p) == p \div W

\* More rows than columns to cross: the loop then runs along y.
Steep(p, q) == Abs(PY(q) - PY(p)) > Abs(PX(q) - PX(p))

\* A pixel as <<major, minor>> coordinates, the axes exchanged if steep.
Axes(p, steep) == IF steep THEN <<PY(p), PX(p)>> ELSE <<PX(p), PY(p)>>

\* The end points ordered along the major axis.
Ends(p, q) ==
  LET a == Axes(p, Steep(p, q))
      b == Axes(q, Steep(p, q))
  IN IF a[1] > b[1] THEN [lo |-> b, hi |-> a] ELSE [lo |-> a, hi |-> b]

DeltaX(p, q) == Ends(p, q).hi[1] - Ends(p, q).lo[1]
DeltaY(p, q) == Abs(Ends(p, q).hi[2] - Ends(p, q).lo[2])
YStep(p, q)  == IF Ends(p, q).lo[2] < Ends(p, q).hi[2] THEN 1 ELSE -1

\* Minor coordinate and error term at the k-th iteration of the loop.
Walk(p, q) ==
  LET dx == DeltaX(p, q)
      dy == DeltaY(p, q)
      w[k \in 0 .. dx] ==
        IF k = 0
        THEN [minor |-> Ends(p, q).lo[2], err |-> -(dx \div 2)]
        ELSE LET e == w[k-1].err + dy
             IN IF e > 0
                THEN [minor |-> w[k-1].minor + YStep(p, q), err |-> e - dx]
                ELSE [minor |-> w[k-1].minor, err |-> e]
  IN w

\* The image offset the k-th iteration passes to fillPixel.
Plot(p, q, k) ==
  LET major == Ends(p, q).lo[1] + k
      minor == Walk(p, q)[k].minor
  IN IF Steep(p, q) THEN major * W + minor ELSE minor * W + major

\* Every offset written by fillLine(image, p, q, ...).
LinePixels(p, q) == {Plot(p, q, k) : k \in 0 .. DeltaX(p, q)}
===========================================================================
