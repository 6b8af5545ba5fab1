-------------------------------- MODULE Draw --------------------------------
(***************************************************************************)
(* The drawing functions of the pixel buffer driver, in both addressing    *)
(* modes and all three colour depths, and of wk_video.c: which bytes of    *)
(* the buffer a call writes.                                               *)
(*                                                                         *)
(* Coordinates are int parameters that the driver turns into unsigned      *)
(* ones; UIntSize is 2^32 in the source.  A set of bytes is a set of       *)
(* addresses from the start of the buffer.                                 *)
(***************************************************************************)
EXTENDS Integers, Sequences

CONSTANTS
  XRes, YRes,        \* resolution of the screen
  XBits, YBits,      \* widths of the coordinates, in bits
  UIntSize,
  Coords,            \* the coordinates of calls
  GridLines          \* columns and rows of the grid, 10 in the source

R == INSTANCE Raster WITH W <- XRes, H <- YRes

U(n) == n % UIntSize
Screen == (0 .. XRes - 1) \X (0 .. YRes - 1)

XY_ADDRESS_MODE == 0
COLOR_8BIT == 1
COLOR_16BIT == 2
COLOR_24BIT == 3

\* A field of n bits of a register.
BitField(word, ofst, n) == (word \div 2^ofst) % 2^n

\* The core's registers: the resolution, and the modes with the widths of the
\* coordinates.
Registers ==
  {[resolution |-> XRes + (2^16 * YRes),
    status |-> (2 * mode) + (2^4 * color) + (2^16 * XBits) + (2^24 * YBits)] :
     mode \in 0 .. 1, color \in {COLOR_8BIT, COLOR_16BIT, COLOR_24BIT}}

\* ..._PIXEL_BUFFER_DMA_INIT.
PixelBufferInit(regs) ==
  LET color == BitField(regs.status, 4, 4)
      wiw == BitField(regs.status, 16, 8)
      hiw == BitField(regs.status, 24, 8)
      offset == CASE color = COLOR_8BIT -> 0 [] color = COLOR_16BIT -> 1 [] OTHER -> 2
  IN [x_resolution |-> BitField(regs.resolution, 0, 16), y_resolution |-> BitField(regs.resolution, 16, 16),
      addressing_mode |-> BitField(regs.status, 1, 1), color_mode |-> color,
      x_coord_offset |-> offset, x_coord_mask |-> 2^wiw - 1,
      y_coord_offset |-> wiw + offset, y_coord_mask |-> 2^hiw - 1]

Buffers == {PixelBufferInit(regs) : regs \in Registers}

\* The bytes of a pixel, and those of its value.
Depth(dev) == CASE dev.color_mode = COLOR_8BIT -> 1 [] dev.color_mode = COLOR_16BIT -> 2 [] OTHER -> 4
At(dev, address) == address .. address + Depth(dev) - 1

---------------------------------------------------------------------------
(* alt_up_pixel_buffer_dma *)

\* The row of an address.
RowOffset(dev, y) ==
  IF dev.addressing_mode = XY_ADDRESS_MODE THEN y * 2^dev.y_coord_offset
  ELSE y * dev.x_resolution * 2^dev.x_coord_offset

\* alt_up_pixel_buffer_dma_draw.
PixelBytes(dev, x, y) ==
  IF x >= dev.x_resolution \/ y >= dev.y_resolution THEN {}
  ELSE At(dev, ((x % (dev.x_coord_mask + 1)) * 2^dev.x_coord_offset)
               + RowOffset(dev, y % (dev.y_coord_mask + 1)))

\* The pixels of a block, whose corners are inside.
Block(dev, l, r, t, b) ==
  UNION {At(dev, RowOffset(dev, y) + (x * 2^dev.x_coord_offset)) : x \in l .. r, y \in t .. b}

Smaller(a, b) == IF a > b THEN b ELSE a
Larger(a, b) == IF a > b THEN a ELSE b

\* Seeded bug: the clipped edge is one too far.
ClipLate(n, limit) == IF n >= limit THEN limit ELSE n

\* The tests for negative coordinates are on unsigned ones and never hold.
Clip(n, limit) == IF n >= limit THEN limit - 1 ELSE n

BoxBytes(dev, x0, y0, x1, y1) ==
  LET l == Smaller(U(x0), U(x1))
      t == Smaller(U(y0), U(y1))
  IN IF l >= dev.x_resolution \/ t >= dev.y_resolution THEN {}
     ELSE Block(dev, l, Clip(Larger(U(x0), U(x1)), dev.x_resolution), t, Clip(Larger(U(y0), U(y1)), dev.y_resolution))

HLineBytes(dev, x0, x1, y) ==
  LET l == Smaller(U(x0), U(x1))
  IN IF l >= dev.x_resolution \/ U(y) >= dev.y_resolution THEN {}
     ELSE Block(dev, l, Clip(Larger(U(x0), U(x1)), dev.x_resolution), U(y), U(y))

VLineBytes(dev, x, y0, y1) ==
  LET t == Smaller(U(y0), U(y1))
  IN IF U(x) >= dev.x_resolution \/ t >= dev.y_resolution THEN {}
     ELSE Block(dev, U(x), U(x), t, Clip(Larger(U(y0), U(y1)), dev.y_resolution))

RectangleBytes(dev, x0, y0, x1, y1) ==
  HLineBytes(dev, x0, x1, y0) \cup HLineBytes(dev, x0, x1, y1) \cup
  VLineBytes(dev, x0, y0, y1) \cup VLineBytes(dev, x1, y0, y1)

LineSize(dev) ==
  IF dev.addressing_mode = XY_ADDRESS_MODE THEN 2^(dev.y_coord_offset - dev.x_coord_offset)
  ELSE dev.x_resolution

\* helper_plot_pixel.
PlotBytes(dev, x, y) == At(dev, (LineSize(dev) * y + x) * Depth(dev))

\* draw_line between points of the screen: fillLine's loop (module Raster).
LineBytes(dev, x0, y0, x1, y1) ==
  UNION {PlotBytes(dev, R!PX(p), R!PY(p)) :
           p \in R!LinePixels((y0 * XRes) + x0, (y1 * XRes) + x1)}

\* clear_screen works in words; it takes a depth of one for one of four.
ClearBytes(dev) ==
  LET width == dev.x_resolution * (IF dev.color_mode = COLOR_16BIT THEN 2 ELSE 4)
      words == (width + 3) \div 4
  IN IF dev.addressing_mode = XY_ADDRESS_MODE THEN UNION {RowOffset(dev, y) .. RowOffset(dev, y) + (4 * words) - 1 : y \in 0 .. dev.y_resolution - 1}
     ELSE 0 .. 4 * (((width * dev.y_resolution) + 3) \div 4) - 1

---------------------------------------------------------------------------
(* wk_video.c and main.c *)

FillScrBytes(dev) == BoxBytes(dev, 0, 0, XRes, YRes)

DrawBoxBytes(dev, x0, y0, x1, y1, fill) ==
  IF fill THEN BoxBytes(dev, x0, y0, x1, y1) ELSE RectangleBytes(dev, x0, y0, x1, y1)

\* Its parameters are x0, x1, y0, y1; draw_line's are x0, y0, x1, y1.
DrawLineBytes(dev, x0, x1, y0, y1) ==
  CASE x0 = x1             -> VLineBytes(dev, x0, y0, y1)
    [] x0 # x1 /\ y0 = y1  -> HLineBytes(dev, x0, x1, y0)
    [] x0 # x1 /\ y0 # y1  -> LineBytes(dev, x0, x1, y0, y1)

\* drawPoly, from each point to the next and from the last to the first.
DrawPolyBytes(dev, points) ==
  UNION {LET here == points[i]  there == points[(i % Len(points)) + 1]
         IN DrawLineBytes(dev, here.x, there.x, here.y, there.y) : i \in DOMAIN points}

\* drawGrid, which gives drawLine x0, y0, x1, y1.
GridUpTo(dev, last) ==
  DrawLineBytes(dev, 0, 0, 0, YRes - 1) \cup
  DrawLineBytes(dev, XRes - 1, 0, XRes - 1, YRes - 1) \cup
  DrawLineBytes(dev, 0, YRes - 1, XRes - 1, YRes - 1) \cup
  DrawLineBytes(dev, 0, 0, XRes - 1, 0) \cup
  UNION {DrawLineBytes(dev, i * (XRes \div GridLines), 0, i * (XRes \div GridLines), YRes - 1) \cup
         DrawLineBytes(dev, 0, i * (YRes \div GridLines), XRes - 1, i * (YRes \div GridLines)) :
           i \in 1 .. last}

GridBytes(dev) == GridUpTo(dev, GridLines - 1)

---------------------------------------------------------------------------
(* One call on one device *)

NoDrawing == [op |-> "none"]
Corners == [op : {"box", "rectangle", "poly", "hline", "vline", "line"},
            x0 : Coords, y0 : Coords, x1 : Coords, y1 : Coords]
OnScreen(d) == <<d.x0, d.y0>> \in Screen /\ <<d.x1, d.y1>> \in Screen

\* draw_line leaves it to its callers to stay inside the screen.
Drawings ==
  {d \in Corners : d.op = "line" => OnScreen(d)} \cup
  [op : {"clear", "fill", "grid"}]

VARIABLES device, drawing, drawn    \* drawn: the bytes written, in a set of one
drawVars == <<device, drawing, drawn>>

DrawIdle == device = [color_mode |-> 0] /\ drawing = NoDrawing /\ drawn = {}
DrawInit == device \in Buffers /\ drawing \in Drawings /\ drawn = {}

CornersOf(d) == <<[x |-> d.x0, y |-> d.y0], [x |-> d.x1, y |-> d.y0],
                  [x |-> d.x1, y |-> d.y1], [x |-> d.x0, y |-> d.y1]>>

BytesOf(dev, d) ==
  CASE d.op = "box"       -> DrawBoxBytes(dev, d.x0, d.y0, d.x1, d.y1, TRUE)
    [] d.op = "rectangle" -> DrawBoxBytes(dev, d.x0, d.y0, d.x1, d.y1, FALSE)
    [] d.op = "poly"      -> DrawPolyBytes(dev, CornersOf(d))
    [] d.op = "hline"     -> HLineBytes(dev, d.x0, d.x1, d.y0)
    [] d.op = "vline"     -> VLineBytes(dev, d.x0, d.y0, d.y1)
    [] d.op = "line"      -> LineBytes(dev, d.x0, d.y0, d.x1, d.y1)
    [] d.op = "clear"     -> ClearBytes(dev)
    [] d.op = "fill"      -> FillScrBytes(dev)
    [] d.op = "grid"      -> GridBytes(dev)

Drawn ==
  /\ drawing # NoDrawing /\ drawn = {}
  /\ drawn' = {BytesOf(device, drawing)}
  /\ UNCHANGED <<device, drawing>>

---------------------------------------------------------------------------
(* Properties *)

PixelsBytes(S) == UNION {PixelBytes(device, p[1], p[2]) : p \in S}

\* A coordinate between two others; a negative one lies beyond the right or
\* lower edge for the driver.
Between(a, n, b) == Smaller(U(a), U(b)) <= n /\ n <= Larger(U(a), U(b))
Inside(d) == {p \in Screen : Between(d.x0, p[1], d.x1) /\ Between(d.y0, p[2], d.y1)}
Edge(d) == {p \in Inside(d) : p[1] \in {U(d.x0), U(d.x1)} \/ p[2] \in {U(d.y0), U(d.y1)}}

\* Boxes, rectangles, drawn as such or as polygons, and straight lines write
\* exactly the pixels of the shape that are on the screen, each where
\* alt_up_pixel_buffer_dma_draw would, in every mode and depth that the core's
\* registers tell; a rectangle loses a side that is off the screen
\* (altera_up_avalon_video_pixel_buffer_dma.c:47-79, 158-502,
\* altera_up_avalon_video_pixel_buffer_dma.h:206-240).
DrawsClipped ==
  \A bytes \in drawn :
    LET d == drawing
    IN CASE d.op = "box"       -> bytes = PixelsBytes(Inside(d))
         [] d.op \in {"rectangle", "poly"} -> bytes = PixelsBytes(Edge(d))
         [] d.op = "hline"     -> bytes = PixelsBytes({p \in Inside([d EXCEPT !.y1 = d.y0]) : TRUE})
         [] d.op = "vline"     -> bytes = PixelsBytes({p \in Inside([d EXCEPT !.x1 = d.x0]) : TRUE})
         [] d.op = "fill"      -> bytes = PixelsBytes(Screen)
         [] OTHER              -> TRUE

\* The bytes of the screen.
Buffer == PixelsBytes(Screen)

\* A line written by address stays in the buffer and has both its ends and a
\* pixel in every column or row between; clear_screen writes every pixel, and
\* nothing else unless a pixel has one byte, when it writes four times as much
\* (altera_up_avalon_video_pixel_buffer_dma.c:110-156, 519-595).
LinesAndClears ==
  \A bytes \in drawn :
    LET d == drawing
    IN /\ d.op = "line" =>
            /\ bytes \subseteq Buffer
            /\ PixelBytes(device, d.x0, d.y0) \cup PixelBytes(device, d.x1, d.y1) \subseteq bytes
            /\ \/ \A x \in Smaller(d.x0, d.x1) .. Larger(d.x0, d.x1) :
                    \E y \in 0 .. YRes - 1 : PixelBytes(device, x, y) \subseteq bytes
               \/ \A y \in Smaller(d.y0, d.y1) .. Larger(d.y0, d.y1) :
                    \E x \in 0 .. XRes - 1 : PixelBytes(device, x, y) \subseteq bytes
       /\ d.op = "clear" => Buffer \subseteq bytes /\ (Depth(device) # 1 => bytes = Buffer)

\* The grid has a line every tenth of the screen and along the left, right and
\* lower edge.  The line along the upper edge is not drawn: drawLine compares
\* the first two of its arguments, which are 0 and 0, and draws the left one
\* again (main.c:47-61, wk_video.c:67-75).
GridDrawn ==
  \A bytes \in drawn :
    drawing.op = "grid" =>
      LET columns == {i * (XRes \div GridLines) : i \in 0 .. GridLines - 1} \cup {XRes - 1}
          rows == {i * (YRes \div GridLines) : i \in 1 .. GridLines - 1} \cup {YRes - 1}
      IN bytes = PixelsBytes({p \in Screen : p[1] \in columns \/ p[2] \in rows})
===========================================================================
