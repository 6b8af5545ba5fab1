------------------------------- MODULE Bitmap -------------------------------
(***************************************************************************)
(* The screen as a bitmap of 24 bits a pixel: scr16ToBitmap24, and the     *)
(* header that bitmapToSDcard serialises (lib_bitmap.c).  SaveBmp has what *)
(* becomes of the bytes on the card.                                       *)
(*                                                                         *)
(* A byte of the image is known by what is stored there: the offset of the *)
(* screen's pixel and the channel, or nothing in the padding of a row.     *)
(***************************************************************************)
EXTENDS Integers, Sequences

CONSTANTS
  Screens,         \* [width, height] of the screens captured
  Colours          \* colours of 16 bits

ASSUME BitmapAssumption ==
  /\ Screens \subseteq [width : Nat \ {0}, height : Nat \ {0}]
  /\ \A s \in Screens : s.width * s.height * 3 <= 2147483647 - 54
  /\ \A c \in Colours : c \in Nat /\ c < 65536

VARIABLES
  bmp,             \* the_bmp, but for the image, or NoBitmap
  image,           \* the_bmp->image
  data,            \* the header as it goes to the card
  c16, c24         \* a colour and what becomes of it
bitmapVars == <<bmp, image, data, c16, c24>>

NoBitmap == << >>
BitmapInit == bmp = NoBitmap /\ image = << >> /\ data = << >> /\ c16 = 0 /\ c24 = << >>

Color16to24(c) == <<(c \div 2048) * 8, ((c \div 32) % 64) * 4, (c % 32) * 8>>

NumBytes(s) == s.width * s.height * 3
RowPad(s) == (s.width * 3) % 4
RowBytes(s) == s.width * 3 + RowPad(s)

\* The bytes of a row at which a pixel begins.
RowColumns(s) == {j \in 0 .. s.width * 3 - 1 : j % 3 = 0}

\* Seeded bug: the rows of the screen are counted in bytes as well.
PixelByBytes(s, i, j) == i * s.width * 3 + j

\* The screen's pixel for the byte j of row i: every third, from its own row on.
PixelAt(s, i, j) == i * s.width + j

Padding == << >>
Image(s) ==
  LET pixels == {<<i, j, ch>> : i \in 0 .. s.height - 1, j \in RowColumns(s), ch \in 0 .. 2}
      pads == {i * RowBytes(s) - RowPad(s) + j : i \in 0 .. s.height - 1, j \in 0 .. RowPad(s) - 1}
      At(p) == p[1] * RowBytes(s) + p[2] + p[3]
  IN [k \in pads \cup {At(p) : p \in pixels} |->
        IF k \in pads THEN Padding
        ELSE LET p == CHOOSE p \in pixels : At(p) = k
             IN <<PixelAt(s, p[1], p[2]), p[3]>>]

BM == 66 + 256 * 77
HeaderSize == 54

Bitmap24(s) ==
  [signature |-> BM, tot_size |-> HeaderSize + NumBytes(s), res1 |-> 0, res2 |-> 0,
   offset |-> HeaderSize, dib_size |-> 40, width |-> s.width, height |-> s.height,
   num_planes |-> 1, b_per_pixel |-> 24, compression_mode |-> 0, raw_size |-> NumBytes(s),
   horiz_res |-> 0, vert_res |-> 0, palette_sz |-> 0, important_c_count |-> 0]

\* Where the fields begin in the header: some have four bytes, the others two.
IntAt == [tot_size |-> 2, offset |-> 10, dib_size |-> 14, width |-> 18, height |-> 22,
          compression_mode |-> 30, raw_size |-> 34, horiz_res |-> 38, vert_res |-> 42,
          palette_sz |-> 46, important_c_count |-> 50]
ShortAt == [signature |-> 0, res1 |-> 6, res2 |-> 8, num_planes |-> 26, b_per_pixel |-> 28]

\* Byte by byte from the lowest, as the processor keeps them.
Weight == <<1, 256, 65536, 16777216>>
HeaderByte(value, k) == (value \div Weight[k]) % 256

\* One assignment for each byte of each field.
Serialised(b) ==
  LET ints == {<<f, k>> : f \in DOMAIN IntAt, k \in 1 .. 4}
      shorts == {<<f, k>> : f \in DOMAIN ShortAt, k \in 1 .. 2}
      At(p) == (IF p \in ints THEN IntAt[p[1]] ELSE ShortAt[p[1]]) + p[2]
  IN [n \in 1 .. HeaderSize |->
        LET p == CHOOSE p \in ints \cup shorts : At(p) = n IN HeaderByte(b[p[1]], p[2])]

\* saveBmp, of a screen with a pixel of colour c.
Capture(s, c) ==
  /\ bmp' = Bitmap24(s) /\ image' = Image(s) /\ data' = Serialised(Bitmap24(s))
  /\ c16' = c /\ c24' = Color16to24(c)

BitmapNext == bmp = NoBitmap /\ \E s \in Screens, c \in Colours : Capture(s, c)

---------------------------------------------------------------------------
(* Properties *)

\* What a reader of the format finds n bytes long at an offset of the header.
Found(at, n) ==
  data[at + 1] + 256 * data[at + 2]
  + (IF n = 4 THEN 65536 * data[at + 3] + 16777216 * data[at + 4] ELSE 0)

\* A reader finds the sizes of the bitmap where the format has them: the file
\* is as long as header and pixels together (lib_bitmap.c:92-156).
HeaderReads ==
  bmp # NoBitmap =>
    /\ Found(0, 2) = BM /\ Found(2, 4) = Found(10, 4) + Found(34, 4) /\ Found(10, 4) = Len(data)
    /\ Found(14, 4) = Len(data) - 14
    /\ Found(18, 4) = bmp.width /\ Found(22, 4) = bmp.height
    /\ Found(26, 2) = 1 /\ Found(28, 2) = 24 /\ Found(30, 4) = 0

\* Every byte that goes to the card has been stored, and none is stored behind
\* the image or before it, as long as the rows need no padding
\* (lib_bitmap.c:36-72): the padding is not in numBytes, and that of the first
\* row is stored before the image.
ImageFilled == bmp # NoBitmap /\ bmp.width % 4 = 0 => DOMAIN image = 0 .. bmp.raw_size - 1

\* No pixel is read from more than two rows behind the end of the screen: the
\* column is counted in bytes where the screen's is in pixels (lib_bitmap.c:66).
ReadsNearby ==
  \A k \in DOMAIN image :
    image[k] # Padding => image[k][1] < (bmp.height + 2) * bmp.width

\* No colour is lost: the 16 bits can be had back from the 24
\* (lib_bitmap.c:16-25).
ColoursKept == c24 # << >> => c16 = (c24[1] \div 8) * 2048 + (c24[2] \div 4) * 32 + c24[3] \div 8

\* A reader of the bitmap finds its header and every byte of its image, and for
\* each what scr16ToBitmap24 took for it (lib_bitmap.c:12-75, 89-177).
BitmapHolds == HeaderReads /\ ImageFilled /\ ReadsNearby /\ ColoursKept
=============================================================================
