------------------------------- MODULE Panel -------------------------------
(***************************************************************************)
(* What the board shows beside its picture: the seven-segment displays     *)
(* (wk_io.c), the character buffer over the picture and the character LCD  *)
(* (their drivers).                                                        *)
(*                                                                         *)
(* hexPrintNum stores a 0 through a plain pointer, that is, into the data  *)
(* cache of the processor, and everything else past it.  The cache line    *)
(* holds HEX0 and HEX1; it reaches them when the cache needs its place.    *)
(*                                                                         *)
(* Bounds: HexPlaces displays, the calls of HexCalls, TextCalls, LcdPlaces *)
(* and Shifts, the ScreenSizes, and FarthestCell for the LCD's cursor.     *)
(***************************************************************************)
EXTENDS Integers, FiniteSetsExt

CONSTANTS
  HexPlaces,       \* 8
  HexCalls,        \* [num, base]
  ScreenSizes,     \* resolutions of the character buffer: [x, y]
  TextCalls,       \* [x, y, length] of strings
  LcdPlaces,       \* x and y of cursor positions
  Shifts,          \* how far the LCD's cursor or display is sent
  MaxPictures      \* bound on the times the display is

ASSUME PanelAssumption ==
  /\ HexPlaces \in Nat /\ HexPlaces > 1 /\ Shifts \subseteq Int
  /\ MaxPictures \in Nat
  /\ \A c \in HexCalls : c.num \in Int /\ c.base \in Int

VARIABLES
  showing,         \* which of the three the behaviour uses
  hex,             \* what each display shows, a digit or Dark
  hexLine,         \* HEX0 and HEX1 in the data cache, or NotCached
  hexLast,         \* history: the last call that showed a number
  zeroed,          \* history: a 0 has been printed
  charScreen,      \* the resolution found
  textCall,        \* history: the string drawn, and what the call returned
  text,            \* the character buffer: [at, char], char the index in the string
  lcd,             \* the LCD's controller: DDRAM address of the cursor, where the
                   \* display begins, whether it and the cursor are shown
  lcdWanted,       \* history: cell the calls lead to, counted over both rows
  shiftWanted,     \* history: how far the calls moved the display
  lcdPictures,     \* how often
  farShift         \* history: a shift by 256 or more

panelVars == <<showing, hex, hexLine, hexLast, zeroed, charScreen, textCall, text,
               lcd, lcdWanted, shiftWanted, lcdPictures, farShift>>
hexVars == <<hex, hexLine, hexLast, zeroed>>
textVars == <<charScreen, textCall, text>>
lcdVars == <<lcd, lcdWanted, shiftWanted, lcdPictures, farShift>>

Dark == -1
Places == 0 .. HexPlaces - 1
NotCached == [at |-> {}]
NoText == [length |-> 0, result |-> 0]

PanelInitOf(uses) ==
  /\ showing \in uses
  /\ hex = [i \in Places |-> Dark] /\ hexLine = NotCached
  /\ hexLast = [num |-> 0, base |-> 10] /\ zeroed = FALSE
  /\ charScreen \in (IF "text" \in uses THEN ScreenSizes ELSE {[x |-> 80, y |-> 60]})
  /\ textCall = NoText /\ text = {}
  /\ lcd = [address |-> 0, shift |-> 0, shown |-> TRUE, cursor |-> "off"]
  /\ lcdWanted = 0 /\ shiftWanted = 0 /\ lcdPictures = 0 /\ farShift = FALSE

PanelInit == PanelInitOf({"hex", "text", "lcd"})
PanelIdle == PanelInitOf({"nothing"})

---------------------------------------------------------------------------
(* The seven-segment displays *)

Magnitude(n) == IF n < 0 THEN -n ELSE n

\* C's remainder of a negative number is negative, and no digit but 0.
HexPrinted(num, base) ==
  [i \in Places |->
     LET rest == Magnitude(num) \div base ^ i
     IN IF rest # 0 /\ (num > 0 \/ rest % base = 0) THEN rest % base ELSE Dark]

\* *Hex[0] = DIGIT0: a store that misses loads the line first.
StoreZero ==
  hexLine' = [at |-> {0, 1}, hex0 |-> 0,
              hex1 |-> IF hexLine = NotCached THEN hex[1] ELSE hexLine.hex1]

HexPrintNum(num, base) ==
  /\ base \in 2 .. 16
  /\ IF num = 0
     THEN /\ StoreZero /\ zeroed' = TRUE
          /\ hex' = [i \in Places |-> IF i = 0 THEN hex[0] ELSE Dark]
     ELSE hex' = HexPrinted(num, base) /\ UNCHANGED <<hexLine, zeroed>>
  /\ hexLast' = [num |-> num, base |-> base]

ClrHex ==
  /\ hex' = [i \in Places |-> Dark]
  /\ hexLast' = [num |-> 0, base |-> 10]
  /\ UNCHANGED <<hexLine, zeroed>>

\* The cache needs the place of the line.
WriteBack ==
  /\ hexLine # NotCached /\ hexLine' = NotCached
  /\ hex' = [hex EXCEPT ![0] = hexLine.hex0, ![1] = hexLine.hex1]
  /\ UNCHANGED <<hexLast, zeroed>>

UseHex ==
  /\ showing = "hex"
  /\ ClrHex \/ WriteBack \/ \E c \in HexCalls : HexPrintNum(c.num, c.base)
  /\ UNCHANGED <<showing, textVars, lcdVars>>

---------------------------------------------------------------------------
(* The character buffer: a row of cells for each value of y, more cells    *)
(* than are seen                                                           *)

\* ..._WITH_DMA_INIT: masks and offset for the resolution found.
XCoordMask == IF charScreen.x <= 64 THEN 63 ELSE 127
YCoordMask == IF charScreen.y <= 32 THEN 31 ELSE 63
RowStart(y) == y * (IF charScreen.x <= 64 THEN 64 ELSE 128)

\* An unsigned coordinate: a negative one is past every screen.
OffScreen(x, y) == x < 0 \/ x >= charScreen.x \/ y < 0 \/ y >= charScreen.y

\* The characters written before x reaches the resolution.
Fitting(x, length) == Min({length, charScreen.x - x})

\* alt_up_char_buffer_string; it fails at the end of the row, after writing.
CharBufferString(x, y, length) ==
  /\ textCall' = [x |-> x, y |-> y, length |-> length,
                  result |-> IF OffScreen(x, y) \/ (length > 0 /\ x + length >= charScreen.x)
                             THEN -1 ELSE 0]
  /\ text' = IF OffScreen(x, y) THEN {}
             ELSE {[at |-> RowStart(y) + x + (k - 1), char |-> k] : k \in 1 .. Fitting(x, length)}

\* alt_up_char_buffer_draw, of a string of one character.
CharBufferDraw(x, y) ==
  /\ textCall' = [x |-> x, y |-> y, length |-> 1, result |-> IF OffScreen(x, y) THEN -1 ELSE 0]
  /\ text' = IF OffScreen(x, y) THEN {}
             ELSE {[at |-> (x % (XCoordMask + 1)) + RowStart(y % (YCoordMask + 1)), char |-> 1]}

\* alt_up_char_buffer_clear.
CharBufferClear == text' = {} /\ textCall' = NoText

UseText ==
  /\ showing = "text"
  /\ \/ CharBufferClear
     \/ textCall = NoText /\ \E c \in TextCalls :
          CharBufferString(c.x, c.y, c.length) \/ CharBufferDraw(c.x, c.y)
  /\ UNCHANGED <<showing, charScreen, hexVars, lcdVars>>

---------------------------------------------------------------------------
(* The character LCD: two rows of 40 cells, whose addresses start at 0 and *)
(* 64.  The controller moves from the end of a row to the other row; its   *)
(* display begins at any cell of the rows.                                 *)

FarthestCell == 160
Columns == 40
AddressOf(cell) == IF cell < Columns THEN cell ELSE 64 + (cell - Columns)
CellOf(address) == IF address < 64 THEN address ELSE Columns + (address - 64)

\* The commands of the controller.
CLEAR_DISPLAY == 1
CURSOR_OFF == 12
CURSOR_BLINK_ON == 15
CURSOR_SHIFT_RIGHT == 20
CURSOR_SHIFT_LEFT == 16
DISPLAY_SHIFT_RIGHT == 28
DISPLAY_SHIFT_LEFT == 24
DDRAM_ADDRESS == 128

Bit(cmd, place) == (cmd \div place) % 2 = 1

CursorOf(on, blinks) == IF blinks THEN "blinks" ELSE IF on THEN "on" ELSE "off"

\* A character that is written moves the cursor on.
Advanced(l, cells) == [l EXCEPT !.address = AddressOf((CellOf(@) + cells) % (2 * Columns))]

\* What the controller makes of a command that comes n times: the highest bit
\* that is set says which command it is.
Obey(l, cmd, n) ==
  LET by == IF Bit(cmd, 4) THEN n ELSE -n
  IN CASE Bit(cmd, 128) -> [l EXCEPT !.address = AddressOf(CellOf(cmd - 128))]
       [] cmd \in 16 .. 31 /\ Bit(cmd, 8) -> [l EXCEPT !.shift = (@ + by) % Columns]
       [] cmd \in 16 .. 31 /\ ~Bit(cmd, 8) -> Advanced(l, by)
       [] cmd \in 8 .. 15 -> [l EXCEPT !.shown = Bit(cmd, 4), !.cursor = CursorOf(Bit(cmd, 2), Bit(cmd, 1))]
       [] cmd \in 1 .. 3 -> [l EXCEPT !.address = 0, !.shift = 0]

\* alt_up_character_lcd_send_cmd.
SendCmd(cmd) == lcd' = Obey(lcd, cmd, 1)

GetDDRAMAddr(x, y) == DDRAM_ADDRESS + (IF y = 0 THEN x ELSE x + 64)

\* set_cursor_pos: nothing, and -1, for a place that is not there.
Settles(x, y, written) ==
  /\ IF x \in 0 .. 39 /\ y \in 0 .. 1
     THEN /\ lcd' = Advanced(Obey(lcd, GetDDRAMAddr(x, y), 1), written)
          /\ lcdWanted' = Columns * y + x + written
     ELSE UNCHANGED <<lcd, lcdWanted>>
  /\ UNCHANGED <<shiftWanted, lcdPictures, farShift>>
SetCursorPos(x, y) == Settles(x, y, 0)
ErasePos(x, y) == Settles(x, y, 1)

\* alt_up_character_lcd_write, also through a descriptor, and _string.
LcdString(length) ==
  /\ lcd' = Advanced(lcd, length) /\ lcdWanted' = lcdWanted + length
  /\ UNCHANGED <<shiftWanted, lcdPictures, farShift>>

\* The count of both shifts is an unsigned char.
Steps(offset) == Magnitude(offset) % 256
SendShift(offset, right, left) ==
  /\ offset # 0
  /\ lcd' = Obey(lcd, IF offset > 0 THEN right ELSE left, Steps(offset))
  /\ farShift' = (farShift \/ Magnitude(offset) > 255)

ShiftCursor(offset) ==
  /\ SendShift(offset, CURSOR_SHIFT_RIGHT, CURSOR_SHIFT_LEFT)
  /\ lcdWanted' = lcdWanted + offset /\ UNCHANGED <<shiftWanted, lcdPictures>>

ShiftDisplay(offset) ==
  /\ SendShift(offset, DISPLAY_SHIFT_RIGHT, DISPLAY_SHIFT_LEFT)
  /\ shiftWanted' = shiftWanted + offset /\ lcdPictures' = lcdPictures + 1
  /\ UNCHANGED lcdWanted

CursorOff == SendCmd(CURSOR_OFF) /\ UNCHANGED <<lcdWanted, shiftWanted, lcdPictures, farShift>>
CursorBlinkOn == SendCmd(CURSOR_BLINK_ON) /\ UNCHANGED <<lcdWanted, shiftWanted, lcdPictures, farShift>>

\* alt_up_character_lcd_init clears the display.
LcdInit ==
  /\ SendCmd(CLEAR_DISPLAY)
  /\ lcdWanted' = 0 /\ shiftWanted' = 0 /\ farShift' = FALSE /\ UNCHANGED lcdPictures

UseLcd ==
  /\ showing = "lcd" /\ lcdWanted \in -FarthestCell .. FarthestCell
  /\ \/ LcdInit \/ LcdString(3) \/ CursorOff \/ CursorBlinkOn
     \/ \E p \in LcdPlaces : SetCursorPos(p.x, p.y) \/ ErasePos(p.x, p.y)
     \/ \E s \in Shifts : ShiftCursor(s) \/ (lcdPictures < MaxPictures /\ ShiftDisplay(s))
  /\ UNCHANGED <<showing, hexVars, textVars>>

PanelNext == UseHex \/ UseText \/ UseLcd

---------------------------------------------------------------------------
(* Properties *)

\* The displays read as the last number, modulo what they can hold, without a
\* digit of an earlier one; only HEX0 and HEX1 may be wrong, and only once a 0
\* has gone through the cache (wk_io.c:34-117).
HexShows ==
  LET low == IF zeroed THEN 2 ELSE 0
      base == hexLast.base
      Value[i \in low .. HexPlaces] ==
        IF i = HexPlaces THEN 0
        ELSE (IF hex[i] = Dark THEN 0 ELSE hex[i]) + base * Value[i + 1]
  IN IF hexLast.num >= 0
     THEN /\ Value[low] = (hexLast.num % base ^ HexPlaces) \div base ^ low
          /\ \A i \in low .. HexPlaces - 1 :
               hex[i] = Dark => \A j \in i .. HexPlaces - 1 : hex[j] = Dark
     ELSE \A i \in low .. HexPlaces - 1 : hex[i] \in {0, Dark}

\* A string shows from its place to the end of its row, never in another row,
\* and fails if it did not all show
\* (altera_up_avalon_video_character_buffer_with_dma.c:63-95).
TextClipped ==
  LET row == RowStart(1)
      seen == {k \in 0 .. textCall.length - 1 : ~OffScreen(textCall.x + k, textCall.y)
                                                /\ ~OffScreen(textCall.x, textCall.y)}
  IN textCall # NoText =>
       /\ text = {[at |-> row * textCall.y + textCall.x + k, char |-> k + 1] : k \in seen}
       /\ Cardinality(seen) < textCall.length => textCall.result = -1

\* The cursor and the display are where the calls lead, rows end to end and
\* around, as long as no shift is of 256 or more, and no command is taken for
\* another one: the display stays on, the cursor off or blinking
\* (altera_up_avalon_character_lcd.c:141-212).
CursorFollows ==
  /\ ~farShift => /\ CellOf(lcd.address) = lcdWanted % (2 * Columns)
                  /\ lcd.shift = shiftWanted % Columns
  /\ lcd.shown /\ lcd.cursor \in {"off", "blinks"}

===========================================================================
