------------------------------- MODULE Board -------------------------------
(***************************************************************************)
(* The render loop of the DE2 drawing board (Nios/main.c).                 *)
(*                                                                         *)
(* main() polls the RS232 port for one instruction, executes it on the     *)
(* DRAM image, looks at the grid switch and, when the alarm interrupt has  *)
(* asked for it, copies the image (or the dirty range of it) to the hidden *)
(* VRAM buffer, draws the grid there, exchanges the buffers and repeats    *)
(* the copy on the buffer that has become hidden.                          *)
(*                                                                         *)
(* The processes are main() (a program counter over the points where an    *)
(* interrupt can be told apart), the alarm interrupt, the video hardware   *)
(* that completes a swap at its refresh, and the person at the switch.     *)
(* The bytes of an instruction are the business of module Uart; here an    *)
(* instruction arrives whole, as instr_make leaves it.                     *)
(***************************************************************************)
EXTENDS Raster, FiniteSetsExt

CONSTANTS
  Color,        \* the 16-bit colours an instruction can carry
  White,        \* 0xffff, the colour of the first instruction
  Black,        \* what clrScr leaves in VRAM
  GridColor,    \* GRID_COLOR, told apart from every drawn colour
  GridPixels,   \* the pixels drawGrid covers
  Cmds,         \* the commands the sender uses
  Targets,      \* the pixel offsets the sender uses, W*H passes instr_make
  Garbage,      \* the values an uninitialised prev_pix may have
  Pace          \* how soon the sender's next instruction may arrive

AllCmds == {"FILL_PIXEL", "FILL_SCR", "FILL_COLOR", "QUIT", "SAVE",
            "LINE_START", "LINE_PT", "LINE_END", "NONE"}

ASSUME BoardAssumption ==
  /\ White \in Color
  /\ GridColor \notin Color \cup {Black}
  /\ GridPixels \subseteq Pixels
  /\ Cmds \subseteq AllCmds
  /\ Targets \subseteq 0 .. NPix
  /\ Garbage \subseteq Nat
  /\ Pace \in {"free", "started", "framed"}

VARIABLES
  pc,            \* where main() is
  image,         \* the DRAM image
  vram,          \* the two VRAM buffers
  front,         \* the buffer the video hardware scans out
  swapping,      \* the hardware's swap-pending status bit
  dev_back,      \* the driver's back_buffer_start_address
  back_buffer,   \* main()'s pointer to the back buffer
  range,         \* the dirty range [start, stop, sync]
  redraw, run, instr, instr_isnew, prev_pix,   \* locals of main()
  sw,            \* the slide switch, GET_SW & 1
  grid_on, grid_was_on,
  buf_swap, check_uart, buf_swap_ctr,          \* shared with the interrupt
  stray,         \* history: an offset outside the image has been accessed
  unseen,        \* history: no swap block has followed the last instruction
  flipped        \* history: GridCheck has seen the switch change, and neither
                 \* an instruction nor a swap block has followed

flags == <<buf_swap, check_uart, buf_swap_ctr>>
screen == <<vram, front, swapping, dev_back, back_buffer>>
grid == <<sw, grid_on, grid_was_on>>
drawing == <<image, range, redraw, run, instr, instr_isnew, prev_pix,
             stray, unseen, flipped>>
vars == <<pc, flags, screen, grid, drawing>>

Buffers == {0, 1}
Instrs == [cmd : Cmds, pixel : Targets, color : Color]
FullRange == [start |-> NPix, stop |-> 0, sync |-> FALSE]

---------------------------------------------------------------------------
(* Helpers of main.c and lib_bitmap.c *)

\* fillPixel on every offset of S that lies in the image.
Filled(img, S, c) == [p \in Pixels |-> IF p \in S THEN c ELSE img[p]]

\* Seeded bugs: a stop that does not count the pixel, one that goes past it.
SetRangeInclusive(r, p) ==
  [start |-> IF p < r.start THEN p ELSE r.start,
   stop  |-> IF p > r.stop THEN p ELSE r.stop,
   sync  |-> TRUE]
SetRangePast(r, p) ==
  [start |-> IF p < r.start THEN p ELSE r.start,
   stop  |-> IF p + 2 > r.stop THEN p + 2 ELSE r.stop,
   sync  |-> TRUE]

SetRange(r, p) ==
  [start |-> IF p < r.start THEN p ELSE r.start,
   stop  |-> IF p + 1 > r.stop THEN p + 1 ELSE r.stop,
   sync  |-> TRUE]

\* The range bookkeeping at the head of fillLine: stop takes the offset
\* itself where setRange takes the one after it.
LineRange(r, p, q) ==
  [start |-> Min({r.start, p, q}),
   stop  |-> Max({r.stop, p, q}),
   sync  |-> TRUE]

\* fillColor's own rewrite of the range; sync is left as it was.
ColorRange(r, S) ==
  [start |-> IF S = {} THEN NPix ELSE Min(S),
   stop  |-> IF S = {} THEN 0 ELSE Max(S),
   sync  |-> r.sync]

\* Seeded bug: the last pixel is left out of the full copy.
CopySetShort ==
  IF range.sync THEN range.start .. range.stop - 1 ELSE 0 .. NPix - 2

\* The offsets imgToBbuffer copies for the current range.
CopySet == IF range.sync THEN range.start .. range.stop - 1 ELSE Pixels

\* The buffer contents b after imgToBbuffer.
Copied(b) == [p \in Pixels |-> IF p \in CopySet THEN image[p] ELSE b[p]]

WithGrid(b) == [p \in Pixels |-> IF p \in GridPixels THEN GridColor ELSE b[p]]

---------------------------------------------------------------------------
(* Initialisation: main.c up to the loop, both buffers cleared and the     *)
(* first instruction, a white FILL_SCR, waiting to be executed.            *)

Init ==
  /\ pc = "poll"
  /\ image \in [Pixels -> Color]
  /\ vram = [b \in Buffers |-> [p \in Pixels |-> Black]]
  /\ front = 0 /\ swapping = FALSE
  /\ dev_back = 1 /\ back_buffer = 1
  /\ range = FullRange
  /\ redraw = FALSE /\ run = TRUE
  /\ instr = [cmd |-> "FILL_SCR", pixel |-> 0, color |-> White]
  /\ instr_isnew = TRUE
  /\ prev_pix \in Garbage
  /\ sw \in {0, 1} /\ grid_on = 1 /\ grid_was_on = 0
  /\ buf_swap = TRUE /\ check_uart = FALSE /\ buf_swap_ctr = 0
  /\ stray = FALSE /\ unseen = (Pace = "framed") /\ flipped = FALSE

---------------------------------------------------------------------------
(* The alarm interrupt, the video hardware and the person at the switch *)

\* Seeded bug: the counter is signed and never reloaded.
CountDownSigned(c) == c - 1

\* buf_swap_ctr, an alt_u8, after a tick.
CountDown(c) == ((IF c = 0 THEN 2 ELSE c) + 255) % 256

\* Seeded bug: the tick at 0 forgets to ask for a swap.
NeverRequested == buf_swap

SwapRequested == buf_swap \/ buf_swap_ctr = 0

\* isr_alarm
Tick ==
  /\ buf_swap' = SwapRequested
  /\ check_uart' = TRUE
  /\ buf_swap_ctr' = CountDown(buf_swap_ctr)
  /\ UNCHANGED <<pc, screen, grid, drawing>>

\* At the refresh the hardware honours a pending swap.
Refresh ==
  /\ swapping
  /\ swapping' = FALSE
  /\ front' = 1 - front
  /\ UNCHANGED <<pc, vram, dev_back, back_buffer, flags, grid, drawing>>

FlipSwitch ==
  /\ sw' = 1 - sw
  /\ UNCHANGED <<pc, grid_on, grid_was_on, flags, screen, drawing>>

---------------------------------------------------------------------------
(* One pass of the main loop *)

AfterPoll(isnew) == IF isnew THEN "exec" ELSE "grid"

\* The flag is clear, or it was set and the receive FIFO is empty.
PollNothing ==
  /\ pc = "poll"
  /\ check_uart' = FALSE
  /\ pc' = AfterPoll(instr_isnew)
  /\ UNCHANGED <<buf_swap, buf_swap_ctr, screen, grid, drawing>>

\* The sender's pace, an assumption on the environment: at any time, only
\* once the first instruction has been executed, or at most one a frame (the
\* phone sends at most one every 50 ms).  The sender knows when it sent, and
\* nothing of the switch: a redraw asked for by GridCheck may be pending.
MayArrive ==
  CASE Pace = "free"    -> TRUE
    [] Pace = "started" -> ~instr_isnew
    [] Pace = "framed"  -> ~unseen

\* make_command and instr_make deliver instruction i.
Receive(i) ==
  /\ pc = "poll" /\ check_uart
  /\ MayArrive
  /\ check_uart' = FALSE
  /\ instr' = i /\ instr_isnew' = TRUE /\ unseen' = (Pace = "framed")
  /\ flipped' = FALSE
  /\ pc' = AfterPoll(TRUE)
  /\ UNCHANGED <<buf_swap, buf_swap_ctr, screen, grid,
                 image, range, redraw, run, prev_pix, stray>>

\* What is left in instr: the switch sets its cmd to NONE in most branches,
\* and no field is read again before instr_make rewrites them all.
Spent == [cmd |-> "NONE", pixel |-> 0, color |-> White]

\* What every branch of the switch shares.
Exec(cmd) ==
  /\ pc = "exec" /\ instr.cmd = cmd
  /\ pc' = "grid"
  /\ instr_isnew' = FALSE
  /\ instr' = Spent
  /\ UNCHANGED <<flags, screen, grid, unseen, flipped>>

FillPixel ==
  /\ Exec("FILL_PIXEL")
  /\ image' = Filled(image, {instr.pixel}, instr.color)
  /\ stray' = (stray \/ instr.pixel \notin Pixels)
  /\ range' = SetRange(range, instr.pixel)
  /\ redraw' = TRUE
  /\ UNCHANGED <<run, prev_pix>>

FillScr ==
  /\ Exec("FILL_SCR")
  /\ image' = Filled(image, Pixels, instr.color)
  /\ range' = FullRange
  /\ redraw' = TRUE
  /\ UNCHANGED <<run, prev_pix, stray>>

\* startColor is whatever lies behind the image when the pixel does not.
FillColor ==
  /\ Exec("FILL_COLOR")
  /\ \E c \in Color :
       LET S == {p \in Pixels : image[p] = c}
       IN /\ instr.pixel \in Pixels => c = image[instr.pixel]
          /\ image' = Filled(image, S, instr.color)
          /\ range' = ColorRange(range, S)
  /\ stray' = (stray \/ instr.pixel \notin Pixels)
  /\ redraw' = TRUE
  /\ UNCHANGED <<run, prev_pix>>

Quit ==
  /\ Exec("QUIT")
  /\ range' = FullRange
  /\ run' = FALSE
  /\ UNCHANGED <<image, redraw, prev_pix, stray>>

\* saveBmp only reads the image (module SaveBmp).
Save ==
  /\ Exec("SAVE")
  /\ range' = FullRange
  /\ UNCHANGED <<image, redraw, run, prev_pix, stray>>

LineStart ==
  /\ Exec("LINE_START")
  /\ image' = Filled(image, {instr.pixel}, instr.color)
  /\ stray' = (stray \/ instr.pixel \notin Pixels)
  /\ range' = SetRange(range, instr.pixel)
  /\ prev_pix' = instr.pixel
  /\ redraw' = TRUE
  /\ UNCHANGED run

LinePt ==
  /\ Exec("LINE_PT")
  /\ LET S == LinePixels(prev_pix, instr.pixel)
     IN /\ image' = Filled(image, S, instr.color)
        /\ stray' = (stray \/ ~(S \subseteq Pixels))
  /\ range' = LineRange(range, prev_pix, instr.pixel)
  /\ prev_pix' = instr.pixel
  /\ redraw' = TRUE
  /\ UNCHANGED run

LineEnd ==
  /\ Exec("LINE_END")
  /\ LET S == LinePixels(prev_pix, instr.pixel)
     IN /\ image' = Filled(image, S, instr.color)
        /\ stray' = (stray \/ ~(S \subseteq Pixels))
  /\ range' = FullRange
  /\ redraw' = TRUE
  /\ UNCHANGED <<run, prev_pix>>

\* instr_make turns an instruction with an impossible offset into NONE.
NoneCmd ==
  /\ Exec("NONE")
  /\ range' = FullRange
  /\ redraw' = TRUE
  /\ UNCHANGED <<image, run, prev_pix, stray>>

Execute == FillPixel \/ FillScr \/ FillColor \/ Quit \/ Save
             \/ LineStart \/ LinePt \/ LineEnd \/ NoneCmd

\* Seeded bug: the dirty range survives a change of the switch.
RangeKeptOnSwitch == range

RangeOnSwitch == FullRange

\* A change of the grid switch asks for a full redraw.
GridCheck ==
  /\ pc = "grid" /\ pc' = "swap"
  /\ grid_on' = sw /\ grid_was_on' = sw
  /\ IF sw # grid_was_on
     THEN redraw' = TRUE /\ range' = RangeOnSwitch /\ flipped' = TRUE
     ELSE UNCHANGED <<redraw, range, flipped>>
  /\ UNCHANGED <<sw, flags, screen, image, run, instr, instr_isnew,
                 prev_pix, stray, unseen>>

AfterPass == IF run THEN "poll" ELSE "done"

NoSwap ==
  /\ pc = "swap" /\ ~buf_swap
  /\ pc' = AfterPass
  /\ UNCHANGED <<flags, screen, grid, drawing>>

\* The first copy, the grid, and the request to exchange the buffers: the
\* driver's addresses change at once, the hardware's at the next refresh.
DrawAndSwap ==
  /\ pc = "swap" /\ buf_swap
  /\ pc' = "wait"
  /\ LET drawn == IF redraw
                  THEN [vram EXCEPT ![back_buffer] = Copied(@)]
                  ELSE vram
     IN vram' = IF grid_on = 1
                THEN [drawn EXCEPT ![dev_back] = WithGrid(@)]
                ELSE drawn
  /\ swapping' = TRUE
  /\ dev_back' = 1 - dev_back
  /\ UNCHANGED <<front, back_buffer, flags, grid, drawing>>

\* Seeded bugs: SCR_NOWAIT, and a loop waiting for the wrong polarity.
NoWait == TRUE
WaitInverted == swapping

\* The loop in swapBuffer has seen the status bit clear.
SwapDone == ~swapping

\* The back buffer pointer follows the driver and the copy is repeated.
CopyAgain ==
  /\ pc = "wait" /\ SwapDone
  /\ pc' = "clear"
  /\ back_buffer' = dev_back
  /\ vram' = IF redraw THEN [vram EXCEPT ![dev_back] = Copied(@)] ELSE vram
  /\ range' = IF redraw /\ range.sync THEN FullRange ELSE range
  /\ redraw' = FALSE
  /\ unseen' = FALSE /\ flipped' = FALSE
  /\ UNCHANGED <<front, swapping, dev_back, flags, grid,
                 image, run, instr, instr_isnew, prev_pix, stray>>

ClearSwap ==
  /\ pc = "clear"
  /\ buf_swap' = FALSE
  /\ pc' = AfterPass
  /\ UNCHANGED <<check_uart, buf_swap_ctr, screen, grid, drawing>>

Main == \/ PollNothing
        \/ \E i \in Instrs : Receive(i)
        \/ Execute
        \/ GridCheck
        \/ NoSwap \/ DrawAndSwap \/ CopyAgain \/ ClearSwap

Next == Main \/ Tick \/ Refresh \/ FlipSwitch

Spec == Init /\ [][Next]_vars

\* The processor runs main(), the timer and the video refresh never stop.
FairSpec == Spec /\ WF_vars(Main) /\ WF_vars(Tick) /\ WF_vars(Refresh)

---------------------------------------------------------------------------
(* Properties *)

PCs == {"poll", "exec", "grid", "swap", "wait", "clear", "done"}
Palette == Color \cup {Black, GridColor}

\* Every variable of main.c keeps its type.
TypeOK ==
  /\ pc \in PCs
  /\ image \in [Pixels -> Color]
  /\ vram \in [Buffers -> [Pixels -> Palette]]
  /\ front \in Buffers /\ dev_back \in Buffers /\ back_buffer \in Buffers
  /\ swapping \in BOOLEAN
  /\ range \in [start : Nat, stop : Nat, sync : BOOLEAN]
  /\ redraw \in BOOLEAN /\ run \in BOOLEAN /\ instr_isnew \in BOOLEAN
  /\ instr \in [cmd : AllCmds, pixel : 0 .. NPix, color : Color]
  /\ prev_pix \in Nat
  /\ sw \in {0, 1} /\ grid_on \in {0, 1} /\ grid_was_on \in {0, 1}
  /\ buf_swap \in BOOLEAN /\ check_uart \in BOOLEAN
  /\ buf_swap_ctr \in 0 .. 255
  /\ stray \in BOOLEAN /\ unseen \in BOOLEAN /\ flipped \in BOOLEAN

\* main() never writes to the buffer being scanned out: at both places where
\* it copies, its pointer and the driver's address name the hidden buffer
\* (main.c:320-342, swapBuffer's wait).
DrawHidden ==
  /\ pc = "swap" => back_buffer = dev_back /\ dev_back # front /\ ~swapping
  /\ pc = "wait" /\ SwapDone => dev_back # front

\* The interrupt's alt_u8 down-counter never wraps: it is reloaded to 2 in
\* the tick that finds it at 0 (main.c:31-37).
CtrNoWrap == buf_swap_ctr \in {0, 1}

\* A VRAM pixel is current when it shows the image or the grid over it.
Current(b, p) ==
  vram[b][p] = image[p] \/ (p \in GridPixels /\ vram[b][p] = GridColor)

\* A pixel of either buffer that does not show the image is due to be
\* redrawn: a redraw is pending and its range covers the pixel.  Outside
\* the swap block this is what makes the screen follow the image.
StaleIsPending ==
  pc \in {"grid", "swap"} \/ (pc \in {"poll", "done"} /\ ~instr_isnew) =>
    \A b \in Buffers, p \in Pixels :
      ~Current(b, p) => redraw /\ p \in CopySet

\* When a swap block has run, the screen shows the image (main.c:234, "Fills
\* entire screen with selected color"; main.c:63; DrawView.java:95, "path of
\* points to be drawn/connected on screen").
ScreenShowsImage == pc = "clear" => \A p \in Pixels : Current(front, p)

\* When a swap block has run with the switch off, neither buffer holds a grid
\* pixel (main.c:307, "redraw image to remove grid").  Not so if an instruction
\* comes between the flip and the block, however slow its sender.
NoGridLeft ==
  pc = "clear" /\ grid_on = 0 =>
    \A b \in Buffers, p \in Pixels : vram[b][p] # GridColor

\* As long as nothing outside the image was touched, the copies stay inside
\* the image and the buffer too, whatever sequence of setRange, fillLine and
\* fillColor produced the range (main.c:323 and 336).
CopyInside == ~stray => CopySet \subseteq Pixels

\* The pixel shows the image, and no grid that has been switched off.
Repaired(b, p) == Current(b, p) /\ (grid_on = 0 => vram[b][p] # GridColor)

\* A full redraw, range or not pending before it, repairs everything: after
\* it both buffers show the image, without the grid if GridCheck has last seen
\* the switch off (main.c:305-312, 325 and 341).
FullRedrawRepairs ==
  [][CopyAgain /\ redraw /\ ~range.sync =>
       \A b \in Buffers, p \in Pixels : Repaired(b, p)']_vars

\* The grid goes in the swap block that follows the flip, if no instruction
\* comes between the two: also when a partial redraw was pending at the flip
\* (main.c:304-313).  NoGridLeft is the same without the condition.
GridGoes ==
  [][CopyAgain /\ flipped /\ grid_on = 0 =>
       \A b \in Buffers, p \in Pixels : vram'[b][p] # GridColor]_vars

\* A requested redraw is carried out unless the program quits first.
RedrawDone == redraw ~> (~redraw \/ ~run)

\* The port is polled again and again while the program runs.
KeepsPolling == []<>(pc = "poll" \/ ~run)
===========================================================================
