# DoIP ("Drawing over IP"): a verification project

A phone draws on a VGA screen. Touches on the Android app (`AndroidBase/`)
become seven-byte instructions; they travel over TCP to a program on a PC (the
"middleman", not in the repository), over RS232 to an Altera DE2 board, and are
executed there by a C program (`Nios/`) on top of the vendor's board support
package (`EECE381BASE_bsp/`).

## The system

| Component | State | Operations | Interacts with |
| --- | --- | --- | --- |
| Phone mailbox (`MainActivity`, `DrawView`, `TheApplication`, `Instruction`) | one shared `Instruction` | touch listener, `fill_screen`, `onClear`, `onCreate`; `TCPTimerTask.run` | UI thread and timer threads share the mailbox without a lock |
| Connection (`MainActivity`, `ConnectScreen`) | `app.sock`, pending connects, the two activities | `onResume`, `onPause`, `openSocket`, `closeSocket`, `SocketConnect`, Connect, Disconnect, Send | asynchronous tasks, timer tasks |
| Codec (`Instruction.java`, `lib_instr.c`) | none | `toTransmit`, `recieveInstruction`, `instr_make`, `instr_send` | both ends of the link |
| RS232 link (`rs232.c`, `altera_up_avalon_rs232.c`) | the core's two FIFOs and one data register | `clear_fifo`, `make_command`, `send_data`, `read_fd`, `write_fd` | the middleman; polled by the render loop |
| Render loop (`main.c`, `lib_bitmap.c`, `wk_video.c`, buffer exchange of the pixel buffer driver) | image in DRAM, two VRAM buffers, dirty range, flags | one handler per command, grid check, redraw and swap | alarm interrupt, video hardware, switch |
| SD card (`altera_up_sd_card_avalon_interface.c`, `sdcard.c`) | FAT, directories, open-file records, one sector buffer | find, list, open, create, read, write, close | called by the bitmap export |
| Bitmap export (`lib_bitmap.c`) | one heap bitmap | `scr16ToBitmap24`, `bitmapToSDcard` | image, SD card |
| Pixel buffer drawing (`altera_up_avalon_video_pixel_buffer_dma.c`) | VRAM | pixels, boxes, rectangles, lines, clear | render loop (grid, clear) |
| JTAG UART driver | two ring buffers | `read`, `write`, `close`, `ioctl`, interrupt, host check | `printf` in the loop, its interrupt, an alarm |
| HAL alarms and timer | alarm list, tick counter, time of day, timestamp | `alt_alarm_start`, `alt_alarm_stop`, `alt_tick`, `gettimeofday`, `usleep` | starts `isr_alarm` |
| HAL devices and descriptors | `alt_fd_list`, device and file system lists | `open`, `close`, `fcntl`, `ioctl`, `isatty`, ... | C library, drivers |
| HAL interrupts, exceptions, heap | handler table, enabled lines, break pointer | `alt_irq_handler`, `alt_irq_register`, critical sections, exception entry, `sbrk` | every driver |
| HAL start-up, caches, logging, profiling | sections, cache lines, profile lists | `crt0`, `alt_load`, `alt_main`, `exit`; flushes; `mcount`; `alt_printf` | before, under and beside main |
| Displays, PS/2, audio, chip configuration | registers and FIFOs of their cores | the drivers' calls | main uses the displays; the others come with the BSP |

What is hard: the phone's UI thread and timer thread interleave on three fields;
bytes may be lost on RS232 and there is no frame marker; the interrupt, the
refresh of the video hardware and the loop interleave on flags and buffers; the
dirty range is kept by four functions with different ideas of its end; the SD
driver updates several sectors for one logical change; under all of it lies a HAL whose
handlers share lists, flags and buffers with the program they interrupt.

What makes each component correct:

* Phone: a command posted is sent, once, in order, with its own colour and
  offset; what belongs together (a line) is sent together.
* Codec: what one side writes the other side reads.
* Link: instructions come out whole, once, in order; no hang.
* Render loop: what is executed on the image reaches the screen; the buffer on
  the screen is never drawn to; nothing outside the image is touched; a
  requested redraw happens.
* SD card and bitmap export: other files are left alone, whenever the card is
  pulled; the tables agree; files have the bytes that were written to them; a listing
  is complete; a SAVE leaves the bitmap on the card.
* Connection: no socket is forgotten, the app is not ended from the timer thread, an
  instruction is read whole.
* JTAG UART: two queues of bytes; a wait ends.
* HAL: an alarm goes off when it should, a descriptor is given back, an interrupted
  update is not lost, an instruction is executed once, what was flushed is in memory.

## Modules

| Module | Models | Run |
| --- | --- | --- |
| `Raster` | frame geometry and `fillLine` | through `Board` |
| `Board` | `main()`, `isr_alarm`, buffer exchange, switch | `board_*` |
| `BoardMC`, `BoardProofs` | instances; proofs | |
| `CommandChannel` | abstract: a queue of instructions | implemented by `Uart` |
| `Uart`, `UartProofs` | line, receive FIFO, `make_command` | `links` |
| `Pipe` | abstract: a queue of bytes | implemented twice by `JtagUart` |
| `JtagUart` | ring buffers, interrupt handler, read, write, close, host check | `links` |
| `Links`, `LinksProofs` | `Uart` and `JtagUart` side by side | `links` |
| `Phone`, `PhoneProofs` | mailbox, UI thread, timer threads | `phone`, `phone_lost` |
| `Connection`, `ConnectionProofs` | both activities, connects, several timer threads' use of `app.sock` | `phone` |
| `App` | mailbox and connection where they meet | `phone` |
| `SdCard` | the SD card driver: sectors, tables, open files | through `SdDir` |
| `SdDir` | directories: find, create, open, list, grow | through `Files`, `SaveBmp` |
| `Files`, `FilesMC` | any program using files, with their promised contents | `files` |
| `SaveBmp`, `SaveBmpMC` | `bitmapToSDcard` as the driver's client | `savebmp`, `save_again` |
| `BoardParts`, `BoardPartsMC` | the parts below, one per behaviour | `parts` |
| `PartsProofs` | proofs about codec, descriptors, devices, interrupts, exceptions, bitmap, mount, profile | |
| `PortsProofs`, `HalProofs` | proofs about the ports; about caches, start-up, times and the log | |
| `Codec` | byte formats | `parts` |
| `Names`, `Mount` | file names letter by letter; partition table and boot sector | `parts` |
| `Draw`, `Bitmap` | bytes written by the drawing functions; bytes of the bitmap | `parts` |
| `Panel` | seven-segment displays, character buffer, the LCD's commands | `parts` |
| `Ps2` | PS/2 reset and keyboard decoder with its tables | `parts` |
| `Audio`, `AvConfig`, `Serial` | audio FIFOs; chip registers; RS232 both ways | `parts` |
| `Alarms` | alarm list and tick, time of day; waits and timestamp | `parts` |
| `FdTable`, `Devices` | descriptors; device lists and search | `parts` |
| `Interrupts`, `Exceptions` | dispatch, critical sections, heap; exception vector | `parts` |
| `Cache`, `Profile`, `LogPrintf`, `Startup` | caches and flushes; `mcount` and sampling; small printfs, what is logged when; reset to main to exit | `parts` |

A run has to be worth its time, so parts that run for themselves share one: a
behaviour of `parts` chooses its part at the start and stays in it, with the others
at rest. `Links` and `App` do the same with two halves each. Where parts act on each
other they are composed in one state instead: `SdDir` and `SdCard` in
`Files` and `SaveBmp`, codec, port and buffers in `Board`.

A property of a run is often a conjunction of named parts that belong to one question;
each part has its own comment, with its lines of code, in its module.

### Board

State: the variables keep the source's names (`image`, `back_buffer`, `range`,
`redraw`, `buf_swap`, ...); `vram`, `front`, `swapping` and `dev_back` are the
two buffers, the one on the screen, the hardware's status bit and the driver's
`back_buffer_start_address`. `pc` has a value for each point of the loop where
an interrupt can be told apart: the poll, the switch statement, the grid check,
the swap block up to the request, the wait in `swapBuffer`, the second copy and
the final `buf_swap=0`. One action per command; `Receive` is the poll that finds
an instruction, with `make_command` and `instr_make` folded in (they are the
subject of `Uart` and `Codec`). `Tick` is `isr_alarm`, `Refresh` the hardware
completing a swap, `FlipSwitch` the person at SW0. A pixel is an offset. The
sender's pace is a constant: `Pace = "free"` any time, `"started"` not before
the initial white fill has been executed, `"framed"` not before a swap block has followed
the last instruction: one a frame, which is what a phone that sends every 50 ms comes
to. The pace goes by the sender's own instructions only. A redraw that the grid switch has asked
for is nothing the sender sees, so an instruction may come between a flip and its copy at any pace.
`unseen` and `flipped` are history variables for this.

Undefined values are nondeterministic: the heap contents of `image`, the value of
`prev_pix` before the first `LINE_START`, the colour read past the image.
`GET_PIXEL`, `GET_W` and `GET_H` cannot be received (`make_command` skips their
letters). `range` is used unallocated in the source (main.c:106, 174); the model
takes it to name usable memory.

Runs:

* `board_paced` (2x1 image, two colours, every command but `LINE_PT`, pace
  "framed", the switch flipped at any time): `ScreenShowsImage`, `StaleIsPending`; and `RedrawDone` and
  `KeepsPolling` under weak fairness of the loop (one processor that never stops), the timer and
  the refresh. Weak fairness is enough: the interrupt re-arms `buf_swap` and nothing but the loop clears it.
  Two colours tell drawn from undrawn, two pixels a part of the image from all of it.
* `board_free` (2x1, every drawing command at any time, offset W*H included, `prev_pix`
  outside the image): the type invariant, `DrawHidden`, `CopyInside`, `FullRedrawRepairs`, and `GridGoes`: the
  swap block after a flip removes the grid if no instruction has come between the two.
* `board_grid`, `board_lost_fill`, `board_line`: findings, see below.

### Links

`Uart` moves bytes from `wire` through `fifo` into `buf`; `pc` tells whether
`make_command` is waiting for seven bytes or in its byte loop. A byte is a letter
or not; the length of an instruction and the depth of the FIFO are constants.
`damaged` and `dry` are history variables. Frames of three bytes and a FIFO of two
frames are enough for a frame to be misread across the boundary to the next; payload
bytes may be letters.

`JtagUart` has the rings with the source's indexes, the interrupt handler as steps that
stop the program, and `read`, `write` and `close` as steps between which the handler
may run; the core and the host go on all the time. A critical section of the program is
one step. Rings of three places (two bytes at most) are soon full and soon empty, and
a call of two bytes meets them half full; the host counts as gone after two checks. A program that
writes is sent bytes too, up to `Unread` = 1 of them, which nobody reads: so the handler meets both
interrupts in one pass. Calls of `read` and of `write` by turns are not in one behaviour.

`links` checks `ImplementsChannel` (loss-free RS232 is the queue of `CommandChannel`, the
pending queue computed from all bytes under way), `FramesHold` (with bytes lost,
the FIFO overflowing and read when empty: what `make_command` returns starts with a letter,
a link at rest is aligned again, and without loss nothing is read dry), `NoLostWakeup` (no
byte stays behind an interrupt turned off), `ImplementsPipes` (both rings are queues
under the mapping of indexes to their contents, and what `read` copied is what it
releases), and `CallsReturn`: again and again no call waits, `Serves` for `make_command` on a line that has
lost nothing (after a lost byte it waits for the next instruction's, which nobody owes it), `WaitOver` for `write`
and `close`. Fairness is weak for `main`, the line, the handler, the
calls in progress, the host check and the host's polling - processor and core never
stop; strong for the host taking a byte, as it polls again and again. With the host
gone a wait ends by the alarm.

### Codec

Pure operators on numbers; a behaviour writes an instruction on
one side and reads it on the other, `dir` says which way. The inputs are the byte boundaries of offset
and colour, negative offsets included. `InstructionsCross` joins `DownAgrees` (what the
phone writes the board reads) and `UpReversed`, which says exactly how the other direction differs;
both are also proved.

### Phone

Events are numbered; a field holds the number of the event that wrote it, so
stale, mixed or lost fields are comparisons of numbers. `todo` is the rest of the
current handler's setters, in the code's order; `seq[t]` the bytes timer thread t
has read. `Create` adds a timer thread, as `onCreate` does. `phone` has four
events (creation, then three commands: one being sent, one overwritten, one
waiting), one timer thread and a link that fails and recovers.

`Connection` numbers the sockets; `sock` is the field of the application object. UI
handlers run one at a time, connects one at a time on the executor with their results
back on the UI thread in order. Each `MainActivity` created makes a timer with a thread of its own and leaves the
old one running (`threads`; `polling` and `reader` are those a `TCPTimerTask` and a `TCPReadTimerTask` have been
scheduled on, which is for good); a thread reads the field five times in a run, with the UI
thread and the other threads between any two. `phone` has two threads (`MaxThreads`): two can have an answer of
`available()` at once. Two connects are enough for one to complete beside
an open socket; instructions have two bytes so that one can be cut, and three bytes (`MaxBytes`) come on the first
socket (`Talking`), a whole instruction and a part.

`phone` checks the mailbox (`MailboxHolds`, `NeverSendsNone`, `SentOnceInOrder`) and the
connection (`SocketsKept`, `TimerSurvives`, `FramesWhole`), and that
nothing waits for ever (`NothingWaits`: what waits is served). Fairness: handlers end, the timer fires
every 50 ms and is not cancelled, a connect ends (it has a time-out) and its result is
handled. Premises in the connection's properties name the histories in which the code does
orphan a socket, end the app or cut an instruction: a connect beside another or beside an open socket, or answered
while the app is left; a connect that failed beside a socket in use; the `ConnectScreen`'s reader having taken a part, or
two threads having had an answer for one socket. The properties say that there are no others.

### SD card and bitmap export

`SdCard` keeps the driver's state in one record, `sd`: the card's sectors (boot
sectors, two tables, root directory, data), the sector buffer with
`current_sector_index` and `current_sector_modified`, and `active_files`. A call is an
operator from state to state, built from `ReadSector`, `WriteSector` and `IsPresent` in
the code's order, with `ok` and `val` as its result; `Then` is an early return. The card
may be pulled before any check of its presence (`fuse`), so a call can stop halfway
through its sector writes; what was changed in the buffer then waits there until a card
is put back. `SdDir` adds directories as chains of clusters of records; `Names`
compares names letter by letter, so here a name is a value. A loop of the driver that never ends is a call marked
`hung`: it has gone round more often than there are clusters, each time from the same
state. `SaveBmp` is `bitmapToSDcard`: one action per driver call, with the two
loops of opens and the second writing of the header.

`savebmp`: sectors of two bytes, eight data sectors in clusters of one or two, three slots,
up to five opens per loop (more than slots, so that they run out), bitmaps of five
and seven bytes (three and four sectors: the second does not fit a cluster and a sector
of the two-sector cards), three SAVEs, the card put back twice. The six cards differ in
geometry, in where somebody else's file lies, in whether there is an older bitmap, and
one is too full. `OthersKept` and, in `TablesSound`, `NoSharedCluster` hold through every pull,
`TablesAgree` and `ImageOnCard` as long as the card stays in during SAVEs. Two premises
name what the code gets wrong: `Fits` (below) and `Room` (a full card). A card that is put
back is the same one.

`files`: a program that makes up to six calls (five on all cards but one) in any order - mount,
open, create, write, read, measure, close, list - on two slots, in the root directory and a subdirectory of one, two or
three clusters, the card pulled once among the first three. `content` is the specification:
the bytes each file was given. `ContentsHold` compares it with what the program reads and with
what is on the card, `CardSound` says that files have clusters of their own and the tables agree,
`ListingComplete` that a listing names every file once, `Terminates` which calls may hang.
Six calls let two files be interleaved through the one buffer: mount, open, open, write,
write, read.

`Names` and `Mount` (in `parts`, `FoundOnCard`) take all names of up to six characters over the kinds the code
distinguishes, with name and extension scaled to three and two letters, and the boot
sectors and partition tables at the limits of FAT16. A FAT16 is told by a count of clusters that includes what the
tables and the directory take, so a volume just under the limit may be refused, and none over it is accepted:
`ClustersNumbered` says that no cluster inside an accepted volume has a number that means the end of a
file. It says nothing of the driver's own largest cluster, which the driver computes in unsigned arithmetic and
then does not apply (see the findings).

### The other parts

`parts` holds these to their own contracts. Each module names its
bounds; they are scaled down where the code's number only says how many.

* `InstructionsCross`: the codec, above; `FoundOnCard`: `Names` and `Mount`, above.
* `ShownAsAsked`: `Draw` computes the bytes a call writes, for both addressing modes and
  three depths, on a screen of 6x4 pixels with coordinates on both sides of each edge
  (negative ones as the unsigned numbers the driver makes of them); `Panel` has the displays with the
  cache line between two of them; `LogPrintf` the digits of its small printfs, which a host reads
  back, and the echo of a write.
* `BitmapHolds`: for every byte of the file where it comes from.
* `KeysKnown`: the PS/2 reset with answers that come in time or late, codes of one to
  three bytes read while others arrive.
* `PortsWhole`: audio words while the codec goes on, RS232 bytes in both directions through the
  one register, chip selections kept across calls.
* `TimesKept`: three alarms on a counter that wraps at five (`Delays` up to three, so that an alarm
  can be set before the wrap for after it), the time of day, waits around the limits of their
  loops, a timestamp read in halves while it runs. A wait is counted in passes of its loop, as the
  code counts it; what a pass takes is the compiler's business (at 50 MHz sixteen passes of three cycles are 4 % less
  than a microsecond).
* `DescriptorsHold`, `HandlersHold`, `MemoryAsMeant`, `ProfileHolds`: the HAL;
  interrupts come between any two steps of a call that does not mask them. The instruction cache has two
  lines, so that a flush of one leaves the other. `BlocksApart` says what `sbrk`'s callers rely on, aligned blocks
  that do not overlap, and nothing of the heap's limit; `ExecutedOnce` that no instruction is executed
  twice or out of order, and none left out but those a handler was called for, however its answer is read.
* `LogTells`: five levels of the log, lines of two characters through a FIFO of one, so that every
  line can be interrupted; heartbeats every two ticks and an alarm every two, of four.

## Findings

Each is a run with expected violation; PROJECT.json quotes the lines.

* `board_lost_fill`: a full redraw request is turned into a partial one by the next pixel.
* `board_grid`: the redraw that removes the grid is cut short in the same way, at any pace.
* `board_line`: `fillLine` records an inclusive end where the copy takes it as exclusive.
* `phone_lost`: a command posted during a transmission is discarded.
* `save_again`: the second SAVE of a session writes nothing, because the first never closes
  the handle it opened for rewriting the header.

Met on the way, without a run of their own. Where one limits a property, the property
names it in a premise, and says with it that nothing else goes wrong.

Phone and instructions:

* the fill buttons post the command before its colour; an offset is read in four parts
  (`FieldsFresh` bounds the age of each); a LINE_PT overwrites a LINE_START that has not been
  sent yet; with two timer threads after a re-creation NONE can be sent;
* with two timer threads two tasks may both see seven bytes available and each read some of them, so that an
  instruction is torn (MainActivity.java:70, 336-339); the `ConnectScreen`'s task, which is never cancelled, reads a part
  of one;
* the replies of `instr_send`, which only the NO_COMMS build sends, have another byte order
  than the phone's reader; leaving and returning twice orphans a socket.

Render loop and drawing:

* the grid has no upper line: `drawGrid` and `drawLine` disagree on the order of coordinates
  (main.c:47-61, wk_video.c:67-75); coordinates are kept unsigned, so a shape that begins left of the
  screen begins right of it; `clear_screen` takes a one-byte pixel for four;
* `main` makes only half of the back buffer uncached, and frees `screen`, a static device;
* the bitmap takes every third pixel and reads up to two rows past the screen
  (`data[i*width+j]` with j in bytes, lib_bitmap.c:66), stores red first where the format has blue
  first, rows from the top with a positive height, and padding that `numBytes` does not count.

SD card:

* past the first cluster the driver counts sectors from the start of the file
  (altera_up_sd_card_avalon_interface.c:1816), so a file longer than a cluster and a sector
  runs over clusters it does not own (premise `Fits`); on a full card it allocates clusters past
  the end: line 1018 compares `cluster`, which is 0 there, and the limit it means is a difference of unsigned
  numbers that wraps when the data would begin behind the volume (lines 988, 992);
* the link to a directory's next cluster is rounded down to a multiple of eight (line 793); the
  search for an empty record has no way out of a full directory of two clusters (line 1093), and
  `find_next` none when the card is pulled (line 1526); a directory that grows shares its new
  cluster with the file;
* overwriting the last byte makes the size one too large; bytes from 0x80 are read as negative
  numbers, 0xff as the end (a `char` is returned, line 1733), where altera_up_sd_card_avalon_interface.h:106-108 says that a character is
  a number from 0 to 255 and a negative one means that the file could not be read. `ReadBack` compares the bytes
  and not the signs;
* directories of eight letters are refused, a directory's extension is stored one place late,
  a short name without a period is never found again, several periods are
  accepted, `sdcard_list` passes NULL; the answer -2 to a second open keeps its slot.

Drivers:

* PS/2: the loop of `read_fd` never returns, a late answer is taken for the next one,
  a scan code read in two parts loses its prefix; the backslash is a
  character with code 0, and a code that is not in the table reads past it;
* audio: the threshold is compared with `<=` where the comment says otherwise; RS232: a write
  takes a received byte, and `write_fd` never looks for space; configuration: a write does
  not wait for the controller, a reset clears the interrupt enable;
* log: the counter of the heartbeat is incremented before it is compared with `>`, so that a line
  comes every `ALT_LOG_SYS_CLK_INTERVAL + 1` ticks, where alt_log_printf.c:464-466 and alt_log_printf.h:319 say every
  interval. `HeartbeatsCounted` only says that none comes sooner than the interval or later than one tick after it;
* displays: HEX0 and HEX1 may show a 0 that comes late from the cache, negative
  numbers show blanks, a string that just fits is reported as cut.

HAL:

* a delay of 2^32-1 ticks goes off at the next one; a callback that stops the next alarm
  or starts a listed one loops for ever; `settimeofday` multiplies in 32 bits; a wait that is
  an exact multiple of INT_MAX/16 microseconds loops 2^32 times;
* `alt_fd_lock` does not look at the newest descriptor; a locked standard stream stays locked;
  `ioctl` and `fstat` return the driver's code where the others return -1;
* an interrupt that is withdrawn makes the handler blame an innocent instruction; the comment
  of alt_exception_entry.S on a handler's return code (lines 222-227) says the opposite of the code below it and of the header
  (sys/alt_exceptions.h); `alt_irq_enable` ignores the priority mask;
* `sbrk` fails at `__alt_heap_limit`, where its comment says that there is no bounds checking
  (alt_sbrk.c:46-48);
* a flush from an unaligned address may go one line past its range; a profile can hold three copies of an
  arc where the comment says two, start its sampler twice, and `alt_gmon` compares
  `sbrk` with 0 where it fails with -1;
* destructors run in the order of the constructors, and `_exit` runs none.

## Proofs

Each theorem is for every value of the constants, within the named ASSUMEs of the modules it is
about (`Raster`, `Board`, `Codec`, `Phone`, `Uart`, `JtagUart`, `Connection`, `FdTable`, `Devices`,
`Interrupts`, `Bitmap`, `Mount`, `Profile`, `Serial`, `AvConfig`, `Audio`, `Ps2`, `Cache`, `Startup`, `Alarms`,
`LogPrintf`); other hypotheses are in its statement. They say that sizes are positive, that what
must fit does (a bitmap's bytes fit 31 bits, a section its memory), and little else. Each invariant below was checked by TLC on an instance before it was proved.

`BoardProofs`, for every image size, palette, grid, command set and set of offsets:

* `LineHasEnds`, `LineStaysInside`, about `fillLine`: a line draws both its ends, and nothing outside the
  image when they are inside. After k points and s steps of the minor coordinate the error term is
  k*dy - s*dx - dx/2, and it stays above -dx and at most 0; so s never passes dy, and is dy at the end. `Walk` is a recursive
  function; that it exists, with the equations it is written with, is proved by the least number at which
  a definition would fail, as the library's induction takes an operator;
* `BoardTypeCorrect`, `CounterNeverWraps`: `[]TypeOK`, `[]CtrNoWrap` (which has no run);
* `DrawsHiddenBuffer`: `[]DrawHidden`. `BufferInv` relates the driver's address, the
  loop's pointer, the scanned-out buffer and the status bit at each `pc`: equal
  addresses outside the swap block, exchanged ones in the wait, where the front buffer
  is the old one exactly as long as the status bit is set;
* `PacedScreenShowsImage`, `PacedStaleIsPending`: with pace "framed" and without `LINE_PT`,
  `[]ScreenShowsImage` and `[]StaleIsPending`. Neither is inductive: they say
  nothing while an instruction waits or during the swap block. `PacedInv` says
  which buffer may be stale where at each `pc`, that after the first copy the hidden
  buffer is current, and that while an instruction waits nothing is stale. Both hypotheses are needed:
  `board_lost_fill` and `board_line` are the counterexamples without them;
* `GridGoesAlways`: the action property `GridGoes`, at any pace, lines included. `FlipInv`: after a flip that
  no instruction has followed a redraw is pending and it is a full one, so that `FullRedrawsRepair` applies. Without
  the condition it is false at any pace (`board_grid`);
* `FullRedrawsRepair`: the action property `FullRedrawRepairs`, at any pace, because after a full first copy
  the buffer drawn stays current until the second, and without a grid when the switch was seen off;
* `CopiesStayInside`: `[]CopyInside`, at any pace. The range ends with the image as long as nothing outside
  has been touched; that a line with an end outside has drawn that end (`LineHasEnds`) keeps
  the undefined first value of `prev_pix` out of the range.

`PhoneProofs`, for any number of events and any link:

* `OneThreadInOrder`, `OneThreadNoNone`: with one timer thread,
  `[]SentOnceInOrder` and `[]NeverSendsNone`. The invariant orders the last command sent, the one being
  read and the one in the mailbox at each point of the thread, and says that an event which has not
  posted its command yet is newer than all three. With two threads both are false (the second
  thread empties the mailbox between the first one's test and its reading);
* `MailboxHoldsAlways`: `[]MailboxHolds`, with any number of threads. `FieldsFresh` speaks of what has been
  sent; `MailInv` adds the same of what each thread has read so far, that a field is as
  new as the last event that has finished writing it, and that a touch which has not written its colour has not
  posted its command, so that nobody can have read it.

`UartProofs` and `LinksProofs`, for every length of instruction, depth of FIFO, size of ring, length of call
and alphabet:

* `LinksFramesHold`: `[]FramesHold`, with bytes lost, FIFOs full and read empty. `LinkInv` counts the bytes:
  until one is damaged, those under way and those consumed make up whole
  instructions, so that `make_command` stands at the beginning of one when its FIFO is looked at;
* `LinksImplementChannel`: the refinement `ImplementsChannel`. The queue of the abstract channel is the
  stream of all bytes under way, cut into instructions; sending appends one, the last byte of
  `make_command` takes the first, and every other step moves bytes within the stream;
* `NoWakeupIsLost`: `[]NoLostWakeup`, with what the handler has looked at and not acted on yet;
* `RingsArePipes`: the refinement `ImplementsPipes`. The handler moves only one end of each
  ring and the program only the other; what a call has measured of the handler's end is
  stale when it is used. `Copying` and `Filling` say how stale: the bytes a read has measured are still there, the
  places a write has measured are still free. From that each step leaves the contents alone, lengthens them
  at the end or shortens them at the front, through every wrap of the indexes.

The two halves of `Links` are proved apart and joined there: a step of the links is a step of each
half or leaves it alone. (`FramesHoldAlways` and `LinkImplementsChannel` are the same of `Uart` alone.)

`ConnectionProofs`, for any number of timer threads, connects, sockets, bytes and tasks:

* `TimerSurvivesAlways`: `[]TimerSurvives`; behind a thread's test `app.sock` is null only if a connect
  has failed beside a socket in use;
* `SocketsKeptAlways`: `[]SocketsKept`; without overlap there is one connect at most, none beside an
  open socket, and nothing is open while the app is left;
* `FramesWholeAlways`: `[]FramesWhole`; until the reader has taken a part of an instruction or two threads have had an
  answer for one socket, at most one thread is about to read each socket, what it was told is still
  available, and the next byte of every socket begins an instruction.

`PartsProofs`, for the behaviours of `BoardParts`. Each part has an invariant, kept by its own steps; a step of
the parts is a step of each or leaves it alone:

* `InstructionsCrossAlways`: `[]InstructionsCross`: for every command, 32-bit offset and 16-bit colour `instr_make` reads
  what `toTransmit` wrote, and `recieveInstruction` what `instr_send` wrote, with the bytes of offset and colour the
  other way round. The lemmas split a number into its bytes by repeated division;
* `DescriptorsHoldAlways`: `[]DescriptorsHold`. `FdInv`, for any number of descriptors and devices: a place of
  the pool is free exactly when nobody was given it, the places beyond the highest one used are free, what a
  descriptor was opened for is what it has, and nothing is locked before the standard streams are
  redirected. `DevInv`: the driver found last has the name or parts that the name has, and both answers
  about terminals come from that driver. `PartsFound` shows that a mount point
  ends where a part of the name does, which is what the test for a slash behind it is for;
* `HandlersHoldAlways`: `[]HandlersHold`. `IrqInv`, for any lines, contexts and sizes: a call under way
  has the interrupts off and is nested once at most, with each saved word as it was on the way in; only
  the one that runs, program or handler, is in a call; a line's handler and context belong together, but for the
  one line a registration has half done, and that one is masked; what an update has read is still
  current. `ExcInv`, for any program: `ea` and the
  place to return to at each step of the entry code, the instructions before it executed, or left out after
  a handler was called for them, and the instruction faulty wherever it is not taken for an interrupt;
* `BitmapHoldsAlways`: `[]BitmapHolds`, for every size whose bytes fit 31 bits. The places of the header's fields do
  not overlap, so each field is read as it was stored; byte p of the image is channel p % 3 of the pixel that row
  and column give, with row and column as quotient and remainder;
* `VolumeNumberedAlways`: `[](ClustersNumbered /\ FirstVolume)`, the two parts of `FoundOnCard` about the volume, for every boot
  sector. The number of clusters is a quotient; a cluster inside the volume is one of those counted, and the
  count of an accepted volume stays below the numbers that mark an end;
* `ProfileHoldsAlways`: `[]ProfileHolds`. Program and handler add to the same lists without a lock.
  `ListsInv` says what each has read and not acted on yet: an entry is added twice only by the one that was
  interrupted between its search and its store, which bounds the copies. `CountInv` bounds the
  total from both sides: when the handler adds to a count that the program has loaded, the
  program's store brings the total back to what it would be without the handler's calls, and not lower.
  `Total` is a fold over a finite set; that it exists and does not depend on the order is proved by
  the least size of a set for which it would.

`PortsProofs`, for the ports of `BoardParts`:

* `PortsWholeAlways`: `[]PortsWhole`. `SerialInv` gives each byte its number: those gone and those under way are
  the ones written, in order, and each that came in is in the FIFO, with a reader, counted as lost
  for want of room, or eaten by a write; `AudioInv` says the same of words, with what a call has measured still there or still
  free while the codec goes on; `CfgInv` that the chip in the register is the one selected last, and that a typed
  call has selected its own;
* `KeysKnownAlways`: `[]KeysKnown`. `Ps2Inv` follows the bytes from the device to the reader: as long as nothing
  came late or was read in two parts, those still to come are whole codes of keys not decoded yet, but for the part that
  the decoder has read, with the answers to the command under way where they are expected. The tables are constants of 102 keys; that their codes differ is computed.

`HalProofs`, for the HAL's parts of `BoardParts`:

* `MemoryAsMeantAlways`: `[]MemoryAsMeant`. `CacheInv`: the latest value of a byte is in its line if that is dirty
  and in memory if not, and a clean line is as memory is but for buffers a device has stored to; `LinesCover` shows that stepping
  from the start of a range by lines meets every word of it. `StartInv`: the sections copied and cleared so far, by
  place, and which drivers have been started;
* `TimesKeptAlways`: `TimesKept`. `AlarmInv`: the list is a ring through exactly the alarms that are started, each with its
  successor's predecessor; an alarm that is settled is due in the number of ticks that its time says, with
  `rollover` set exactly where the counter wraps first; and while a tick walks the list the alarms it has passed are settled, and
  those before it are pending, a tick nearer with the `rollover` of the tick before. `TodInv` and `DelayInv` are about the time of day and the waits, whose passes are
  counted down by division; the timestamp is an action property;
* `LogTellsAlways`: `[]LogTells`. `PointsInv` counts the lines of each kind as they are begun, and says of the lines being
  printed that they are stacked: only the last can move, and what it interrupts is the program's.

Only model-checked:

* liveness (`RedrawDone`, `KeepsPolling`, `CallsReturn`, `NothingWaits`, `Terminates`): fairness and ENABLED are out of the prover's reach;
* files and the bitmap's way to the card (`OthersKept`, `TablesSound`, `ImageOnCard`, `ContentsHold`, `CardSound`,
  `ListingComplete`); `Files` compares contents with RECURSIVE operators, with which the prover has no arithmetic;
* `FoundOnCard`'s part about names and `ShownAsAsked`: names, digits and shifts are read by folds or recursion
  over data, where the prover has no induction;
* `ScreenShowsImage` for other paces or with `LINE_PT` is false (see the findings), and so are the one-thread
  theorems of `Phone` for two threads.

## Plan

1. (done) `Board`, `Uart`, `Codec`, `Phone`, `SdCard`, `SaveBmp`, their runs; type
   correctness and the screen theorem of `Board`; the codec theorem; order of the mailbox.
2. (done) The rest of the SD card driver with a specification of contents; `Connection`; `JtagUart`
   as two pipes; the drawing functions; the HAL; the peripherals.
3. (done) Proofs of what the runs of `Board`, `Phone`, `Connection` and `Links` check, liveness aside, and of
   `fillLine`.
4. (done) Proofs about the codec, descriptors, device search, interrupts and exceptions.
5. (done) Proofs about more of `parts`: bitmap, mount, profile, ports, keys, alarms and times, caches and start-up, log.
6. Left: clipping (`DrawsClipped`), the SD card driver.

## Not modelled

* The middleman is external: `Uart` takes it to forward whole instructions.
* The splash screen, menus and address fields of the app: no shared state.
* Code this build leaves out: `isr_uart` and NO_COMMS, the small JTAG driver, direct-driver calls,
  the enhanced interrupt API, stack checks, `alt_irq_interruptible`, system calls that only
  return ENOSYS. The flash and DMA device lists are empty on this board.
* Single register accesses without state: LEDs, keys, the enables of PS/2 interrupts, the
  log's reports of registers. `GET_SW` is the switch of `Board`.
* The LCD's shifted picture, PS/2 writes through a descriptor, time zones, the log's `%X`.
* SD card: attributes, tables of several sectors, a different card put in, commands that
  time out other than past the card's end.
* The heap that `saveBmp` never gives back: it ends after some SAVEs.
* Alarms whose callbacks start or stop other alarms (see the findings).
