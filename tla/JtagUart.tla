------------------------------ MODULE JtagUart ------------------------------
(***************************************************************************)
(* The JTAG UART's interrupt-driven driver: two ring buffers shared by an  *)
(* interrupt handler and read, write and close, and a check every second   *)
(* that a host is there (altera_avalon_jtag_uart_*.c).                     *)
(*                                                                         *)
(* The program is stopped while the handler runs; the core and the host    *)
(* are not.  A critical section of the program is one step.  The bytes     *)
(* either side sends are numbered, modulo Numbers.                         *)
(*                                                                         *)
(* Bound: a program reads or writes, and one that writes leaves the few    *)
(* bytes it is sent in the buffer; so the handler meets both interrupts in *)
(* one pass, but no read and write take turns.                             *)
(***************************************************************************)
EXTENDS Integers, SequencesExt

CONSTANTS
  BufLen,          \* ALTERA_AVALON_JTAG_UART_BUF_LEN
  JtagDepth,       \* the depth of the core's FIFOs
  WriteThreshold,  \* free places of the transmit FIFO that raise its interrupt
  MaxCall,         \* the largest read or write
  Numbers,         \* bytes told apart
  IntMax,          \* INT_MAX, scaled
  Timeouts,        \* the values of sp->timeout
  Uses,            \* the calls of a program: "read" or "write"
  Unread           \* bound on the bytes sent to a program that only writes

ASSUME JtagAssumption ==
  /\ BufLen \in Nat /\ BufLen > 1 /\ MaxCall \in Nat \ {0} /\ Numbers \in Nat \ {0}
  /\ JtagDepth \in Nat /\ WriteThreshold \in 1 .. JtagDepth
  /\ IntMax \in Nat /\ IntMax > 3 /\ Timeouts \subseteq 2 .. IntMax
  /\ Uses \subseteq {"read", "write"} /\ Unread \in Nat

VARIABLES
  hostOn, hostNext,            \* the host's end, the next byte it sends
  rxFifo, txFifo, ac, control, \* the core: FIFOs, activity, enabled interrupts
  rx_in, rx_out, rx_buf, tx_in, tx_out, tx_buf,
  irq_enable, host_inactive, timeout,
  isr,                         \* the handler: where, and the space it has seen
  at,                          \* where the program is in the driver
  in, out, n,                  \* its locals
  left,                        \* space of a read, count of a write
  moved, nonblock,             \* bytes were moved; O_NONBLOCK
  chunk,                       \* what memcpy has copied
  progNext,                    \* the next byte the program writes
  uses                         \* the call the program makes, with close

coreVars == <<rxFifo, txFifo, ac, control>>
rxVars == <<rx_in, rx_out, rx_buf>>
txVars == <<tx_in, tx_out, tx_buf>>
hostVars == <<hostOn, hostNext>>
aliveVars == <<host_inactive, timeout>>
callVars == <<at, in, out, n, left, moved, nonblock, chunk, progNext, uses>>
jtagVars == <<hostVars, coreVars, rxVars, txVars, irq_enable, aliveVars, isr, callVars>>

Quiet == [at |-> "off", ri |-> FALSE, wi |-> FALSE, avail |-> FALSE, space |-> 0]

\* altera_avalon_jtag_uart_init has run.
JtagInit ==
  /\ hostOn = FALSE /\ hostNext = 0
  /\ rxFifo = << >> /\ txFifo = << >> /\ ac = FALSE /\ control = {"RE"}
  /\ rx_in = 0 /\ rx_out = 0 /\ rx_buf = [i \in 0 .. BufLen - 1 |-> 0]
  /\ tx_in = 0 /\ tx_out = 0 /\ tx_buf = [i \in 0 .. BufLen - 1 |-> 0]
  /\ irq_enable = {"RE"} /\ host_inactive = 0 /\ timeout \in Timeouts
  /\ isr = Quiet
  /\ at = "idle" /\ in = 0 /\ out = 0 /\ n = 0 /\ left = 0
  /\ moved = FALSE /\ nonblock = FALSE /\ chunk = << >> /\ progNext = 0
  /\ uses \in Uses

\* Nothing happens on the link.
JtagIdle == JtagInit /\ timeout = Min(Timeouts) /\ uses = "read"

Up(i, k) == (i + k) % BufLen

\* The bytes of a ring buffer, oldest first.
Ring(buf, from, to) ==
  [i \in 1 .. Up(to, BufLen - from) |-> buf[Up(from, i - 1)]]

---------------------------------------------------------------------------
(* The host and the core *)

Plug ==
  /\ hostOn' = ~hostOn
  /\ UNCHANGED <<hostNext, coreVars, rxVars, txVars, irq_enable, aliveVars, isr, callVars>>

\* The host polls the core, sends a byte, or takes one.
HostPolls ==
  /\ hostOn /\ ac' = TRUE
  /\ UNCHANGED <<hostVars, rxFifo, txFifo, control, rxVars, txVars, irq_enable, aliveVars, isr,
                 callVars>>
HostSends ==
  /\ hostOn /\ Len(rxFifo) < JtagDepth /\ (uses = "write" => hostNext < Unread)
  /\ rxFifo' = Append(rxFifo, hostNext) /\ hostNext' = (hostNext + 1) % Numbers
  /\ UNCHANGED <<hostOn, txFifo, ac, control, rxVars, txVars, irq_enable, aliveVars, isr,
                 callVars>>
HostTakes ==
  /\ hostOn /\ txFifo # << >>
  /\ txFifo' = Tail(txFifo)
  /\ UNCHANGED <<hostOn, hostNext, rxFifo, ac, control, rxVars, txVars, irq_enable, aliveVars, isr,
                 callVars>>

ReadPending == "RE" \in control /\ rxFifo # << >>
WritePending == "WE" \in control /\ JtagDepth - Len(txFifo) >= WriteThreshold

---------------------------------------------------------------------------
(* altera_avalon_jtag_uart_irq *)

Handler(place, Rest) ==
  isr.at = place /\ Rest /\ UNCHANGED <<hostVars, ac, aliveVars, callVars>>

\* The interrupt is taken, or the handler's loop goes round: it reads the
\* control register, once, and returns when nothing is pending.
ReadControl ==
  /\ isr.at \in {"off", "again"}
  /\ ReadPending \/ WritePending \/ isr.at = "again"
  /\ isr' = IF ReadPending \/ WritePending
            THEN [at |-> "read", ri |-> ReadPending, wi |-> WritePending, avail |-> TRUE,
                  space |-> JtagDepth - Len(txFifo)]
            ELSE Quiet
  /\ UNCHANGED <<hostVars, coreVars, rxVars, txVars, irq_enable, aliveVars, callVars>>

IsrRoom == Up(rx_in, 1) # rx_out

\* data is one read of the data register: a byte, if there was one, and whether
\* there are more.
TakeByte ==
  Handler("read",
    /\ isr.ri /\ IsrRoom /\ rxFifo # << >>
    /\ rx_buf' = [rx_buf EXCEPT ![rx_in] = Head(rxFifo)] /\ rx_in' = Up(rx_in, 1)
    /\ rxFifo' = Tail(rxFifo)
    /\ isr' = [isr EXCEPT !.avail = Len(rxFifo) > 1]
    /\ UNCHANGED <<txFifo, control, rx_out, txVars, irq_enable>>)
NoByte ==
  Handler("read",
    /\ isr.ri /\ IsrRoom /\ rxFifo = << >>
    /\ isr' = [isr EXCEPT !.avail = FALSE, !.at = "write"]
    /\ UNCHANGED <<rxFifo, txFifo, control, rxVars, txVars, irq_enable>>)

RxDone ==
  Handler("read",
    /\ ~isr.ri \/ ~IsrRoom
    /\ isr' = [isr EXCEPT !.at = "write"]
    /\ irq_enable' = IF isr.ri /\ isr.avail THEN irq_enable \ {"RE"} ELSE irq_enable
    /\ control' = IF isr.ri /\ isr.avail THEN irq_enable' ELSE control
    /\ UNCHANGED <<rxFifo, txFifo, rxVars, txVars>>)

GiveByte ==
  Handler("write",
    /\ isr.wi /\ isr.space > 0 /\ tx_out # tx_in
    /\ txFifo' = Append(txFifo, tx_buf[tx_out]) /\ tx_out' = Up(tx_out, 1)
    /\ isr' = [isr EXCEPT !.space = @ - 1]
    /\ UNCHANGED <<rxFifo, control, rxVars, tx_in, tx_buf, irq_enable>>)

TxDone ==
  Handler("write",
    /\ ~isr.wi \/ isr.space = 0 \/ tx_out = tx_in
    /\ isr' = [isr EXCEPT !.at = "again"]
    /\ irq_enable' = IF isr.wi /\ isr.space > 0 THEN irq_enable \ {"WE"} ELSE irq_enable
    /\ control' = IF isr.wi /\ isr.space > 0 THEN irq_enable' ELSE control
    /\ UNCHANGED <<rxFifo, txFifo, rxVars, txVars>>)

Isr == ReadControl \/ TakeByte \/ NoByte \/ RxDone \/ GiveByte \/ TxDone

---------------------------------------------------------------------------
(* altera_avalon_jtag_uart_timeout, and the ioctls *)

\* Seeded bug: the host is inactive only when more seconds have passed.
InactiveLater == host_inactive > timeout

Inactive == host_inactive >= timeout

\* An alarm of the system clock, every second.
Timeout ==
  /\ isr.at = "off"
  /\ ac' = FALSE
  /\ control' = IF ac THEN irq_enable ELSE control
  /\ host_inactive' = IF ac THEN 0
                      ELSE IF host_inactive < IntMax - 2 THEN host_inactive + 1
                      ELSE host_inactive
  /\ UNCHANGED <<hostVars, rxFifo, txFifo, rxVars, txVars, irq_enable, timeout, isr, callVars>>

\* TIOCSTIMEOUT.
SetTimeout(t) ==
  /\ isr.at = "off" /\ at = "idle" /\ timeout # IntMax
  /\ timeout' = IF t >= 2 /\ t < IntMax THEN t ELSE IntMax - 1
  /\ UNCHANGED <<hostVars, coreVars, rxVars, txVars, irq_enable, host_inactive, isr, callVars>>

---------------------------------------------------------------------------
(* The program *)

Program(place, Rest) ==
  /\ isr.at = "off" /\ at = place /\ Rest
  /\ UNCHANGED <<hostVars, rxFifo, txFifo, ac, aliveVars, isr, uses>>

NoMove == UNCHANGED <<control, irq_enable, rxVars, txVars, progNext>>

\* A call returns; its locals are gone.
Answer ==
  /\ at' = "idle" /\ in' = 0 /\ out' = 0 /\ n' = 0 /\ left' = 0
  /\ moved' = FALSE /\ nonblock' = FALSE /\ chunk' = << >>

Begin(op, places) ==
  Program("idle",
    /\ at' = op /\ left' \in places /\ nonblock' \in BOOLEAN
    /\ moved' = FALSE
    /\ UNCHANGED <<in, out, n, chunk>> /\ NoMove)

Read == uses = "read" /\ Begin("look", 1 .. MaxCall)
Write == uses = "write" /\ Begin("room", 1 .. MaxCall)
Close == Begin("close", {0})

Least(a, b) == IF a <= b THEN a ELSE b

\* What can be copied in one piece.
Stored(i, o) == IF i >= o THEN i - o ELSE BufLen - o

ReadLook ==
  Program("look",
    /\ in' = rx_in /\ out' = rx_out
    /\ n' = Least(Stored(rx_in, rx_out), left)
    /\ at' = IF Stored(rx_in, rx_out) = 0 THEN "looked" ELSE "copy"
    /\ UNCHANGED <<left, moved, nonblock, chunk>> /\ NoMove)
ReadCopy ==
  Program("copy",
    /\ chunk' = [i \in 1 .. n |-> rx_buf[out + i - 1]]
    /\ at' = "release"
    /\ UNCHANGED <<in, out, n, left, moved, nonblock>> /\ NoMove)
ReadRelease ==
  Program("release",
    /\ rx_out' = Up(out, n) /\ chunk' = << >>
    /\ left' = left - n /\ moved' = TRUE
    /\ at' = IF left' > 0 THEN "look" ELSE "looked"
    /\ UNCHANGED <<in, out, n, nonblock, control, irq_enable, rx_in, rx_buf, txVars,
                   progNext>>)
ReadLooked ==
  Program("looked",
    /\ \/ moved /\ at' = "receive" /\ UNCHANGED <<in, out, n, left, moved, nonblock, chunk>>
       \/ ~moved /\ nonblock /\ Answer
       \/ ~moved /\ ~nonblock /\ at' = "await"
          /\ UNCHANGED <<in, out, n, left, moved, nonblock, chunk>>
    /\ NoMove)
ReadAwait ==
  Program("await",
    /\ \/ in # rx_in /\ at' = "look" /\ UNCHANGED <<in, out, n, left, moved, nonblock, chunk>>
       \/ in = rx_in /\ Inactive /\ Answer
    /\ NoMove)

\* Seeded bug: the interrupt is turned on again only by a read that emptied
\* the buffer.
ReceivesAgainEmpty == rx_in = rx_out

ReceivesAgain == TRUE

ReadReceive ==
  Program("receive",
    /\ irq_enable' = IF ReceivesAgain THEN irq_enable \cup {"RE"} ELSE irq_enable
    /\ control' = irq_enable' /\ Answer
    /\ UNCHANGED <<rxVars, txVars, progNext>>)

\* Seeded bug: no place is kept free when the buffer starts at its first place.
SpaceAll(i, o) == IF i < o THEN o - 1 - i ELSE BufLen - i

Space(i, o) == IF i < o THEN o - 1 - i ELSE IF o > 0 THEN BufLen - i ELSE BufLen - 1 - i

WriteRoom ==
  Program("room",
    /\ in' = tx_in /\ out' = tx_out
    /\ n' = Least(Space(tx_in, tx_out), left)
    /\ at' = IF Space(tx_in, tx_out) = 0 THEN "send" ELSE "fill"
    /\ UNCHANGED <<left, moved, nonblock, chunk>> /\ NoMove)
WriteFill ==
  Program("fill",
    /\ tx_buf' = [i \in DOMAIN tx_buf |-> IF i \in in .. in + n - 1
                                          THEN (progNext + i - in) % Numbers ELSE tx_buf[i]]
    /\ progNext' = (progNext + n) % Numbers
    /\ left' = left - n /\ moved' = TRUE /\ at' = "publish"
    /\ UNCHANGED <<in, out, n, nonblock, chunk, control, irq_enable, rxVars, tx_in, tx_out>>)
WritePublish ==
  Program("publish",
    /\ tx_in' = Up(in, n)
    /\ at' = IF left > 0 THEN "room" ELSE "send"
    /\ UNCHANGED <<in, out, n, left, moved, nonblock, chunk, control, irq_enable, rxVars,
                   tx_out, tx_buf, progNext>>)
WriteSend ==
  Program("send",
    /\ irq_enable' = irq_enable \cup {"WE"} /\ control' = irq_enable'
    /\ \/ left > 0 /\ ~nonblock /\ at' = "spin"
          /\ UNCHANGED <<in, out, n, left, moved, nonblock, chunk>>
       \/ (left = 0 \/ nonblock) /\ Answer
    /\ UNCHANGED <<rxVars, txVars, progNext>>)
WriteSpin ==
  Program("spin",
    /\ \/ out # tx_out /\ at' = "room" /\ UNCHANGED <<in, out, n, left, moved, nonblock, chunk>>
       \/ out = tx_out /\ Inactive /\ Answer
    /\ NoMove)

CloseWait ==
  Program("close",
    /\ tx_out = tx_in \/ Inactive \/ nonblock
    /\ Answer /\ NoMove)

InCall ==
  \/ ReadLook \/ ReadCopy \/ ReadRelease \/ ReadLooked \/ ReadAwait \/ ReadReceive
  \/ WriteRoom \/ WriteFill \/ WritePublish \/ WriteSend \/ WriteSpin \/ CloseWait

JtagNext ==
  \/ Plug \/ HostPolls \/ HostSends \/ HostTakes
  \/ Isr \/ Timeout \/ \E t \in Timeouts \cup {0} : SetTimeout(t)
  \/ Read \/ Write \/ Close \/ InCall

---------------------------------------------------------------------------
(* Properties *)

Received == INSTANCE Pipe WITH content <- Ring(rx_buf, rx_out, rx_in) \o rxFifo
Sent == INSTANCE Pipe WITH content <- txFifo \o Ring(tx_buf, tx_out, tx_in)

\* What the host sends is what read returns: the handler never overwrites a
\* byte read has not released, and read never returns a place the handler has
\* not filled (altera_avalon_jtag_uart_init.c:134-158).
ImplementsReceive == Received!Spec

\* What read has copied when it releases the places is still the oldest bytes
\* of the buffer, whatever the handler did meanwhile
\* (altera_avalon_jtag_uart_read.c:119-142).
ReadsOldest == at = "release" => IsPrefix(chunk, Ring(rx_buf, rx_out, rx_in))

\* What write accepts is what the host takes (altera_avalon_jtag_uart_write.c).
ImplementsSend == Sent!Spec

\* No byte is left waiting with its interrupt turned off: the receive interrupt
\* is off only while the buffer is full or the read that made room has yet to
\* turn it on, the transmit interrupt only while the buffer is empty or the
\* write in progress has yet to turn it on.
NoLostWakeup ==
  /\ "RE" \in control \/ Up(rx_in, 1) = rx_out
     \/ (moved /\ at \in {"look", "copy", "release", "looked", "receive"})
  /\ "WE" \in control \/ tx_in = tx_out \/ at \in {"room", "fill", "publish", "send"}

\* No write or close waits for the host to take bytes or to be found gone; with
\* a timeout of INT_MAX - 1 or more it is never found so
\* (altera_avalon_jtag_uart_ioctl.c:62-65).
WaitOver == at \notin {"spin", "close"} \/ timeout > IntMax - 2
===========================================================================
