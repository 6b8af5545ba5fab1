----------------------------- MODULE LogPrintf -----------------------------
(***************************************************************************)
(* The two small printfs of the HAL: alt_printf, and the one that logging  *)
(* uses, alt_log_private_printf, a machine of three states with widths,    *)
(* bases and signs; and the echo of what the program writes,               *)
(* alt_log_write (alt_printf.c, alt_log_printf.c).                         *)
(*                                                                         *)
(* A format is a sequence of characters, an argument a word that is used   *)
(* as a number or a character, or, for %s, a text.                         *)
(***************************************************************************)
EXTENDS Integers, FiniteSets, SequencesExt

CONSTANTS
  WordSize,        \* 2^32
  Formats,
  Arguments,       \* sequences of words, enough for every format
  Text,            \* what %s prints
  LogWrites,       \* what alt_write is called with
  EchoLength       \* ALT_LOG_WRITE_ECHO_LEN

ASSUME LogAssumption ==
  WordSize \in Nat \ {0} /\ EchoLength \in Nat
  /\ \A a \in Arguments : \A k \in DOMAIN a : a[k] \in 0 .. WordSize - 1

VARIABLES
  fmt, args,
  logged, printed, \* what the two printfs have printed
  echo             \* alt_log_write_buf
logVars == <<fmt, args, logged, printed, echo>>

LogInit == fmt = << >> /\ args = << >> /\ logged = << >> /\ printed = << >> /\ echo = << >>

Digits == <<"0", "1", "2", "3", "4", "5", "6", "7", "8", "9", "a", "b", "c", "d", "e", "f">>
DigitOf(c) == CHOOSE d \in 0 .. 9 : Digits[d + 1] = c
IsDigit(c) == \E d \in 0 .. 9 : Digits[d + 1] = c
Blanks(c, n) == [k \in 1 .. n |-> c]

\* The biggest power of the base that is not more than v, 1 for 0.
Place(v, base) ==
  LET place[n \in 0 .. WordSize - 1] == IF n \div base = 0 THEN 1 ELSE base * place[n \div base]
  IN place[v]

\* The digits of v from a place on.
Numeral(v, p, base) ==
  LET digits[q \in 0 .. WordSize - 1] ==
        IF q = 0 THEN << >> ELSE <<Digits[((v \div q) % base) + 1]>> \o digits[q \div base]
  IN digits[p]

---------------------------------------------------------------------------
(* alt_log_private_printf *)

SignWidth(sign) == IF sign THEN 1 ELSE 0

\* doIntegerPrint, of a number before which there are as many blanks or zeros
\* as its width leaves.
IntegerPrint(f, word) ==
  LET sign == f.signed /\ word >= WordSize \div 2
      v == IF sign THEN WordSize - word ELSE word
      text == Numeral(v, Place(v, f.base), f.base)
      lead == f.before - Len(text) - SignWidth(sign)
      minus == IF sign THEN <<"-">> ELSE << >>
  IN IF f.zero THEN minus \o Blanks("0", lead) \o text ELSE Blanks(" ", lead) \o minus \o text

\* What a format has said so far: its state, its fields, the output and the
\* arguments that are left.
Chars == "pfState_chars"
First == "pfState_firstFmtChar"
Other0 == "pfState_otherFmtChar"
NewFormat == [zero |-> FALSE, before |-> -1, after |-> -1, base |-> 10, signed |-> TRUE]
Fresh(a) == [state |-> Chars, f |-> NewFormat, out |-> << >>, left |-> a]

Integer(m, f) ==
  [m EXCEPT !.state = Chars, !.out = @ \o IntegerPrint(f, Head(m.left)), !.left = Tail(@)]

\* The letter that ends a conversion; one that is none prints nothing.
Conversion(m, c) ==
  CASE c \in {"d", "i"} -> Integer(m, m.f)
    [] c = "u" -> Integer(m, [m.f EXCEPT !.signed = FALSE])
    [] c = "o" -> Integer(m, [m.f EXCEPT !.signed = FALSE, !.base = 8])
    [] c = "x" -> Integer(m, [m.f EXCEPT !.signed = FALSE, !.base = 16])
    [] c = "c" -> [m EXCEPT !.state = Chars, !.left = Tail(@),
                            !.out = @ \o Blanks(" ", m.f.before - 1) \o <<<<"char", Head(m.left)>>>>]
    [] c = "s" -> [m EXCEPT !.state = Chars, !.out = @ \o Blanks(" ", m.f.before - Len(Text)) \o Text]
    [] OTHER -> [m EXCEPT !.state = Chars]

OtherFmtChar(m, c) ==
  CASE c = "." -> [m EXCEPT !.state = Other0, !.f.after = 0]
    [] IsDigit(c) /\ m.f.after < 0 ->
         [m EXCEPT !.state = Other0,
                   !.f.before = (IF @ < 0 THEN 0 ELSE @ * 10) + DigitOf(c)]
    [] IsDigit(c) -> [m EXCEPT !.state = Other0, !.f.after = @ * 10 + DigitOf(c)]
    [] c = "l" -> [m EXCEPT !.state = Other0]
    [] OTHER -> Conversion(m, c)

NextChar(m, c) ==
  CASE m.state = Chars /\ c = "%" -> [m EXCEPT !.state = First, !.f = NewFormat]
    [] m.state = Chars -> [m EXCEPT !.out = Append(@, c)]
    [] m.state = First /\ c = "0" -> [m EXCEPT !.state = Other0, !.f.zero = TRUE]
    [] m.state = First /\ c = "%" -> [m EXCEPT !.state = Chars, !.out = Append(@, c)]
    [] OTHER -> OtherFmtChar(m, c)

LogPrivatePrintf(text, a) == FoldLeft(NextChar, Fresh(a), text).out

---------------------------------------------------------------------------
(* alt_printf *)

\* Hexadecimal numbers, from their first digit that is not 0.
Hex(v) == IF v = 0 THEN <<"0">> ELSE Numeral(v, Place(v, 16), 16)

\* A letter that is no conversion prints nothing.
NextPlain(m, c) ==
  CASE m.state = Chars /\ c = "%" -> [m EXCEPT !.state = First]
    [] m.state = Chars -> [m EXCEPT !.out = Append(@, c)]
    [] c = "%" -> [m EXCEPT !.state = Chars, !.out = Append(@, c)]
    [] c = "c" -> [m EXCEPT !.state = Chars, !.out = Append(@, <<"char", Head(m.left)>>), !.left = Tail(@)]
    [] c = "x" -> [m EXCEPT !.state = Chars, !.out = @ \o Hex(Head(m.left)), !.left = Tail(@)]
    [] c = "s" -> [m EXCEPT !.state = Chars, !.out = @ \o Text]
    [] OTHER -> [m EXCEPT !.state = Chars]

AltPrintf(text, a) == FoldLeft(NextPlain, Fresh(a), text).out

PrintBoth(text, a) ==
  /\ fmt' = text /\ args' = a
  /\ logged' = LogPrivatePrintf(text, a) /\ printed' = AltPrintf(text, a)
  /\ UNCHANGED echo

---------------------------------------------------------------------------
(* alt_log_write *)

EOT == "ctrl-D"

\* The characters of an echo of length n, the last of which gives way to the
\* end of the line.
Echoed(text, n) == [k \in 1 .. n - 1 |-> IF text[k] = EOT THEN "D" ELSE text[k]]

LogWrite(text) ==
  /\ fmt = << >> /\ echo = << >>
  /\ LET n == IF Len(text) < EchoLength THEN Len(text) ELSE EchoLength
     IN echo' = IF n < 2 THEN echo ELSE Echoed(text, n) \o <<"\n", "\r", "NUL">>
  /\ UNCHANGED <<fmt, args, logged, printed>>

LogNext ==
  \/ fmt = << >> /\ echo = << >> /\ \E text \in Formats, a \in Arguments : PrintBoth(text, a)
  \/ \E text \in LogWrites : LogWrite(text)

---------------------------------------------------------------------------
(* Properties *)

\* Where the two have the same conversions, %c, %s, %x and %% without a width,
\* they print the same (alt_printf.c:64-126, alt_log_printf.c:132-340).
PrintsAlike ==
  (\A k \in DOMAIN fmt : fmt[k] \notin {"0", "2", "d", "l", "."}) => printed = logged

\* The number that a text of digits of a base stands for.
Value(text, base) ==
  FoldLeft(LAMBDA n, c : n * base + (CHOOSE d \in 0 .. 15 : Digits[d + 1] = c), 0, text)

\* A conversion of a single number, with or without zeros and a width of two,
\* fills its width with the number and reads back as that number, up to the
\* largest and the smallest, and is no wider than it
\* has to be (alt_log_printf.c:215-290).
ReadsBack ==
  fmt \in {<<"%", "d">>, <<"%", "2", "d">>, <<"%", "0", "2", "d">>, <<"%", "x">>, <<"%", "0", "2", "x">>} =>
    LET base == IF Last(fmt) = "x" THEN 16 ELSE 10
        signed == base = 10 /\ args[1] >= WordSize \div 2
        body == SelectSeq(logged, LAMBDA c : c \notin {" ", "-"})
        least == IF Contains(fmt, "2") THEN 2 ELSE 1
    IN /\ Value(body, base) = IF signed THEN WordSize - args[1] ELSE args[1]
       /\ signed <=> Contains(logged, "-")
       /\ Len(logged) >= least
       /\ Len(logged) > least => body[1] # "0" /\ logged[1] # " "

\* An echo stays in its buffer, ends as a line, and has no character in it
\* that would end the terminal's connection (alt_log_printf.c:440-462).
EchoFits ==
  echo # << >> =>
    /\ Len(echo) <= EchoLength + 2
    /\ ~Contains(echo, EOT) /\ Last(echo) = "NUL"

---------------------------------------------------------------------------
(* What is logged, and when: the points at which the HAL and the JTAG UART *)
(* driver call the log, switched by flags, and the characters' way out.    *)
(* A line is what one call prints.  A line waits for the core's FIFO in a  *)
(* busy loop; a handler that interrupts it prints its own lines first, and *)
(* handlers do not interrupt each other.                                   *)
(*                                                                         *)
(* Bounds: LogLevels, MaxLogTicks ticks, lines of LineLength characters,   *)
(* one write and one interrupt of the JTAG UART.                           *)

CONSTANTS
  LogLevels,       \* ALT_LOG_FLAGS, -1 .. 3; 0 for one that is not set
  ClockInterval,   \* ALT_LOG_SYS_CLK_INTERVAL
  JtagTicks,       \* ALT_LOG_JTAG_UART_TICKS
  MaxLogTicks,
  LineLength,
  PortDepth,       \* characters in the FIFO of the core
  PortBits         \* sets of bits its control register may show

ASSUME LogPointAssumption ==
  /\ LogLevels \subseteq -1 .. 3
  /\ ClockInterval \in Nat /\ JtagTicks \in Nat \ {0} /\ MaxLogTicks \in Nat
  /\ LineLength \in Nat \ {0}
  /\ PortDepth \in Nat \ {0} /\ PortDepth < 65536
  /\ PortBits \subseteq SUBSET {"RE", "WE", "RI", "WI", "AC"}

\* The flags a level sets.
BOOT_ON(level) == level # -1
SYS_CLK_ON(level) == level \in {1, 2, 3}
WRITE_ON(level) == level \in {2, 3}
JTAG_UART_ALARM_ON(level) == level \in {2, 3}
JTAG_UART_STARTUP_INFO_ON(level) == level \in {1, 2, 3}
JTAG_UART_ISR_ON(level) == level = 3

VARIABLES
  level,
  stage,           \* "crt0", "main", "uart", "running"
  logTicks,
  alt_log_sys_clk_count,
  alt_system_clock_in_sec,
  alarmAt,         \* the tick at which the report is due, or NoAlarm
  irqs,            \* interrupts of the JTAG UART
  printing,        \* the lines begun and not ended, the last one first: [line, left]
  port, inFifo,    \* characters [line, pos] put into the core, how many it holds
  lines,           \* history: the kind of each line
  report,          \* history: what a line says of the control register, and what it was
  alarmSince       \* history: the tick at which the alarm was registered
pointVars == <<level, stage, logTicks, alt_log_sys_clk_count, alt_system_clock_in_sec, alarmAt, irqs,
               printing, port, inFifo, lines, report, alarmSince>>

NoAlarm == -1
NoReport == [shown |-> << >>, was |-> << >>]
PointsInitOf(levels) ==
  /\ level \in levels /\ stage = "crt0" /\ logTicks = 0
  /\ alt_log_sys_clk_count = 0 /\ alt_system_clock_in_sec = 0
  /\ alarmAt = NoAlarm /\ irqs = 0
  /\ printing = << >> /\ port = << >> /\ inFifo = 0
  /\ lines = << >> /\ report = NoReport /\ alarmSince = NoAlarm
PointsInit == PointsInitOf(LogLevels)
PointsIdle == PointsInitOf({0})

InHandler(kind) == kind \in {"clock", "alarm", "isr"}

\* A call that prints these lines, the first one first.
PrintLines(kinds) ==
  /\ lines' = lines \o kinds
  /\ printing' = [k \in DOMAIN kinds |-> [line |-> Len(lines) + k, left |-> LineLength]] \o printing

\* No line is being printed, or the handlers' are done.
ProgramRuns == printing = << >>
HandlersMayRun == printing # << >> => ~InHandler(lines[Head(printing).line])

If(flag, kind) == IF flag THEN <<kind>> ELSE << >>

\* The control register with these bits and this much space.
Control(bits, space) ==
  (IF "RE" \in bits THEN 1 ELSE 0) + (IF "WE" \in bits THEN 2 ELSE 0)
  + (IF "RI" \in bits THEN 256 ELSE 0) + (IF "WI" \in bits THEN 512 ELSE 0)
  + (IF "AC" \in bits THEN 1024 ELSE 0) + 65536 * space

\* The field of a size, above a unit.
Field(control, size, unit) == (control \div unit) % size

\* Seeded bug: the bits of the two interrupts change places.
PrintControlRegSwapped(control) ==
  [space |-> Field(control, 65536, 65536), we |-> Field(control, 2, 2), re |-> Field(control, 2, 1),
   ri |-> Field(control, 2, 512), wi |-> Field(control, 2, 256), ac |-> Field(control, 2, 1024)]

PrintControlReg(control) ==
  [space |-> Field(control, 65536, 65536), we |-> Field(control, 2, 2), re |-> Field(control, 2, 1),
   ri |-> Field(control, 2, 256), wi |-> Field(control, 2, 512), ac |-> Field(control, 2, 1024)]

\* A line that tells of the register, if it is printed.
Reports(flag) ==
  IF flag
  THEN \E bits \in PortBits :
         report' = [shown |-> PrintControlReg(Control(bits, PortDepth - inFifo)),
                    was |-> [bits |-> bits, space |-> PortDepth - inFifo]]
  ELSE UNCHANGED report

---------------------------------------------------------------------------

\* alt_main's lines, and those of crt0.
LogBoot ==
  /\ stage = "crt0" /\ ProgramRuns /\ stage' = "main"
  /\ PrintLines(If(BOOT_ON(level), "boot"))
  /\ UNCHANGED <<level, logTicks, alt_log_sys_clk_count, alt_system_clock_in_sec, alarmAt, irqs,
                 port, inFifo, report, alarmSince>>

\* altera_avalon_jtag_uart_init registers the alarm and tells of the start.
LogUartInit ==
  /\ stage = "main" /\ ProgramRuns /\ stage' = "uart"
  /\ IF JTAG_UART_ALARM_ON(level) THEN alarmAt' = logTicks + JtagTicks + 1 /\ alarmSince' = logTicks
     ELSE UNCHANGED <<alarmAt, alarmSince>>
  /\ PrintLines(If(JTAG_UART_STARTUP_INFO_ON(level), "startup"))
  /\ Reports(JTAG_UART_STARTUP_INFO_ON(level))
  /\ UNCHANGED <<level, logTicks, alt_log_sys_clk_count, alt_system_clock_in_sec, irqs, port, inFifo>>

\* alt_write echoes what it is given.
LogEcho ==
  /\ stage = "uart" /\ ProgramRuns /\ stage' = "running"
  /\ PrintLines(If(WRITE_ON(level), "write"))
  /\ UNCHANGED <<level, logTicks, alt_log_sys_clk_count, alt_system_clock_in_sec, alarmAt, irqs,
                 port, inFifo, report, alarmSince>>

\* alt_log_system_clock.
Heartbeat == SYS_CLK_ON(level) /\ alt_log_sys_clk_count + 1 > ClockInterval

\* altera_avalon_jtag_uart_report_log, called from alt_tick.
AlarmDue == alarmAt # NoAlarm /\ alarmAt <= logTicks + 1

\* alt_avalon_timer_sc_irq: the heartbeat, then alt_tick.
LogTick ==
  /\ stage \in {"main", "uart", "running"} /\ HandlersMayRun
  /\ logTicks < MaxLogTicks /\ logTicks' = logTicks + 1
  /\ IF Heartbeat
     THEN alt_log_sys_clk_count' = 0 /\ alt_system_clock_in_sec' = alt_system_clock_in_sec + 1
     ELSE /\ alt_log_sys_clk_count' = alt_log_sys_clk_count + (IF SYS_CLK_ON(level) THEN 1 ELSE 0)
          /\ UNCHANGED alt_system_clock_in_sec
  /\ alarmAt' = IF AlarmDue THEN alarmAt + JtagTicks ELSE alarmAt
  /\ PrintLines(If(Heartbeat, "clock") \o If(AlarmDue, "alarm"))
  /\ Reports(AlarmDue)
  /\ UNCHANGED <<level, stage, irqs, port, inFifo, alarmSince>>

\* altera_avalon_jtag_uart_irq begins with alt_log_jtag_uart_isr_proc.
LogUartIrq ==
  /\ stage \in {"uart", "running"} /\ HandlersMayRun
  /\ irqs = 0 /\ irqs' = 1
  /\ PrintLines(If(JTAG_UART_ISR_ON(level), "isr"))
  /\ Reports(JTAG_UART_ISR_ON(level))
  /\ UNCHANGED <<level, stage, logTicks, alt_log_sys_clk_count, alt_system_clock_in_sec, alarmAt,
                 port, inFifo, alarmSince>>

\* alt_log_txchar, once there is space: a character of the line printed last.
LogTxChar ==
  /\ printing # << >> /\ inFifo < PortDepth
  /\ LET now == Head(printing)
     IN /\ port' = Append(port, [line |-> now.line, pos |-> LineLength - now.left + 1])
        /\ printing' = (IF now.left = 1 THEN << >> ELSE <<[now EXCEPT !.left = @ - 1]>>) \o Tail(printing)
  /\ inFifo' = inFifo + 1
  /\ UNCHANGED <<level, stage, logTicks, alt_log_sys_clk_count, alt_system_clock_in_sec, alarmAt, irqs,
                 lines, report, alarmSince>>

HostTakes ==
  /\ inFifo > 0 /\ inFifo' = inFifo - 1
  /\ UNCHANGED <<level, stage, logTicks, alt_log_sys_clk_count, alt_system_clock_in_sec, alarmAt, irqs,
                 printing, port, lines, report, alarmSince>>

PointsNext ==
  LogBoot \/ LogUartInit \/ LogEcho \/ LogTick \/ LogUartIrq \/ LogTxChar \/ HostTakes

---------------------------------------------------------------------------
(* Properties *)

Count(kind) == Cardinality({n \in DOMAIN lines : lines[n] = kind})

\* A line of a kind is only printed from the level up that the comment names
\* for it, and those of the start are printed at each of these
\* (alt_log_printf.h:122-136).
LoggedByLevel ==
  /\ \A n \in DOMAIN lines :
       level >= CASE lines[n] = "boot" -> 0 [] lines[n] \in {"clock", "startup"} -> 1
                  [] lines[n] \in {"write", "alarm"} -> 2 [] lines[n] = "isr" -> 3
  /\ stage # "crt0" /\ level >= 0 => Count("boot") = 1
  /\ stage \in {"uart", "running"} /\ level >= 1 => Count("startup") = 1

\* The numbers that the heartbeats show go up by one.  They come at most as
\* often as the comments have it, every ALT_LOG_SYS_CLK_INTERVAL ticks
\* (alt_log_printf.c:464-466, alt_log_printf.h:319), and fall behind by at
\* most a tick each: the comparison with > makes them one tick late, against
\* those comments.  The alarm's reports come at their ticks, none is lost
\* (alt_log_printf.c:363-377).
HeartbeatsCounted ==
  /\ Count("clock") = alt_system_clock_in_sec
  /\ level >= 1 => /\ alt_system_clock_in_sec * ClockInterval <= logTicks
                   /\ logTicks < (alt_system_clock_in_sec + 1) * (ClockInterval + 1)
  /\ Count("alarm") = IF alarmSince = NoAlarm \/ logTicks = alarmSince THEN 0
                      ELSE (logTicks - alarmSince - 1) \div JtagTicks

\* Every line comes out whole and in order; only a line of the program is ever
\* broken by others, and those that break it are whole
\* (alt_log_printf.c:95-102, 344-351).
LogLinesWhole ==
  /\ \A i, j \in DOMAIN port :
       port[i].line = port[j].line =>
         /\ (i < j) <=> (port[i].pos < port[j].pos)
         /\ InHandler(lines[port[i].line]) => port[j].pos - port[i].pos = j - i
  /\ \A n \in DOMAIN lines :
       \A k \in 1 .. LineLength :
         \/ \E i \in DOMAIN port : port[i] = [line |-> n, pos |-> k]
         \/ \E i \in DOMAIN printing : printing[i].line = n /\ k > LineLength - printing[i].left

\* A report shows the bits and the space that the register had
\* (alt_log_printf.c:379-408).
ReportsRegister ==
  report # NoReport =>
    LET on(bit) == IF bit \in report.was.bits THEN 1 ELSE 0
    IN report.shown = [space |-> report.was.space, re |-> on("RE"), we |-> on("WE"),
                       ri |-> on("RI"), wi |-> on("WI"), ac |-> on("AC")]
============================================================================
