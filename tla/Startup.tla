------------------------------ MODULE Startup ------------------------------
(***************************************************************************)
(* From reset to main and from main to the end: the words of the data      *)
(* sections (linker.x, crt0.S, alt_load.c), the drivers brought up one by  *)
(* one with the system timer already interrupting (alt_sys_init.c,         *)
(* alt_main.c), the C++ lists, and the ways out of main (alt_kill.c,       *)
(* alt_exit.c).                                                            *)
(***************************************************************************)
EXTENDS Integers, SequencesExt

CONSTANTS
  RoWords, RwWords, BssWords,    \* sizes of the data sections
  CppObjects,                    \* number of objects in the C++ lists
  SysRate,                       \* frequency of the system timer
  MaxUpTicks                     \* bound on the ticks looked at

ASSUME StartupAssumption ==
  /\ RoWords \in Nat /\ RwWords \in Nat /\ BssWords \in Nat
  /\ CppObjects \in Nat /\ SysRate \in Nat \ {0} /\ MaxUpTicks \in Nat

VARIABLES
  at,              \* the step of the start that is next
  words,           \* the data sections in memory
  upRate, upTicks, \* _alt_tick_rate, _alt_nticks
  hostAlarm,       \* the tick of the JTAG UART's alarm, or 0
  known,           \* devices registered by name
  stdio,           \* the device of stdout
  built, razed,    \* objects whose constructors and destructors have run
  over,           \* "no", "exit" or "kill"
  killed           \* what kill returned and left in errno
startVars == <<at, words, upRate, upTicks, hostAlarm, known, stdio, built, razed, over, killed>>

---------------------------------------------------------------------------
(* Sections: the constants stay where they are loaded; the data is loaded  *)
(* right behind the place where it is used, and cleared data comes after.  *)

RwUsed == RoWords .. RoWords + RwWords - 1
RwLoaded == RoWords + RwWords .. RoWords + 2 * RwWords - 1

Bss == RoWords + 2 * RwWords .. RoWords + 2 * RwWords + BssWords - 1

AllWords == 0 .. RoWords + 2 * RwWords + BssWords - 1

\* What the linker gives a word of a section, by its number.
AsLinked(section, k) == <<section, k>>

Image0 ==
  [a \in AllWords |->
     IF a < RoWords THEN AsLinked("rodata", a)
     ELSE IF a \in RwLoaded THEN AsLinked("rwdata", a - RoWords - RwWords)
     ELSE <<"whatever">>]

StartInit ==
  /\ at = 1 /\ words = Image0 /\ upRate = 0 /\ upTicks = 0 /\ hostAlarm = 0
  /\ known = {} /\ stdio = "none" /\ built = << >> /\ razed = << >>
  /\ over = "no" /\ killed = "none"

\* __bss_start to __bss_end, in crt0.S.
ClearBss == words' = [a \in AllWords |-> IF a \in Bss THEN <<"zero">> ELSE words[a]]

\* alt_load_section, for a section of n words: it is copied upwards and moves
\* down, so that each word is read before it is stored to.
LoadSection(w, from, to, n) ==
  IF from = to THEN w
  ELSE [a \in DOMAIN w |-> IF a \in to .. to + n - 1 THEN w[a - to + from] ELSE w[a]]

\* rwdata, and rodata in its place.
AltLoad ==
  words' = LoadSection(LoadSection(words, RoWords + RwWords, RoWords, RwWords), 0, 0, RoWords)

---------------------------------------------------------------------------
(* Drivers *)

SysInit ==
  <<"sys_timer", "timestamp_timer", "jtag_uart", "jtag_alarm", "av_config", "audio", "lcd", "ps2",
    "rs232", "char_buffer", "pixel_buffer", "sd_card">>

AltMain == <<"irq_init">> \o SysInit \o <<"redirect", "ctors", "main">>
Boot == <<"clear_bss", "alt_load">> \o AltMain
BootNow == Boot[at]

\* alt_sysclk_init: the first clock stays the system's.
SysclkInit(nticks) == upRate' = IF upRate = 0 THEN nticks ELSE upRate

\* alt_alarm_start with alt_ticks_per_second, by altera_avalon_jtag_uart_init;
\* without a clock there is no alarm and the host counts as present.
JtagUartAlarm == hostAlarm' = IF upRate = 0 THEN 0 ELSE upTicks + upRate + 1

\* The INIT macro of a driver, for the part that is not its device's own.
\* The timestamp timer has none: ALT_TIMESTAMP_CLK is none.
DriverInit(d) ==
  /\ IF d = "sys_timer" THEN SysclkInit(SysRate) ELSE UNCHANGED upRate
  /\ IF d = "jtag_alarm" THEN JtagUartAlarm ELSE UNCHANGED hostAlarm
  /\ known' = IF d \in {"sys_timer", "timestamp_timer", "jtag_alarm"} THEN known ELSE known \cup {d}

\* alt_io_redirect: what is not found leaves the null device in place.
IoRedirect == stdio' = IF "jtag_uart" \in known THEN "jtag_uart" ELSE "null"

\* Both lists are run from the last entry to the first.
Backwards == Reverse([k \in 1 .. CppObjects |-> k])

BootStep ==
  /\ BootNow # "main"
  /\ at' = at + 1
  /\ IF BootNow = "clear_bss" THEN ClearBss
     ELSE IF BootNow = "alt_load" THEN AltLoad ELSE UNCHANGED words
  /\ IF BootNow \in Range(SysInit) THEN DriverInit(BootNow) ELSE UNCHANGED <<upRate, hostAlarm, known>>
  /\ IF BootNow = "redirect" THEN IoRedirect ELSE UNCHANGED stdio
  /\ built' = IF BootNow = "ctors" THEN Backwards ELSE built
  /\ UNCHANGED <<upTicks, razed, over, killed>>

\* A tick of the system timer, from the moment its driver has registered it;
\* also after the end, when the processor only spins.
UpTick ==
  /\ upRate # 0 /\ upTicks < MaxUpTicks
  /\ upTicks' = upTicks + 1
  /\ hostAlarm' = IF hostAlarm = upTicks + 1 THEN hostAlarm + upRate ELSE hostAlarm
  /\ UNCHANGED <<at, words, upRate, known, stdio, built, razed, over, killed>>

---------------------------------------------------------------------------
(* The end *)

\* main returns: stdout is closed, the destructors run, and _exit spins.
MainReturns ==
  /\ BootNow = "main" /\ over = "no"
  /\ over' = "exit" /\ razed' = Backwards /\ stdio' = "none"
  /\ UNCHANGED <<at, words, upRate, upTicks, hostAlarm, known, built, killed>>

Fatal == {"SIGABRT", "SIGALRM", "SIGFPE", "SIGILL", "SIGKILL", "SIGPIPE", "SIGQUIT", "SIGSEGV",
          "SIGTERM", "SIGUSR1", "SIGUSR2", "SIGBUS", "SIGPOLL", "SIGPROF", "SIGSYS", "SIGTRAP",
          "SIGVTALRM", "SIGXCPU", "SIGXFSZ"}
Ignored == {"0", "SIGCHLD", "SIGURG"}

\* Any process number up to 0 is this process; _exit runs no destructors.
Kill(pid, sig) ==
  /\ BootNow = "main" /\ over = "no"
  /\ over' = IF pid <= 0 /\ sig \in Fatal THEN "kill" ELSE "no"
  /\ killed' = IF pid > 0 THEN "ESRCH"
               ELSE IF sig \in Fatal THEN killed
               ELSE IF sig \in Ignored THEN "0" ELSE "EINVAL"
  /\ UNCHANGED <<at, words, upRate, upTicks, hostAlarm, known, stdio, built, razed>>

StartNext ==
  \/ BootStep \/ UpTick \/ MainReturns
  \/ \E pid \in -1 .. 1, sig \in Fatal \cup Ignored \cup {"SIGINT"} : Kill(pid, sig)

---------------------------------------------------------------------------
(* Properties *)

\* The drivers and main find every word of their data as linked or cleared,
\* though the cleared section is cleared before the data is copied
\* (crt0.S:376-420, linker.x:234-264).
DataAsLinked ==
  at > 2 =>
    /\ \A a \in RwUsed : words[a] = AsLinked("rwdata", a - RoWords)
    /\ \A a \in Bss : words[a] = <<"zero">>
    /\ \A a \in 0 .. RoWords - 1 : words[a] = AsLinked("rodata", a)

\* From main on the host of the JTAG UART is watched: its alarm is due within
\* a second, and not overdue (altera_avalon_jtag_uart_init.c:84-96 needs the
\* timer that alt_sys_init brings up first).
HostWatched == BootNow = "main" => upTicks < hostAlarm /\ hostAlarm <= upTicks + upRate + 1

\* main has the JTAG UART for its standard output until it returns
\* (alt_main.c:116-131).
StdioAtMain == BootNow = "main" /\ over # "exit" => stdio = "jtag_uart"
=============================================================================
