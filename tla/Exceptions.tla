----------------------------- MODULE Exceptions -----------------------------
(***************************************************************************)
(* What happens when the processor leaves the program: the entry code that *)
(* tells an interrupt from an instruction that cannot be executed, the     *)
(* handler a program may register for the latter, and the way back         *)
(* (alt_exception_entry.S, alt_irq_entry.S,                                *)
(* alt_instruction_exception_entry.c).                                     *)
(*                                                                         *)
(* The program is a sequence of kinds of instructions, and ea counts       *)
(* instructions instead of bytes.                                          *)
(***************************************************************************)
EXTENDS Integers, SequencesExt, FiniteSetsExt

CONSTANTS
  CodeLength,      \* instructions of the program
  MaxRaised        \* bound on the interrupts

\* alt_exception_cause: an illegal instruction, and one at a misaligned address.
ILLEGAL == 5
MISALIGNED == 6
INTERRUPT == 2
NOT_PRESENT == -1
Faults == {"illegal", "misaligned"}
CauseOf == [plain |-> INTERRUPT, mask |-> INTERRUPT, illegal |-> ILLEGAL, misaligned |-> MISALIGNED]

REISSUE == 0
SKIP == 1

VARIABLES
  code,            \* the program
  extra,           \* NIOS2_HAS_EXTRA_EXCEPTION_INFO
  registered,      \* alt_instruction_exception_handler is set
  excPc, excPie,   \* the next instruction, status.PIE
  exCause, exAddr, \* the EXCEPTION and BADADDR registers
  irqUp,           \* ipending
  frame,           \* the stack frame of the exception, and the place in the code
  repaired,        \* instructions that a handler has made right
  executed,        \* history: the instructions executed, in order
  blamed, trusted, \* history: what handlers took for the instruction, the address
  barged,          \* history: an interrupt was handled while masked
  withdrawn,       \* history: a device took its interrupt back
  raisedTimes
excVars == <<code, extra, registered, excPc, excPie, exCause, exAddr, irqUp, frame, repaired,
             executed, blamed, trusted, barged, withdrawn, raisedTimes>>

NoFrame == [at |-> "program", estatus |-> TRUE, ea |-> 0, next |-> 0, result |-> REISSUE]

ExcInitOf(kinds, processors) ==
  /\ code \in [1 .. CodeLength -> kinds] /\ extra \in processors /\ registered = FALSE
  /\ excPc = 1 /\ excPie = TRUE /\ exCause = 0 /\ exAddr = 0 /\ irqUp = FALSE
  /\ frame = NoFrame /\ repaired = {} /\ executed = << >>
  /\ blamed = {} /\ trusted = {} /\ barged = FALSE /\ withdrawn = FALSE /\ raisedTimes = 0
ExcInit == ExcInitOf({"plain", "mask"} \cup Faults, BOOLEAN)
ExcIdle == ExcInitOf({"plain"}, {FALSE})

InProgram(pc) == frame.at = "program" /\ pc <= CodeLength
Faulty(pc) == code[pc] \in Faults /\ pc \notin repaired

---------------------------------------------------------------------------
(* The processor and its devices *)

\* An instruction; one of them turns the interrupts off or on.
Execute ==
  /\ InProgram(excPc) /\ ~(irqUp /\ excPie) /\ ~Faulty(excPc)
  /\ executed' = Append(executed, excPc) /\ excPc' = excPc + 1
  /\ excPie' = IF code[excPc] = "mask" THEN ~excPie ELSE excPie
  /\ UNCHANGED <<code, extra, registered, exCause, exAddr, irqUp, frame, repaired,
                 blamed, trusted, barged, withdrawn, raisedTimes>>

RaiseIrq ==
  /\ ~irqUp /\ raisedTimes < MaxRaised /\ raisedTimes' = raisedTimes + 1 /\ irqUp' = TRUE
  /\ UNCHANGED <<code, extra, registered, excPc, excPie, exCause, exAddr, frame, repaired,
                 executed, blamed, trusted, barged, withdrawn>>

\* A peripheral that negates its interrupt before its handler has run.
WithdrawIrq ==
  /\ irqUp /\ irqUp' = FALSE /\ withdrawn' = TRUE
  /\ UNCHANGED <<code, extra, registered, excPc, excPie, exCause, exAddr, frame, repaired,
                 executed, blamed, trusted, barged, raisedTimes>>

\* BADADDR is written by the faults that have one.
TakeException ==
  /\ InProgram(excPc)
  /\ (irqUp /\ excPie) \/ Faulty(excPc)
  /\ frame' = [at |-> "test", estatus |-> excPie, ea |-> excPc + 1, next |-> excPc,
               result |-> REISSUE]
  /\ excPie' = FALSE
  /\ exCause' = IF irqUp /\ excPie THEN INTERRUPT ELSE CauseOf[code[excPc]]
  /\ exAddr' = IF exCause' = MISALIGNED THEN excPc ELSE exAddr
  /\ UNCHANGED <<code, extra, registered, excPc, irqUp, repaired, executed, blamed,
                 trusted, barged, withdrawn, raisedTimes>>

\* alt_instruction_exception_register, with a handler or with none.
RegisterExceptions ==
  /\ InProgram(excPc) /\ registered' = ~registered
  /\ UNCHANGED <<code, extra, excPc, excPie, exCause, exAddr, irqUp, frame, repaired, executed,
                 blamed, trusted, barged, withdrawn, raisedTimes>>

---------------------------------------------------------------------------
(* The entry code *)

IsIrq(estatus, up) == estatus /\ up

\* The interrupt is handled, and the instruction is issued again; or it is not
\* an interrupt, and the next one is meant to be.  The test does not know which
\* of the two the processor stopped for.
IrqTest ==
  /\ frame.at = "test"
  /\ IF IsIrq(frame.estatus, irqUp)
     THEN /\ irqUp' = FALSE /\ barged' = (barged \/ ~frame.estatus)
          /\ frame' = [frame EXCEPT !.at = "exit"]
     ELSE /\ frame' = [frame EXCEPT !.at = "unknown", !.next = frame.ea]
          /\ UNCHANGED <<irqUp, barged>>
  /\ UNCHANGED <<code, extra, registered, excPc, excPie, exCause, exAddr, repaired, executed,
                 blamed, trusted, withdrawn, raisedTimes>>

\* alt_exception_cause_generated_bad_addr, of the causes that can occur here.
GeneratedBadAddr(cause) == cause = MISALIGNED

FaultyAddress(ea) == ea - 1

\* alt_instruction_exception_entry with a handler: it may repair the
\* instruction and have it issued again, or skip it.  What it learns of the
\* cause depends on the processor.
CallHandler ==
  /\ frame.at = "unknown" /\ registered
  /\ LET cause == IF extra THEN exCause ELSE NOT_PRESENT
         pc    == FaultyAddress(frame.ea)
     IN /\ blamed' = blamed \cup {pc}
        /\ trusted' = IF GeneratedBadAddr(cause) THEN trusted \cup {<<pc, exAddr>>} ELSE trusted
        /\ \E result \in {REISSUE, SKIP}, fix \in {{}, {pc}} :
             /\ frame' = [frame EXCEPT !.at = "result", !.result = result]
             /\ repaired' = IF result = REISSUE THEN repaired \cup fix ELSE repaired
  /\ UNCHANGED <<code, extra, registered, excPc, excPie, exCause, exAddr, irqUp, executed,
                 barged, withdrawn, raisedTimes>>

\* Without one it stops in the debugger, which may repair the instruction and go
\* on; the entry then returns that the instruction is to be issued again.
BreakToDebugger ==
  /\ frame.at = "unknown" /\ ~registered
  /\ \E fix \in {{}, {excPc}} : repaired' = repaired \cup fix
  /\ frame' = [frame EXCEPT !.at = "result", !.result = REISSUE]
  /\ UNCHANGED <<code, extra, registered, excPc, excPie, exCause, exAddr, irqUp, executed,
                 blamed, trusted, barged, withdrawn, raisedTimes>>

NextIssued(result, f) == IF result # REISSUE THEN f.next ELSE f.ea - 1

AfterResult ==
  /\ frame.at = "result"
  /\ frame' = [frame EXCEPT !.at = "exit", !.next = NextIssued(frame.result, frame)]
  /\ UNCHANGED <<code, extra, registered, excPc, excPie, exCause, exAddr, irqUp, repaired,
                 executed, blamed, trusted, barged, withdrawn, raisedTimes>>

ReturnFromException ==
  /\ frame.at = "exit"
  /\ excPc' = frame.next /\ excPie' = frame.estatus /\ frame' = NoFrame
  /\ UNCHANGED <<code, extra, registered, exCause, exAddr, irqUp, repaired, executed,
                 blamed, trusted, barged, withdrawn, raisedTimes>>

ExcNext ==
  \/ Execute \/ RaiseIrq \/ WithdrawIrq \/ TakeException \/ RegisterExceptions
  \/ IrqTest \/ CallHandler \/ BreakToDebugger \/ AfterResult \/ ReturnFromException

---------------------------------------------------------------------------
(* Properties *)

\* No instruction is executed twice or out of its order, and one is left out only
\* if a handler was called for it, whatever interrupts and faults come together:
\* an instruction that faults while an interrupt is up faults again after it
\* (alt_exception_entry.S:149-179, 306-352, alt_irq_entry.S:78-82).  Which of a
\* handler's two answers leaves it out is not said: the code and sys/alt_exceptions.h
\* have 1 for it, the comment of alt_exception_entry.S:222-227 has 0.
ExecutedOnce ==
  /\ \A k \in 1 .. Len(executed) - 1 : executed[k] < executed[k + 1]
  /\ \A k \in 1 .. Len(executed) : executed[k] < excPc
  /\ \A which \in 1 .. excPc - 1 : which \in Range(executed) \cup blamed

\* A handler is only called for an instruction that cannot be executed, unless
\* a device has taken its interrupt back: then it gets an innocent one, and can
\* not tell without the cause register (alt_instruction_exception_entry.c:67-160).
OnlyFaultyBlamed == ~withdrawn => \A pc \in blamed : code[pc] \in Faults

\* The address that is said to be valid belongs to the instruction blamed, not
\* to an earlier fault (alt_instruction_exception_entry.c:185-203).
BadAddrFresh == \A t \in trusted : t[1] = t[2]

\* No interrupt is handled while the program has them masked
\* (alt_irq_entry.S:78-82).
MaskRespected == ~barged
=============================================================================
