----------------------------- MODULE Interrupts -----------------------------
(***************************************************************************)
(* Interrupts and the critical sections that keep them out: the dispatcher *)
(* alt_irq_handler, the table of handlers, the enabled lines, and the heap *)
(* that alt_sbrk extends (alt_irq.h, alt_legacy_irq.h, alt_irq_register.c, *)
(* alt_irq_handler.c, alt_sbrk.c).                                         *)
(*                                                                         *)
(* The program and the handler each make a call at a time, in steps; the   *)
(* handler stops the program.  A line's handler is known by its context.   *)
(***************************************************************************)
EXTENDS Integers, SequencesExt

CONSTANTS
  Lines,           \* interrupt numbers
  Contexts,        \* what handlers are registered with
  Sizes,           \* what alt_sbrk is asked for
  HeapLimit        \* __alt_heap_limit, from __alt_heap_start

ASSUME IrqAssumption ==
  /\ Lines \subseteq 0 .. 31 /\ HeapLimit \in Nat /\ Sizes \subseteq Nat \ {0}

Nothing == "none"
NoLine == -1

VARIABLES
  pie,             \* status.PIE
  ienable, alt_irq_active,
  raised,          \* lines a device holds up
  handlers, contexts,          \* alt_irq
  serving,         \* the line whose handler runs, or NoLine
  call,            \* the call the program and the handler are in
  heap_end,
  enabledFor,      \* history: the lines that should be enabled
  blocks,          \* history: what alt_sbrk has given
  torn             \* history: a handler ran with another's context
irqVars == <<pie, ienable, alt_irq_active, raised, handlers, contexts, serving, call, heap_end,
             enabledFor, blocks, torn>>

\* A call: what is done to which line or with which argument, the step it is
\* at, the status words saved on the way in, and what was read.
Idle == [does |-> Nothing, on |-> 0, arg |-> Nothing, saved |-> << >>, read |-> {}]

IrqInit ==
  /\ pie = TRUE /\ ienable = {} /\ alt_irq_active = {} /\ raised = {}
  /\ handlers = [i \in Lines |-> Nothing] /\ contexts = handlers
  /\ serving = NoLine /\ call = [who \in {"program", "handler"} |-> Idle]
  /\ heap_end = 0 /\ enabledFor = {} /\ blocks = {} /\ torn = FALSE

ipending == raised \cap ienable
Running == IF serving = NoLine THEN "program" ELSE "handler"
Now == call[Running]
Busy(who) == call[who].does # Nothing
Becomes(c) == call' = [call EXCEPT ![Running] = c]

---------------------------------------------------------------------------
(* The hardware, and alt_irq_handler *)

Raise(i) ==
  /\ raised' = raised \cup {i}
  /\ UNCHANGED <<pie, ienable, alt_irq_active, handlers, contexts, serving, call, heap_end,
                 enabledFor, blocks, torn>>

\* The interrupt is taken, or the handler has returned and another line is up:
\* the lowest is served.
Dispatch ==
  /\ ipending # {}
  /\ \/ serving = NoLine /\ pie
     \/ serving # NoLine /\ ~Busy(Running) /\ serving \notin raised
  /\ pie' = FALSE
  /\ serving' = Min(ipending)
  /\ torn' = (torn \/ handlers[Min(ipending)] = Nothing
                   \/ handlers[Min(ipending)] # contexts[Min(ipending)])
  /\ UNCHANGED <<ienable, alt_irq_active, raised, handlers, contexts, call, heap_end, enabledFor,
                 blocks>>

\* The handler sees to its device.
Serve ==
  /\ serving \in raised
  /\ raised' = raised \ {serving}
  /\ UNCHANGED <<pie, ienable, alt_irq_active, handlers, contexts, serving, call, heap_end,
                 enabledFor, blocks, torn>>

\* No line is up: the exception returns.
Resume ==
  /\ serving # NoLine /\ ~Busy(Running) /\ serving \notin raised /\ ipending = {}
  /\ serving' = NoLine /\ pie' = TRUE
  /\ UNCHANGED <<ienable, alt_irq_active, raised, handlers, contexts, call, heap_end, enabledFor,
                 blocks, torn>>

---------------------------------------------------------------------------
(* Critical sections *)

\* Seeded bug: the interrupts are left enabled.
MaskedNever == pie

Masked == FALSE

\* alt_irq_disable_all on the way into c.
Enter(c) ==
  /\ pie' = Masked
  /\ Becomes([c EXCEPT !.saved = Append(@, pie)])

Restored(status) == status

\* alt_irq_enable_all.
Leave(c) ==
  /\ pie' = Restored(Last(Now.saved))
  /\ Becomes(IF Len(Now.saved) = 1 THEN Idle ELSE [c EXCEPT !.saved = Front(@)])

\* A call is begun by the program, or by the handler for its own line.
Begins(does, i, arg) ==
  /\ ~Busy(Running) /\ (serving # NoLine => i = serving)
  /\ Enter([does |-> does, on |-> i, arg |-> arg, saved |-> << >>, read |-> {}])
  /\ UNCHANGED <<ienable, alt_irq_active, raised, handlers, contexts, serving, heap_end,
                 enabledFor, blocks, torn>>

\* alt_irq_enable and alt_irq_disable, of a line that has a handler.
Switch(i, to) == handlers[i] # Nothing /\ Begins("read", i, to)

ReadActive ==
  /\ Now.does = "read"
  /\ Becomes([Now EXCEPT !.does = "write", !.read = alt_irq_active])
  /\ UNCHANGED <<pie, ienable, alt_irq_active, raised, handlers, contexts, serving, heap_end,
                 enabledFor, blocks, torn>>
WriteActive ==
  /\ Now.does = "write"
  /\ alt_irq_active' = IF Now.arg = "on" THEN Now.read \cup {Now.on} ELSE Now.read \ {Now.on}
  /\ ienable' = alt_irq_active'
  /\ enabledFor' = IF Now.arg = "on" THEN enabledFor \cup {Now.on} ELSE enabledFor \ {Now.on}
  /\ Becomes([Now EXCEPT !.does = "leave"])
  /\ UNCHANGED <<pie, raised, handlers, contexts, serving, heap_end, blocks, torn>>

\* alt_irq_register, with Nothing to take the handler away; it calls
\* alt_irq_enable or alt_irq_disable.
Register(i, c) == serving = NoLine /\ Begins("handler", i, c)

SetHandler ==
  /\ Now.does = "handler"
  /\ handlers' = [handlers EXCEPT ![Now.on] = Now.arg]
  /\ Becomes([Now EXCEPT !.does = "context"])
  /\ UNCHANGED <<pie, ienable, alt_irq_active, raised, contexts, serving, heap_end, enabledFor,
                 blocks, torn>>
SetContext ==
  /\ Now.does = "context"
  /\ contexts' = [contexts EXCEPT ![Now.on] = Now.arg]
  /\ Enter([Now EXCEPT !.does = "read", !.arg = IF Now.arg = Nothing THEN "off" ELSE "on"])
  /\ UNCHANGED <<ienable, alt_irq_active, raised, handlers, serving, heap_end, enabledFor, blocks,
                 torn>>

\* alt_sbrk.
Sbrk(size) == Begins("align", IF serving = NoLine THEN 0 ELSE serving, size)

Align ==
  /\ Now.does = "align"
  /\ heap_end' = (heap_end + 3) - ((heap_end + 3) % 4)
  /\ Becomes([Now EXCEPT !.does = "extend"])
  /\ UNCHANGED <<pie, ienable, alt_irq_active, raised, handlers, contexts, serving, enabledFor,
                 blocks, torn>>

Fits(end) == end <= HeapLimit

Extend ==
  /\ Now.does = "extend"
  /\ IF Fits(heap_end + Now.arg)
     THEN /\ blocks' = blocks \cup {heap_end .. heap_end + Now.arg - 1}
          /\ heap_end' = heap_end + Now.arg
     ELSE UNCHANGED <<blocks, heap_end>>
  /\ Becomes([Now EXCEPT !.does = "leave"])
  /\ UNCHANGED <<pie, ienable, alt_irq_active, raised, handlers, contexts, serving, enabledFor,
                 torn>>

LeaveSection ==
  /\ Now.does = "leave" /\ Leave(Now)
  /\ UNCHANGED <<ienable, alt_irq_active, raised, handlers, contexts, serving, heap_end,
                 enabledFor, blocks, torn>>

InSection ==
  \/ ReadActive \/ WriteActive \/ SetHandler \/ SetContext \/ Align \/ Extend \/ LeaveSection

IrqNext ==
  \/ \E i \in Lines : Raise(i) \/ (\E to \in {"on", "off"} : Switch(i, to))
                      \/ (\E c \in Contexts \cup {Nothing} : Register(i, c))
  \/ \E size \in Sizes : Sbrk(size)
  \/ Dispatch \/ Serve \/ Resume \/ InSection

---------------------------------------------------------------------------
(* Properties *)

\* Once its calls are over, the lines enabled are those that were enabled and
\* not disabled since: no update of alt_irq_active by a handler is lost to one
\* of the program (alt_legacy_irq.h:86-99).
EnabledAsMeant ==
  (\A who \in DOMAIN call : ~Busy(who)) => ienable = enabledFor /\ alt_irq_active = enabledFor

\* A handler runs only when registered, with the context it was registered with
\* (alt_irq_register.c:82-99).
CalledWhole == ~torn

\* A section is not interrupted, nor is a handler, and sections nest: the
\* inner one does not open the outer one (alt_irq.h:104-137).
MaskHolds ==
  /\ call["program"].saved # << >> => serving = NoLine /\ ~pie
  /\ serving # NoLine => ~pie

\* The blocks alt_sbrk gives are aligned and apart, whoever asks and whatever
\* was refused in between (alt_sbrk.c:70-130).  Where they end is not said: the
\* comment has it that nothing is checked and a block may collide with the stack
\* (alt_sbrk.c:46-48), the code compares the end with __alt_heap_limit.
BlocksApart ==
  /\ \A b \in blocks : Min(b) % 4 = 0
  /\ \A b, c \in blocks : b # c => b \cap c = {}
===========================================================================
