------------------------------ MODULE Profile ------------------------------
(***************************************************************************)
(* Profiling: mcount, which every instrumented function calls first, with  *)
(* its list of functions and, for each, of the arcs into it, and the       *)
(* sampling of the program counter (alt_mcount.S, alt_gmon.c).             *)
(*                                                                         *)
(* The program and an interrupt handler both call instrumented functions;  *)
(* the lists are searched without a lock and grown with the interrupts     *)
(* off.  New entries go to the front of a list, so that a search sees what *)
(* there was when it read the head: here the lists have their oldest entry *)
(* first, and a head is a number of entries.                               *)
(***************************************************************************)
EXTENDS Integers, SequencesExt

CONSTANTS
  Functions, Callers,
  TextBytes,       \* s_high_pc - s_low_pc
  BucketBytes,     \* PCSAMPLE_BYTES_PER_BUCKET
  SlabBytes,       \* MCOUNT_SLAB_INCREMENT
  MaxCalls         \* bound on the calls of a behaviour

ASSUME ProfileAssumption ==
  /\ TextBytes \in Nat \ {0} /\ BucketBytes \in Nat \ {0} /\ MaxCalls \in Nat
  /\ SlabBytes \in Nat /\ SlabBytes >= 12

Who == {"program", "handler"}
Resting == [pc |-> "out", self |-> "none", from |-> "none", head |-> 0, fn |-> 0, arc |-> 0,
            count |-> 0]

VARIABLES
  fns,             \* the functions: [self, arcs, at], an arc being [from, count, at]
  slab,            \* mcount_slab_ptr and _size, and the end of the heap
  doing,           \* the call of mcount each is in
  inside,          \* the handler runs, and the program does not
  ticking,         \* the timer has been started
  pcsample_need_init,
  starts,          \* alarms started for the sampler
  buckets,         \* buckets of the histogram that were counted up
  begun, ended,    \* history: calls of each arc, by whom
  raced            \* history: an interrupt came between test and store of the flag
profileVars == <<fns, slab, doing, inside, ticking, pcsample_need_init, starts, buckets, begun,
                 ended, raced>>

Arcs == Functions \X Callers
NoCalls == [w \in Who |-> [a \in Arcs |-> 0]]
ProfileInit ==
  /\ fns = << >> /\ slab = [ptr |-> 0, left |-> 0, top |-> 0]
  /\ doing = [w \in Who |-> Resting] /\ inside = FALSE
  /\ ticking = FALSE /\ pcsample_need_init = TRUE /\ starts = 0 /\ buckets = {}
  /\ begun = NoCalls /\ ended = NoCalls /\ raced = FALSE

Now0 == IF inside THEN "handler" ELSE "program"
Here == doing[Now0]
AtStep(pc) == Here.pc = pc
Goes(c) == doing' = [doing EXCEPT ![Now0] = c]
Calls == FoldFunction(LAMBDA n, sum : n + sum, 0, [p \in Who \X Arcs |-> begun[p[1]][p[2]]])

---------------------------------------------------------------------------
(* mcount *)

Mcount(self, from) ==
  /\ AtStep("out") /\ Calls < MaxCalls
  /\ Goes([Resting EXCEPT !.pc = "function", !.self = self, !.from = from, !.head = Len(fns)])
  /\ begun' = [begun EXCEPT ![Now0][<<self, from>>] = @ + 1]
  /\ UNCHANGED <<fns, slab, inside, ticking, pcsample_need_init, starts, buckets, ended, raced>>

\* The newest of the entries found, or 0.
Newest(found) == IF found = {} THEN 0 ELSE Max(found)

FindFunction ==
  /\ AtStep("function")
  /\ LET fn == Newest({k \in 1 .. Here.head : fns[k].self = Here.self})
     IN Goes(IF fn = 0 THEN [Here EXCEPT !.pc = "record"]
             ELSE [Here EXCEPT !.pc = "arc", !.fn = fn, !.head = Len(fns[fn].arcs)])
  /\ UNCHANGED <<fns, slab, inside, ticking, pcsample_need_init, starts, buckets, begun, ended, raced>>

ArcOf(fn, head, from) == Newest({k \in 1 .. head : fns[fn].arcs[k].from = from})

FindArc ==
  /\ AtStep("arc")
  /\ LET arc == ArcOf(Here.fn, Here.head, Here.from)
     IN Goes(IF arc = 0 THEN [Here EXCEPT !.pc = "record"]
             ELSE [Here EXCEPT !.pc = "store", !.arc = arc, !.count = fns[Here.fn].arcs[arc].count])
  /\ UNCHANGED <<fns, slab, inside, ticking, pcsample_need_init, starts, buckets, begun, ended, raced>>

Finish ==
  /\ Goes(Resting)
  /\ ended' = [ended EXCEPT ![Now0][<<Here.self, Here.from>>] = @ + 1]

Counted(n) == n + 1

StoreCount ==
  /\ AtStep("store")
  /\ fns' = [fns EXCEPT ![Here.fn].arcs[Here.arc].count = Counted(Here.count)]
  /\ Finish
  /\ UNCHANGED <<slab, inside, ticking, pcsample_need_init, starts, buckets, begun, raced>>

---------------------------------------------------------------------------
(* mcount_allocate: entries of functions and of arcs have three words; the *)
(* end of a slab too short for one is lost                                 *)

EntryBytes == 12

NewSlab(left) == EntryBytes > left

FreshSlab(s) ==
  IF NewSlab(s.left) THEN [ptr |-> s.top, left |-> SlabBytes, top |-> s.top + SlabBytes] ELSE s

SlabPlace == FreshSlab(slab).ptr
\* The two kinds of entry; new ones hold nothing and a count of one.
NewFunction(self) == [self |-> self, arcs |-> << >>, at |-> SlabPlace]
NewArc(from) == [from |-> from, count |-> 1, at |-> SlabPlace]
Allocate == slab' = [FreshSlab(slab) EXCEPT !.ptr = @ + EntryBytes, !.left = @ - EntryBytes]

---------------------------------------------------------------------------
(* __mcount_record *)

TestFlag ==
  /\ AtStep("record")
  /\ Goes([Here EXCEPT !.pc = IF pcsample_need_init THEN "clear" ELSE "add function"])
  /\ raced' = (raced \/ (inside /\ doing["program"].pc = "clear"))
  /\ UNCHANGED <<fns, slab, inside, ticking, pcsample_need_init, starts, buckets, begun, ended>>

Cleared == FALSE

ClearFlag ==
  /\ AtStep("clear")
  /\ pcsample_need_init' = Cleared
  /\ Goes([Here EXCEPT !.pc = "start"])
  /\ UNCHANGED <<fns, slab, inside, ticking, starts, buckets, begun, ended, raced>>

\* nios2_pcsample_init, up to its return: without a tick it is to be tried again.
StartSampler ==
  /\ AtStep("start")
  /\ starts' = IF ticking THEN starts + 1 ELSE starts
  /\ Goes([Here EXCEPT !.pc = IF ticking THEN "started" ELSE "not started"])
  /\ UNCHANGED <<fns, slab, inside, ticking, pcsample_need_init, buckets, begun, ended, raced>>
SetFlag ==
  /\ AtStep("started") \/ AtStep("not started")
  /\ pcsample_need_init' = AtStep("not started")
  /\ Goes([Here EXCEPT !.pc = "add function"])
  /\ UNCHANGED <<fns, slab, inside, ticking, starts, buckets, begun, ended, raced>>

\* With the interrupts off: a function if none was found, then the arc.
AddFunction ==
  /\ AtStep("add function")
  /\ IF Here.fn = 0
     THEN /\ fns' = Append(fns, NewFunction(Here.self)) /\ Allocate
          /\ Goes([Here EXCEPT !.pc = "add arc", !.fn = Len(fns) + 1])
     ELSE Goes([Here EXCEPT !.pc = "add arc"]) /\ UNCHANGED <<fns, slab>>
  /\ UNCHANGED <<inside, ticking, pcsample_need_init, starts, buckets, begun, ended, raced>>
AddArc ==
  /\ AtStep("add arc")
  /\ fns' = [fns EXCEPT ![Here.fn].arcs = Append(@, NewArc(Here.from))]
  /\ Allocate /\ Finish
  /\ UNCHANGED <<inside, ticking, pcsample_need_init, starts, buckets, begun, raced>>

---------------------------------------------------------------------------
(* Interrupts, and nios2_pcsample *)

\* Seeded bug: the interrupts stay on.
MaskedNowhere == {}

\* Between these two steps the interrupts are off.
MaskedAt == {"add arc"}

Interrupted ==
  /\ ~inside /\ inside' = TRUE /\ Here.pc \notin MaskedAt
  /\ UNCHANGED <<fns, slab, doing, ticking, pcsample_need_init, starts, buckets, begun, ended, raced>>
Returned ==
  /\ inside /\ AtStep("out") /\ inside' = FALSE
  /\ UNCHANGED <<fns, slab, doing, ticking, pcsample_need_init, starts, buckets, begun, ended, raced>>

\* alt_sysclk_init.
TimerStarts ==
  /\ ~inside /\ AtStep("out") /\ ticking' = TRUE
  /\ UNCHANGED <<fns, slab, doing, inside, pcsample_need_init, starts, buckets, begun, ended, raced>>

Profiled(pc) == pc < TextBytes

\* The tick of the timer, at an address from the start of the text section.
Pcsample(pc) ==
  /\ inside /\ starts > 0 /\ Profiled(pc)
  /\ buckets' = buckets \cup {pc \div BucketBytes}
  /\ UNCHANGED <<fns, slab, doing, inside, ticking, pcsample_need_init, starts, begun, ended, raced>>

ProfileNext ==
  \/ \E f \in Functions, c \in Callers : Mcount(f, c)
  \/ FindFunction \/ FindArc \/ StoreCount
  \/ TestFlag \/ ClearFlag \/ StartSampler \/ SetFlag \/ AddFunction \/ AddArc
  \/ Interrupted \/ Returned \/ TimerStarts
  \/ \E pc \in {0, TextBytes - 1, TextBytes} : Pcsample(pc)

---------------------------------------------------------------------------
(* Properties *)

ArcPlaces == UNION {{<<f, k>> : k \in 1 .. Len(fns[f].arcs)} : f \in 1 .. Len(fns)}
Copies(a) == {p \in ArcPlaces : fns[p[1]].self = a[1] /\ fns[p[1]].arcs[p[2]].from = a[2]}

\* A function is listed at most twice, and an arc at most twice in each: the
\* edge case that a comment leaves to the host stays that small, however calls
\* and interrupts come (alt_gmon.c:176-179).  The comment speaks of two copies
\* of an arc; a function listed twice can leave three.
FewCopies ==
  \A a \in Arcs :
    LET entries == {c[1] : c \in Copies(a)}
    IN /\ Cardinality({f \in 1 .. Len(fns) : fns[f].self = a[1]}) <= 2
       /\ \A f \in entries : Cardinality({c \in Copies(a) : c[1] = f}) <= 2

\* Entries made by the program and by a handler never share memory, and none
\* reaches past what sbrk gave, whatever the size of a slab
\* (alt_gmon.c:133-148, 181-202).
EntriesApart ==
  LET entries == {<<0, f>> : f \in 1 .. Len(fns)} \cup ArcPlaces
      At0(e) == IF e[1] = 0 THEN fns[e[2]].at ELSE fns[e[1]].arcs[e[2]].at
  IN /\ \A e \in entries : At0(e) + EntryBytes <= slab.top
     /\ \A e, g \in entries : e = g \/ At0(e) + EntryBytes <= At0(g) \/ At0(g) + EntryBytes <= At0(e)

\* A function that is found has an arc, so that the search may look at the
\* first without comparing it with NULL (alt_mcount.S:76-83).
AlwaysAnArc == \A w \in Who : doing[w].pc = "arc" => doing[w].head > 0

\* The counts of an arc, all copies together, are at most the calls begun and
\* at least those the program has ended: an interrupt between the load and the
\* store of a count loses calls of the handler only (alt_mcount.S:113-117).
Total(a) == FoldFunction(+, 0, [p \in Copies(a) |-> fns[p[1]].arcs[p[2]].count])
CountsHold ==
  \A a \in Arcs :
    /\ ended["program"][a] <= Total(a)
    /\ Total(a) <= begun["program"][a] + begun["handler"][a]

\* The sampler's alarm is started once, although the calls of
\* nios2_pcsample_init are not locked - unless an interrupt finds the flag
\* tested and not yet cleared (alt_gmon.c:168-172).
SampledOnce == raced \/ starts <= 1

\* A sample is counted in the histogram, or one place behind it when the text
\* is no multiple of a bucket: its size is rounded down (alt_gmon.c:226, 265).
SamplesInside ==
  \A b \in buckets : b < TextBytes \div BucketBytes \/ (b = TextBytes \div BucketBytes /\ TextBytes % BucketBytes # 0)

\* The profile of a program that is interrupted anywhere can be read: lists
\* with few copies, counts within the calls made, entries that share nothing.
ProfileHolds ==
  /\ FewCopies /\ EntriesApart /\ AlwaysAnArc
  /\ CountsHold /\ SampledOnce /\ SamplesInside
============================================================================
