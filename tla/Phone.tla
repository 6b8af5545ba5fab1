------------------------------- MODULE Phone -------------------------------
(***************************************************************************)
(* The phone's outgoing mailbox: the one Instruction of TheApplication.    *)
(*                                                                         *)
(* The UI thread turns touches and buttons into writes of its three        *)
(* fields, one after the other; a timer thread polls it every 50 ms, reads *)
(* the fields byte by byte, writes them to the socket and then marks the   *)
(* mailbox empty.  Nothing synchronises the two, and an activity that is   *)
(* created again starts a further timer thread.                            *)
(*                                                                         *)
(* Events are numbered from 1 in the order the UI thread handles them, and *)
(* a field holds the number of the event that wrote it, 0 at the start; a  *)
(* cmd of 0 is NONE.                                                       *)
(***************************************************************************)
EXTENDS Integers, Sequences

CONSTANTS
  MaxEvents,      \* bound on the events of a behaviour
  Gestures,       \* the kinds of touches the user makes
  MaxTimers,      \* bound on the timer threads, i.e. on onCreate calls
  Flaky           \* TRUE: the link to the middleman may come and go

Lines == {"LINE_START", "LINE_PT", "LINE_END"}
Touches == Lines \cup {"FILL_PIXEL", "FILL_COLOR"}
Posts == Touches \cup {"FILL_SCR"}
Fields == {"cmd", "pixel", "color"}

ASSUME PhoneAssumption ==
  /\ MaxEvents \in Nat /\ MaxTimers \in Nat \ {0} /\ Flaky \in BOOLEAN
  /\ Gestures \subseteq Touches

VARIABLES
  kinds,       \* kinds[n] is what event n was
  down,        \* a finger is on the view, drawing a line
  todo,        \* the fields the current event has still to write
  instr,       \* the mailbox, app.instr
  timers,      \* the number of timer threads started
  pc,          \* where each timer thread is in TCPTimerTask.run
  seq,         \* the bytes each has read, toTransmit's seq
  up,          \* the socket is open
  wire         \* the instructions written to it

vars == <<kinds, down, todo, instr, timers, pc, seq, up, wire>>
ui == <<kinds, down, todo>>
timer == <<pc, seq>>

Timers == 1 .. MaxTimers

Init ==
  /\ kinds = << >> /\ down = FALSE /\ todo = << >>
  /\ instr = [f \in Fields |-> 0]
  /\ timers = 0
  /\ pc = [t \in Timers |-> "idle"]
  /\ seq = [t \in Timers |-> << >>]
  /\ up = TRUE
  /\ wire = << >>

---------------------------------------------------------------------------
(* The UI thread *)

\* Seeded bug: the touch listener posts the command first.
OrderCmdFirst(kind) ==
  IF kind = "create" THEN <<"color">> ELSE <<"cmd", "color", "pixel">>

\* The fields an event writes, in the order of the code: the touch listener
\* sets the colour first, the two buttons the command.
Order(kind) ==
  CASE kind = "create"   -> <<"color">>
    [] kind \in Touches  -> <<"color", "cmd", "pixel">>
    [] kind = "FILL_SCR" -> <<"cmd", "color", "pixel">>

Begin(kind) ==
  /\ todo = << >> /\ Len(kinds) < MaxEvents
  /\ kinds' = Append(kinds, kind)
  /\ todo' = Order(kind)

\* onCreate: a new Timer, whose thread polls beside those started before.
Create ==
  /\ timers < MaxTimers
  /\ Begin("create")
  /\ timers' = timers + 1
  /\ down' = FALSE
  /\ UNCHANGED <<instr, timer, up, wire>>

\* DrawView.onTouch: the radio button and the action select the command.  A
\* line is a LINE_START, any number of LINE_PT and a LINE_END.
Touch(kind) ==
  /\ timers > 0
  /\ kind \in {"LINE_PT", "LINE_END"} => down
  /\ kind \in {"LINE_START", "FILL_PIXEL", "FILL_COLOR"} => ~down
  /\ Begin(kind)
  /\ down' = (kind \in {"LINE_START", "LINE_PT"})
  /\ UNCHANGED <<instr, timers, timer, up, wire>>

\* fill_screen and onClear.
FillScreen ==
  /\ timers > 0 /\ ~down
  /\ Begin("FILL_SCR")
  /\ UNCHANGED <<down, instr, timers, timer, up, wire>>

\* The next setter of the current event.
WriteField ==
  /\ todo # << >>
  /\ instr' = [instr EXCEPT ![Head(todo)] = Len(kinds)]
  /\ todo' = Tail(todo)
  /\ UNCHANGED <<kinds, down, timers, timer, up, wire>>

UI == Create \/ FillScreen \/ WriteField \/ \E k \in Gestures : Touch(k)

---------------------------------------------------------------------------
(* A timer thread, TCPTimerTask.run *)

\* Seeded bug: the mailbox is sent whether it holds a command or not.
PendingAlways == TRUE

Pending == instr.cmd # 0

\* The socket is open and a command is pending.
Check(t) ==
  /\ t <= timers /\ pc[t] = "idle"
  /\ up /\ Pending
  /\ pc' = [pc EXCEPT ![t] = "read"]
  /\ seq' = [seq EXCEPT ![t] = << >>]
  /\ UNCHANGED <<ui, instr, timers, up, wire>>

\* toTransmit reads cmd, four times pixel and twice color.
ReadOrder == <<"cmd", "pixel", "pixel", "pixel", "pixel", "color", "color">>

Full(s) == Len(s) = 7

ReadByte(t) ==
  /\ pc[t] = "read"
  /\ LET s == Append(seq[t], instr[ReadOrder[Len(seq[t]) + 1]])
     IN /\ seq' = [seq EXCEPT ![t] = s]
        /\ pc' = [pc EXCEPT ![t] = IF Full(s) THEN "write" ELSE "read"]
  /\ UNCHANGED <<ui, instr, timers, up, wire>>


Write(t) ==
  /\ pc[t] = "write" /\ up
  /\ wire' = Append(wire, seq[t])
  /\ pc' = [pc EXCEPT ![t] = "clear"]
  /\ UNCHANGED <<ui, instr, timers, seq, up>>

\* Seeded bug: an exception ends the thread.
AfterFailureDead == "dead"

AfterFailure == "idle"

\* An IOException is caught: the command stays pending.
WriteFails(t) ==
  /\ pc[t] = "write" /\ ~up
  /\ pc' = [pc EXCEPT ![t] = AfterFailure]
  /\ UNCHANGED <<ui, instr, timers, seq, up, wire>>

\* Seeded bug: the command stays in the mailbox.
EmptiedNot == instr

Emptied == [instr EXCEPT !.cmd = 0]

\* setCmd(NONE).
Clear(t) ==
  /\ pc[t] = "clear"
  /\ instr' = Emptied
  /\ pc' = [pc EXCEPT ![t] = "idle"]
  /\ UNCHANGED <<ui, timers, seq, up, wire>>

Run(t) == Check(t) \/ ReadByte(t) \/ Write(t) \/ WriteFails(t) \/ Clear(t)

\* The link is opened and closed behind the thread's back (module Connection).
Link ==
  /\ Flaky
  /\ up' = ~up
  /\ UNCHANGED <<ui, instr, timers, timer, wire>>

Next == UI \/ Link \/ \E t \in Timers : Run(t)

Spec == Init /\ [][Next]_vars

\* Handlers run to their end, and the timers keep firing.
Fairness == WF_vars(WriteField) /\ \A t \in Timers : WF_vars(Run(t))

---------------------------------------------------------------------------
(* Properties *)

Events == 1 .. Len(kinds)
Sent == 1 .. Len(wire)

TypeOK ==
  /\ kinds \in Seq(Posts \cup {"create"}) /\ Len(kinds) <= MaxEvents
  /\ down \in BOOLEAN
  /\ todo \in Seq(Fields)
  /\ instr \in [Fields -> 0 .. Len(kinds)]
  /\ timers \in 0 .. MaxTimers
  /\ pc \in [Timers -> {"idle", "read", "write", "clear"}]
  /\ \A t \in Timers : seq[t] \in Seq(0 .. Len(kinds)) /\ Len(seq[t]) <= 7
  /\ up \in BOOLEAN
  /\ \A k \in Sent : Len(wire[k]) = 7

\* NONE is never transmitted: between the test of a pending command and its
\* transmission nobody empties the mailbox (MainActivity.java:344-349).
NeverSendsNone == \A k \in Sent : wire[k][1] # 0

\* Commands leave in the order they were posted, each at most once, although
\* a failed write leaves the command in the mailbox (MainActivity.java:344-353).
SentOnceInOrder == \A j, k \in Sent : j < k => wire[j][1] < wire[k][1]

\* The other fields sent with a command are at most as old as the command
\* posted before it, and the colour of a touch is its own or a later one
\* (MainActivity.java:78-80, 156-158).
Posted == {n \in Events : kinds[n] \in Posts}
Before(n) == {0} \cup {m \in Posted : m < n}
FieldsFresh ==
  \A k \in Sent : \A b \in 2 .. 7 :
    LET n == wire[k][1]
    IN n # 0 => IF b >= 6 /\ kinds[n] \in Touches
                THEN wire[k][b] >= n
                ELSE \A m \in Before(n) : wire[k][b] >= m

\* What the mailbox, its handlers and its readers hold, at every moment.
MailboxHolds == TypeOK /\ FieldsFresh

\* The instruction sent last is the one posted last, once both threads are at
\* rest (MainActivity.java:318, "sends any pending instructions").
Rest == todo = << >> /\ instr.cmd = 0 /\ \A t \in Timers : pc[t] = "idle"
LastPostedIsSent ==
  Rest /\ up => \A n \in Posted : \E k \in Sent : wire[k][1] >= n
===========================================================================
