---------------------------- MODULE PhoneProofs ----------------------------
(***************************************************************************)
(* The mailbox, for every number of events and whatever the link does.     *)
(* With one timer thread it sends no NONE, and the commands it sends leave *)
(* in the order of their events, each at most once.  With any number of    *)
(* threads what is sent with a command is as fresh as the command.         *)
(***************************************************************************)
EXTENDS Phone, SequenceTheorems, TLAPS

---------------------------------------------------------------------------
(* The inductive invariant *)

\* What the current event has still to write.
Todos == {<< >>, <<"color">>, <<"pixel">>, <<"color", "pixel">>,
          <<"color", "cmd", "pixel">>, <<"cmd", "pixel">>,
          <<"cmd", "color", "pixel">>}
WithCmd == {<<"color", "cmd", "pixel">>, <<"cmd", "pixel">>,
            <<"cmd", "color", "pixel">>}
CmdDue == todo \in WithCmd

Nums == 0 .. Len(kinds)

\* Types, as far as the order of commands depends on them.
Typed ==
  /\ kinds \in Seq(Posts \cup {"create"})
  /\ todo \in Todos
  /\ instr \in [Fields -> Nums]
  /\ pc \in [{1} -> {"idle", "read", "write", "clear"}]
  /\ seq \in [{1} -> Seq(Nums)]
  /\ wire \in Seq(Seq(Nums))

\* The last command sent.
LastSent == IF wire = << >> THEN 0 ELSE wire[Len(wire)][1]

\* An event that has not posted its command yet is newer than any other number.
Due ==
  CmdDue => instr.cmd < Len(kinds) /\ LastSent < Len(kinds)

\* The command in the mailbox is newer than what was sent, once it is taken.
Taken ==
  /\ pc[1] = "idle" /\ instr.cmd # 0 => instr.cmd > LastSent
  /\ pc[1] = "read" =>
       /\ instr.cmd > LastSent
       /\ Len(seq[1]) < 7
       /\ seq[1] # << >> => seq[1][1] > LastSent /\ seq[1][1] <= instr.cmd
  /\ pc[1] = "write" =>
       Len(seq[1]) = 7 /\ seq[1][1] > LastSent /\ seq[1][1] <= instr.cmd
  /\ pc[1] = "clear" => instr.cmd >= LastSent

Numbered ==
  /\ \A k \in Sent : Len(wire[k]) = 7
  /\ \A k \in Sent : wire[k][1] > 0 /\ wire[k][1] <= LastSent
  /\ SentOnceInOrder

IInv == Typed /\ Due /\ Taken /\ Numbered

---------------------------------------------------------------------------

LEMMA OrderIsTodo ==
  ASSUME NEW kind \in Posts \cup {"create"}
  PROVE  Order(kind) \in Todos
BY DEF Order, Todos, Posts, Touches, Lines

\* What is left after a field has been written.
LEMMA AfterField ==
  ASSUME NEW s \in Todos, s # << >>
  PROVE  /\ Head(s) \in Fields /\ Tail(s) \in Todos
         /\ Head(s) = "cmd" => s \in WithCmd /\ Tail(s) \notin WithCmd
         /\ Tail(s) \in WithCmd => s \in WithCmd
<1>1. ASSUME s = <<"color">> \/ s = <<"pixel">> PROVE Tail(s) = << >>
  <2>1. /\ <<"color">> \in Seq(Fields) /\ Len(<<"color">>) = 1
        /\ <<"pixel">> \in Seq(Fields) /\ Len(<<"pixel">>) = 1
    BY DEF Fields
  <2>2. Tail(s) \in Seq(Fields) /\ Len(Tail(s)) = 0
    <3>1. s \in Seq(Fields) /\ Len(s) = 1  BY <1>1, <2>1, Zenon
    <3>2. Tail(s) \in Seq(Fields) /\ Len(Tail(s)) = Len(s) - 1
      BY <3>1, HeadTailProperties
    <3> QED  BY <3>1, <3>2
  <2> QED  BY <2>2, EmptySeq
<1>2. CASE s = <<"color">>
  BY <1>1, <1>2 DEF Todos, WithCmd, Fields
<1>3. CASE s = <<"pixel">>
  BY <1>1, <1>3 DEF Todos, WithCmd, Fields
<1>4. CASE s = <<"color", "pixel">>
  <2>1. Tail(s) = <<"pixel">>  BY <1>4
  <2> QED  BY <1>4, <2>1 DEF Todos, WithCmd, Fields
<1>5. CASE s = <<"color", "cmd", "pixel">>
  <2>1. Tail(s) = <<"cmd", "pixel">>  BY <1>5
  <2> QED  BY <1>5, <2>1 DEF Todos, WithCmd, Fields
<1>6. CASE s = <<"cmd", "pixel">>
  <2>1. Tail(s) = <<"pixel">>  BY <1>6
  <2> QED  BY <1>6, <2>1 DEF Todos, WithCmd, Fields
<1>7. CASE s = <<"cmd", "color", "pixel">>
  <2>1. Tail(s) = <<"color", "pixel">>  BY <1>7
  <2> QED  BY <1>7, <2>1 DEF Todos, WithCmd, Fields
<1> QED  BY <1>2, <1>3, <1>4, <1>5, <1>6, <1>7 DEF Todos

LEMMA ReadField ==
  ASSUME NEW n \in 1 .. 7
  PROVE  ReadOrder[n] \in Fields
<1>1. n \in {1, 2, 3, 4, 5, 6, 7}  OBVIOUS
<1> QED  BY <1>1 DEF ReadOrder, Fields

LEMMA InitInv == MaxTimers = 1 /\ Init => IInv
<1> SUFFICES ASSUME MaxTimers = 1, Init PROVE IInv  OBVIOUS
<1>1. Typed
  BY SMT DEF Init, Typed, Todos, Nums, Fields, Posts, Touches, Lines, Timers
<1>2. wire = << >> /\ pc[1] = "idle" /\ instr.cmd = 0 /\ todo = << >>
  BY DEF Init, Timers, Fields
<1>3. Due /\ Taken /\ Numbered
  <2>1. ~CmdDue  BY <1>2 DEF CmdDue, WithCmd
  <2>2. Sent = {}  BY <1>2 DEF Sent
  <2> QED  BY <1>2, <2>1, <2>2 DEF Due, Taken, Numbered, SentOnceInOrder
<1> QED  BY <1>1, <1>3 DEF IInv

\* An event begins: a number newer than all others.
LEMMA BeginInv ==
  ASSUME IInv, NEW kind \in Posts \cup {"create"}, Begin(kind),
         UNCHANGED <<instr, pc, seq, wire>>
  PROVE  IInv'
<1>1. Len(kinds') = Len(kinds) + 1 /\ kinds' \in Seq(Posts \cup {"create"})
  BY DEF Begin, IInv, Typed
<1>2. Nums \subseteq Nums'  BY <1>1 DEF Nums, IInv, Typed
<1>3. Typed'
  <2>1. todo' \in Todos  BY OrderIsTodo DEF Begin
  <2>2. instr' \in [Fields -> Nums']  BY <1>2 DEF IInv, Typed
  <2>3. seq' \in [{1} -> Seq(Nums')]  BY <1>2 DEF IInv, Typed
  <2>4. wire' \in Seq(Seq(Nums'))  BY <1>2 DEF IInv, Typed
  <2> QED  BY <1>1, <2>1, <2>2, <2>3, <2>4 DEF IInv, Typed
<1>4. LastSent' = LastSent  BY DEF LastSent
<1>5. instr.cmd \in Nums  BY DEF IInv, Typed, Fields
<1>6. LastSent \in Nums
  <2>1. CASE wire = << >>  BY <2>1 DEF LastSent, Nums, IInv, Typed
  <2>2. CASE wire # << >>
    <3>1. Len(wire) \in Sent /\ wire[Len(wire)] \in Seq(Nums)
      BY <2>2 DEF Sent, IInv, Typed
    <3>2. Len(wire[Len(wire)]) = 7  BY <3>1 DEF IInv, Numbered
    <3> QED  BY <2>2, <3>1, <3>2 DEF LastSent
  <2> QED  BY <2>1, <2>2
<1>7. Due'  BY <1>1, <1>4, <1>5, <1>6 DEF Due, Nums, IInv, Typed
<1>8. Taken'  BY <1>4 DEF Taken, IInv
<1>9. Numbered'  BY <1>4 DEF Numbered, Sent, SentOnceInOrder, IInv
<1> QED  BY <1>3, <1>7, <1>8, <1>9 DEF IInv

\* The numbers sent so far.
LEMMA LastSentNum == IInv => LastSent \in Nums
<1> SUFFICES ASSUME IInv PROVE LastSent \in Nums  OBVIOUS
<1>1. CASE wire = << >>  BY <1>1 DEF LastSent, Nums, IInv, Typed
<1>2. CASE wire # << >>
  <2>1. Len(wire) \in Sent /\ wire[Len(wire)] \in Seq(Nums)
    BY <1>2 DEF Sent, IInv, Typed
  <2>2. Len(wire[Len(wire)]) = 7  BY <2>1 DEF IInv, Numbered
  <2> QED  BY <1>2, <2>1, <2>2 DEF LastSent
<1> QED  BY <1>1, <1>2

\* A setter: if it is setCmd, the mailbox now holds the newest number.
LEMMA WriteFieldInv == IInv /\ WriteField => IInv'
<1> SUFFICES ASSUME IInv, WriteField PROVE IInv'  OBVIOUS
<1> DEFINE f == Head(todo)
<1>1. /\ f \in Fields /\ todo' \in Todos
      /\ f = "cmd" => CmdDue /\ ~CmdDue'
      /\ CmdDue' => CmdDue
  BY AfterField DEF WriteField, IInv, Typed, CmdDue
<1>2. /\ instr' = [instr EXCEPT ![f] = Len(kinds)]
      /\ UNCHANGED <<kinds, pc, seq, wire>>
  BY DEF WriteField, timer
<1>3. instr \in [Fields -> Nums] /\ Len(kinds) \in Nat /\ LastSent \in Nums
  BY LastSentNum DEF IInv, Typed
<1>4. LastSent' = LastSent /\ Nums' = Nums  BY <1>2 DEF LastSent, Nums
<1>5. Typed'  BY <1>1, <1>2, <1>3, <1>4 DEF IInv, Typed, Nums
<1>6. Numbered'  BY <1>2, <1>4 DEF IInv, Numbered, Sent, SentOnceInOrder
<1>7. CASE f = "cmd"
  <2>1. CmdDue  BY <1>1, <1>7
  <2>2. instr'.cmd = Len(kinds)  BY <1>2, <1>3, <1>7 DEF Fields
  <2>3. LastSent < Len(kinds)  BY <2>1 DEF IInv, Due
  <2>4. instr.cmd \in Nums  BY <1>3 DEF Fields
  <2>5. seq[1] # << >> /\ pc[1] \in {"read", "write"} => seq[1][1] \in Nums
    BY DEF IInv, Typed
  <2>6. Due'  BY <1>1, <1>7 DEF Due
  <2>7. Taken'
    BY <1>2, <1>3, <1>4, <2>1, <2>2, <2>3, <2>4, <2>5 DEF Taken, IInv, Due, Nums
  <2> QED  BY <1>5, <1>6, <2>6, <2>7 DEF IInv
<1>8. CASE f # "cmd"
  <2>1. instr'.cmd = instr.cmd  BY <1>1, <1>2, <1>3, <1>8 DEF Fields
  <2>2. Due'  BY <1>1, <1>2, <1>4, <2>1 DEF Due, IInv
  <2>3. Taken'  BY <1>2, <1>4, <2>1 DEF Taken, IInv
  <2> QED  BY <1>5, <1>6, <2>2, <2>3 DEF IInv
<1> QED  BY <1>7, <1>8

\* The UI thread and the link.
LEMMA UIInv == IInv /\ (UI \/ Link) => IInv'
<1>1. IInv /\ Create => IInv'  BY BeginInv DEF Create, timer
<1>2. IInv /\ FillScreen => IInv'  BY BeginInv DEF FillScreen, timer, Posts
<1>3. ASSUME IInv, NEW k \in Gestures, Touch(k) PROVE IInv'
  <2>1. k \in Posts  BY PhoneAssumption DEF Posts
  <2> QED  BY <1>3, <2>1, BeginInv DEF Touch, timer
<1>4. IInv /\ Link => IInv'
  <2> SUFFICES ASSUME IInv, Link PROVE IInv'  OBVIOUS
  <2>1. UNCHANGED <<kinds, todo, instr, pc, seq, wire>>
    BY DEF Link, ui, timer
  <2> QED  BY <2>1 DEF IInv, Typed, Due, CmdDue, Taken, Numbered, LastSent,
                       Nums, Sent, SentOnceInOrder
<1> QED  BY <1>1, <1>2, <1>3, <1>4, WriteFieldInv DEF UI

\* The thread reads the mailbox: it sees a command newer than the last.
LEMMA ReadInv == IInv /\ (Check(1) \/ ReadByte(1)) => IInv'
<1> SUFFICES ASSUME IInv, Check(1) \/ ReadByte(1) PROVE IInv'  OBVIOUS
<1>1. UNCHANGED <<kinds, todo, instr, wire>>  BY DEF Check, ReadByte, ui
<1>2. LastSent' = LastSent /\ Nums' = Nums  BY <1>1 DEF LastSent, Nums
<1>3. Due' /\ Numbered'
  BY <1>1, <1>2 DEF IInv, Due, CmdDue, Numbered, Sent, SentOnceInOrder
<1>4. instr \in [Fields -> Nums] /\ instr.cmd \in Nums /\ LastSent \in Nums
  BY LastSentNum DEF IInv, Typed, Fields
<1>5. /\ pc \in [{1} -> {"idle", "read", "write", "clear"}]
      /\ seq \in [{1} -> Seq(Nums)]
  BY DEF IInv, Typed
<1>6. CASE Check(1)
  <2>1. pc' = [pc EXCEPT ![1] = "read"] /\ seq' = [seq EXCEPT ![1] = << >>]
    BY <1>6 DEF Check
  <2>2. Typed'  BY <1>1, <1>2, <1>5, <2>1 DEF IInv, Typed
  <2>3. pc[1] = "idle" /\ instr.cmd # 0  BY <1>6 DEF Check, Pending
  <2>4. pc'[1] = "read" /\ seq'[1] = << >>  BY <1>5, <2>1
  <2>5. Taken'  BY <1>1, <1>2, <2>3, <2>4 DEF Taken, IInv
  <2> QED  BY <1>3, <2>2, <2>5 DEF IInv
<1>7. CASE ReadByte(1)
  <2> DEFINE n == Len(seq[1]) + 1
             s == Append(seq[1], instr[ReadOrder[n]])
  <2>1. /\ pc[1] = "read"
        /\ seq' = [seq EXCEPT ![1] = s]
        /\ pc' = [pc EXCEPT ![1] = IF Full(s) THEN "write" ELSE "read"]
    BY <1>7 DEF ReadByte
  <2>2. n \in 1 .. 7  BY <1>5, <2>1 DEF IInv, Taken
  <2>3. instr[ReadOrder[n]] \in Nums  BY <1>4, <2>2, ReadField
  <2>4. s \in Seq(Nums) /\ Len(s) = n /\ s # << >>  BY <1>5, <2>3
  <2>5. seq'[1] = s /\ pc'[1] = (IF n = 7 THEN "write" ELSE "read")
    BY <1>5, <2>1, <2>4 DEF Full
  <2>6. Typed'  BY <1>1, <1>2, <1>5, <2>1, <2>4 DEF IInv, Typed
  <2>7. s[1] > LastSent /\ s[1] <= instr.cmd
    <3>1. CASE seq[1] = << >>
      <4>1. n = 1 /\ ReadOrder[1] = "cmd"  BY <3>1 DEF ReadOrder
      <4>2. s[1] = instr.cmd  BY <1>4, <3>1, <4>1
      <4> QED  BY <1>4, <2>1, <4>2 DEF IInv, Taken, Nums
    <3>2. CASE seq[1] # << >>
      <4>1. s[1] = seq[1][1]  BY <1>5, <2>3, <3>2
      <4> QED  BY <2>1, <3>2, <4>1 DEF IInv, Taken
    <3> QED  BY <3>1, <3>2
  <2>8. Taken'
    BY <1>1, <1>2, <2>1, <2>2, <2>4, <2>5, <2>7 DEF Taken, IInv
  <2> QED  BY <1>3, <2>6, <2>8 DEF IInv
<1> QED  BY <1>6, <1>7

\* The thread writes what it has read and empties the mailbox.
LEMMA SendInv == IInv /\ (Write(1) \/ WriteFails(1) \/ Clear(1)) => IInv'
<1> SUFFICES ASSUME IInv, Write(1) \/ WriteFails(1) \/ Clear(1) PROVE IInv'
  OBVIOUS
<1>1. UNCHANGED <<kinds, todo, seq>> /\ Nums' = Nums
  BY DEF Write, WriteFails, Clear, ui, Nums
<1>2. /\ pc \in [{1} -> {"idle", "read", "write", "clear"}]
      /\ seq \in [{1} -> Seq(Nums)] /\ wire \in Seq(Seq(Nums))
      /\ instr \in [Fields -> Nums] /\ instr.cmd \in Nums /\ LastSent \in Nums
  BY LastSentNum DEF IInv, Typed, Fields
<1>3. CASE Write(1)
  <2>1. /\ pc[1] = "write" /\ pc' = [pc EXCEPT ![1] = "clear"]
        /\ wire' = Append(wire, seq[1]) /\ instr' = instr
    BY <1>3 DEF Write
  <2>2. /\ Len(seq[1]) = 7 /\ seq[1] \in Seq(Nums)
        /\ seq[1][1] > LastSent /\ seq[1][1] <= instr.cmd
    BY <1>2, <2>1 DEF IInv, Taken
  <2>3. seq[1][1] \in Nums  BY <2>2
  <2>4. /\ wire' \in Seq(Seq(Nums)) /\ Len(wire') = Len(wire) + 1
        /\ \A k \in Sent : wire'[k] = wire[k]
        /\ wire'[Len(wire) + 1] = seq[1]
    BY <1>2, <2>1, <2>2 DEF Sent
  <2>5. wire' # << >> /\ LastSent' = seq[1][1]
    BY <1>2, <2>4 DEF LastSent
  <2>6. Typed'  BY <1>1, <1>2, <2>1, <2>4 DEF IInv, Typed
  <2>7. Due'
    BY <1>1, <1>2, <2>1, <2>2, <2>3, <2>5 DEF IInv, Due, CmdDue, Nums
  <2>8. pc'[1] = "clear"  BY <1>2, <2>1
  <2>9. Taken'  BY <2>1, <2>2, <2>5, <2>8 DEF Taken
  <2>10. \A k \in Sent' : k \in Sent \/ k = Len(wire) + 1
    BY <1>2, <2>4 DEF Sent
  <2>11. \A k \in Sent : wire[k][1] > 0 /\ wire[k][1] <= LastSent /\ Len(wire[k]) = 7
    BY DEF IInv, Numbered
  <2>12. \A k \in Sent : wire[k] \in Seq(Nums) /\ wire[k][1] \in Nums
    BY <1>2, <2>11 DEF Sent
  <2>13. Numbered'
    <3>1. \A k \in Sent' : /\ Len(wire'[k]) = 7
                           /\ wire'[k][1] > 0 /\ wire'[k][1] <= LastSent'
      <4> SUFFICES ASSUME NEW k \in Sent'
                   PROVE  /\ Len(wire'[k]) = 7
                          /\ wire'[k][1] > 0 /\ wire'[k][1] <= LastSent'
        OBVIOUS
      <4>1. CASE k \in Sent
        <5>1. wire'[k] = wire[k] /\ wire[k][1] \in Nums  BY <2>4, <2>12, <4>1
        <5>2. wire[k][1] <= LastSent /\ wire[k][1] > 0 /\ Len(wire[k]) = 7
          BY <2>11, <4>1
        <5>3. wire[k][1] <= seq[1][1]
          BY <1>2, <2>2, <2>3, <5>1, <5>2 DEF Nums
        <5> QED  BY <2>5, <5>1, <5>2, <5>3
      <4>2. CASE k = Len(wire) + 1
        <5>1. wire'[k] = seq[1]  BY <2>4, <4>2
        <5>2. seq[1][1] > 0 /\ seq[1][1] <= seq[1][1]
          BY <1>2, <2>2, <2>3 DEF Nums
        <5> QED  BY <2>2, <2>5, <5>1, <5>2
      <4> QED  BY <2>10, <4>1, <4>2
    <3>2. SentOnceInOrder'
      <4> SUFFICES ASSUME NEW j \in Sent', NEW k \in Sent', j < k
                   PROVE  wire'[j][1] < wire'[k][1]
        BY DEF SentOnceInOrder
      <4>1. j \in Sent  BY <1>2, <2>4, <2>10 DEF Sent
      <4>2. CASE k \in Sent
        BY <2>4, <4>1, <4>2 DEF IInv, Numbered, SentOnceInOrder
      <4>3. CASE k = Len(wire) + 1
        <5>1. wire'[j] = wire[j] /\ wire'[k] = seq[1]  BY <2>4, <4>1, <4>3
        <5>2. wire[j][1] <= LastSent /\ wire[j][1] \in Nums
          BY <2>11, <2>12, <4>1
        <5>3. wire[j][1] < seq[1][1]  BY <1>2, <2>2, <2>3, <5>2 DEF Nums
        <5> QED  BY <5>1, <5>3
      <4> QED  BY <2>10, <4>2, <4>3
    <3> QED  BY <3>1, <3>2 DEF Numbered
  <2> QED  BY <2>6, <2>7, <2>9, <2>13 DEF IInv
<1>4. CASE WriteFails(1) \/ Clear(1)
  <2>1. wire' = wire /\ LastSent' = LastSent
    BY <1>4 DEF WriteFails, Clear, LastSent
  <2>2. Numbered'  BY <2>1 DEF IInv, Numbered, Sent, SentOnceInOrder
  <2>3. CASE WriteFails(1)
    <3>1. pc[1] = "write" /\ pc' = [pc EXCEPT ![1] = "idle"] /\ instr' = instr
      BY <2>3 DEF WriteFails, AfterFailure
    <3>2. pc'[1] = "idle"  BY <1>2, <3>1
    <3>3. Typed'  BY <1>1, <1>2, <2>1, <3>1 DEF IInv, Typed
    <3>4. Due'  BY <1>1, <2>1, <3>1 DEF IInv, Due, CmdDue
    <3>5. seq[1][1] \in Nums  BY <1>2, <3>1 DEF IInv, Taken
    <3>6. Taken'
      BY <1>2, <2>1, <3>1, <3>2, <3>5 DEF IInv, Taken, Nums
    <3> QED  BY <2>2, <3>3, <3>4, <3>6 DEF IInv
  <2>4. CASE Clear(1)
    <3>1. pc' = [pc EXCEPT ![1] = "idle"] /\ instr' = [instr EXCEPT !.cmd = 0]
      BY <2>4 DEF Clear, Emptied
    <3>2. pc'[1] = "idle" /\ instr'.cmd = 0  BY <1>2, <3>1 DEF Fields
    <3>3. 0 \in Nums /\ Len(kinds) \in Nat  BY DEF Nums, IInv, Typed
    <3>4. Typed'  BY <1>1, <1>2, <2>1, <3>1, <3>3 DEF IInv, Typed, Fields
    <3>5. Due'
      BY <1>1, <1>2, <2>1, <3>2, <3>3 DEF IInv, Due, CmdDue, Nums
    <3>6. Taken'  BY <3>2 DEF Taken
    <3> QED  BY <2>2, <3>4, <3>5, <3>6 DEF IInv
  <2> QED  BY <1>4, <2>3, <2>4
<1> QED  BY <1>3, <1>4

LEMMA NextInv == MaxTimers = 1 /\ IInv /\ [Next]_vars => IInv'
<1> SUFFICES ASSUME MaxTimers = 1, IInv, [Next]_vars PROVE IInv'  OBVIOUS
<1>1. CASE UI \/ Link  BY <1>1, UIInv
<1>2. CASE \E t \in Timers : Run(t)
  BY <1>2, ReadInv, SendInv DEF Timers, Run
<1>3. CASE UNCHANGED vars
  BY <1>3 DEF vars, IInv, Typed, Due, CmdDue, Taken, Numbered, LastSent,
              Nums, Sent, SentOnceInOrder
<1> QED  BY <1>1, <1>2, <1>3 DEF Next

---------------------------------------------------------------------------

\* One timer thread sends each command at most once and in the order the UI
\* thread posted them, although it neither locks the mailbox nor knows that
\* a write has failed before it tries (MainActivity.java:344-353).
THEOREM OneThreadInOrder == MaxTimers = 1 /\ Spec => []SentOnceInOrder
<1> SUFFICES ASSUME MaxTimers = 1 PROVE Spec => []SentOnceInOrder  OBVIOUS
<1>1. Init => IInv  BY InitInv
<1>2. IInv /\ [Next]_vars => IInv'  BY NextInv
<1>3. IInv => SentOnceInOrder  BY DEF IInv, Numbered
<1> QED  BY <1>1, <1>2, <1>3, PTL DEF Spec

\* One timer thread never transmits NONE: nobody else empties the mailbox
\* between its test and its transmission (MainActivity.java:344-349).
THEOREM OneThreadNoNone == MaxTimers = 1 /\ Spec => []NeverSendsNone
<1> SUFFICES ASSUME MaxTimers = 1 PROVE Spec => []NeverSendsNone  OBVIOUS
<1>1. Init => IInv  BY InitInv
<1>2. IInv /\ [Next]_vars => IInv'  BY NextInv
<1>3. IInv => NeverSendsNone
  <2> SUFFICES ASSUME IInv PROVE NeverSendsNone  OBVIOUS
  <2>1. \A k \in Sent : wire[k][1] > 0  BY DEF IInv, Numbered
  <2> QED  BY <2>1 DEF NeverSendsNone
<1> QED  BY <1>1, <1>2, <1>3, PTL DEF Spec

---------------------------------------------------------------------------
(* Any number of timer threads: what is sent with a command is fresh *)

WithColor == {<<"color">>, <<"color", "pixel">>, <<"color", "cmd", "pixel">>,
              <<"cmd", "color", "pixel">>}
WithPixel == {<<"pixel">>, <<"color", "pixel">>, <<"color", "cmd", "pixel">>,
              <<"cmd", "pixel">>, <<"cmd", "color", "pixel">>}
ColorDue == todo \in WithColor
PixelDue == todo \in WithPixel

MailTyped ==
  /\ kinds \in Seq(Posts \cup {"create"}) /\ Len(kinds) <= MaxEvents
  /\ down \in BOOLEAN /\ todo \in Todos
  /\ instr \in [Fields -> Nums]
  /\ timers \in 0 .. MaxTimers
  /\ pc \in [Timers -> {"idle", "read", "write", "clear"}]
  /\ seq \in [Timers -> Seq(Nums)]
  /\ \A t \in Timers : /\ Len(seq[t]) <= 7
                       /\ pc[t] = "read" => Len(seq[t]) < 7
                       /\ pc[t] = "write" => Len(seq[t]) = 7
  /\ up \in BOOLEAN
  /\ wire \in Seq(Seq(Nums)) /\ \A k \in Sent : Len(wire[k]) = 7

\* Every event that has written a field has left nothing older in it.
Written ==
  /\ \A m \in Posted : m < Len(kinds) \/ ~PixelDue => instr.pixel >= m
  /\ \A m \in Posted : m < Len(kinds) \/ ~ColorDue => instr.color >= m

\* A touch whose colour is not written has not posted its command either.
ColorFirst ==
  ColorDue /\ kinds[Len(kinds)] \in Touches =>
    /\ todo = <<"color", "cmd", "pixel">>
    /\ instr.cmd < Len(kinds)
    /\ \A t \in Timers : seq[t] # << >> => seq[t][1] < Len(kinds)

\* v may be sent as byte b of the command of event n.
ByteFresh(n, b, v) ==
  n # 0 => IF b >= 6 /\ kinds[n] \in Touches THEN v >= n ELSE \A m \in Before(n) : v >= m

Reading ==
  \A t \in Timers : \A b \in 2 .. Len(seq[t]) : ByteFresh(seq[t][1], b, seq[t][b])

MailInv == MailTyped /\ Written /\ ColorFirst /\ Reading /\ FieldsFresh

LEMMA InitMail == Init => MailInv
<1> SUFFICES ASSUME Init PROVE MailInv  OBVIOUS
<1>1. kinds = << >> /\ Len(kinds) = 0 /\ wire = << >> /\ todo = << >> /\ Sent = {}
  BY EmptySeq DEF Init, Sent
<1>2. \A t \in Timers : pc[t] = "idle" /\ seq[t] = << >> /\ Len(seq[t]) = 0
  BY EmptySeq DEF Init
<1>3. MailTyped
  <2>1. kinds \in Seq(Posts \cup {"create"}) /\ Len(kinds) <= MaxEvents
    BY <1>1, PhoneAssumption
  <2>2. /\ todo \in Todos /\ instr \in [Fields -> Nums] /\ timers \in 0 .. MaxTimers
    BY <1>1, PhoneAssumption DEF Init, Todos, Nums
  <2>3. seq \in [Timers -> Seq(Nums)] /\ wire \in Seq(Seq(Nums))
    BY <1>1 DEF Init
  <2>4. \A t \in Timers : /\ Len(seq[t]) <= 7
                          /\ pc[t] = "read" => Len(seq[t]) < 7
                          /\ pc[t] = "write" => Len(seq[t]) = 7
    BY <1>2
  <2>5. down \in BOOLEAN /\ up \in BOOLEAN
        /\ pc \in [Timers -> {"idle", "read", "write", "clear"}]
    BY DEF Init
  <2>6. \A k \in Sent : Len(wire[k]) = 7  BY <1>1
  <2> QED BY <2>1, <2>2, <2>3, <2>4, <2>5, <2>6 DEF MailTyped
<1>4. Posted = {}
  BY <1>1 DEF Posted, Events
<1>5. ~ColorDue  BY <1>1 DEF ColorDue, WithColor
<1>6. Reading  BY <1>2 DEF Reading
<1> QED BY <1>1, <1>3, <1>4, <1>5, <1>6 DEF MailInv, Written, ColorFirst, FieldsFresh

\* A new event leaves what earlier ones demand as it is.
LEMMA FreshStays ==
  ASSUME NEW kind, kinds \in Seq(Posts \cup {"create"}), kinds' = Append(kinds, kind),
         kind \in Posts \cup {"create"},
         NEW n \in Nums, NEW b, NEW v, ByteFresh(n, b, v)
  PROVE  ByteFresh(n, b, v)'
<1>1. /\ Len(kinds) \in Nat /\ Len(kinds') = Len(kinds) + 1
      /\ \A m \in 1 .. Len(kinds) : kinds'[m] = kinds[m]
  BY AppendProperties
<1> SUFFICES ASSUME n # 0
             PROVE  IF b >= 6 /\ kinds'[n] \in Touches THEN v >= n
                    ELSE \A m \in Before(n)' : v >= m
  BY DEF ByteFresh
<1>2. n \in 1 .. Len(kinds)  BY <1>1 DEF Nums
<1>3. kinds'[n] = kinds[n]  BY <1>1, <1>2
<1>4. Before(n)' \subseteq Before(n)
  <2> SUFFICES ASSUME NEW m \in Before(n)', m # 0 PROVE m \in Before(n)  BY DEF Before
  <2>1. m \in 1 .. Len(kinds') /\ kinds'[m] \in Posts /\ m < n
    BY DEF Before, Posted, Events
  <2>2. m \in 1 .. Len(kinds)  BY <2>1, <1>1, <1>2
  <2> QED BY <2>1, <2>2, <1>1 DEF Before, Posted, Events
<1> QED BY <1>3, <1>4 DEF ByteFresh

LEMMA BeginMail ==
  ASSUME MailInv, NEW kind \in Posts \cup {"create"}, Begin(kind),
         UNCHANGED <<instr, timer, up, wire>>,
         timers' \in 0 .. MaxTimers, down' \in BOOLEAN
  PROVE  MailInv'
<1> USE DEF MailInv
<1>1. /\ kinds' = Append(kinds, kind) /\ todo = << >> /\ todo' = Order(kind)
      /\ Len(kinds) < MaxEvents
      /\ UNCHANGED <<instr, pc, seq, up, wire>>
  BY DEF Begin, timer
<1>2. /\ kinds \in Seq(Posts \cup {"create"}) /\ Len(kinds) \in Nat
      /\ kinds' \in Seq(Posts \cup {"create"}) /\ Len(kinds') = Len(kinds) + 1
      /\ \A m \in 1 .. Len(kinds) : kinds'[m] = kinds[m]
      /\ kinds'[Len(kinds) + 1] = kind
  BY <1>1, AppendProperties DEF MailTyped
<1>3. Nums \subseteq Nums' /\ \A x \in Nums : x < Len(kinds')
  BY <1>2 DEF Nums
<1>4. MailTyped'
  <2>1. todo' \in Todos  BY <1>1, OrderIsTodo
  <2>2. instr' \in [Fields -> Nums'] /\ seq' \in [Timers -> Seq(Nums')]
        /\ wire' \in Seq(Seq(Nums'))
    BY <1>1, <1>3 DEF MailTyped
  <2>3. Len(kinds') <= MaxEvents  BY <1>1, <1>2, PhoneAssumption
  <2> QED BY <1>1, <1>2, <2>1, <2>2, <2>3 DEF MailTyped, Sent
<1>5. Written'
  <2> SUFFICES ASSUME NEW m \in Posted'
               PROVE  /\ m < Len(kinds') \/ ~PixelDue' => instr.pixel >= m
                      /\ m < Len(kinds') \/ ~ColorDue' => instr.color >= m
    BY <1>1 DEF Written
  <2>1. m \in 1 .. Len(kinds) + 1 /\ kinds'[m] \in Posts
    BY <1>2 DEF Posted, Events
  <2>2. CASE m \in 1 .. Len(kinds)
    <3>1. m \in Posted  BY <2>1, <2>2, <1>2 DEF Posted, Events
    <3>2. ~PixelDue /\ ~ColorDue
      BY <1>1 DEF PixelDue, ColorDue, WithPixel, WithColor
    <3> QED BY <3>1, <3>2 DEF Written
  <2>3. CASE m = Len(kinds) + 1
    <3>1. kind \in Posts  BY <2>1, <2>3, <1>2
    <3>2. PixelDue' /\ ColorDue'
      BY <3>1, <1>1 DEF PixelDue, ColorDue, WithPixel, WithColor, Order, Posts, Touches, Lines
    <3> QED BY <3>2, <2>3, <1>2
  <2> QED BY <2>1, <2>2, <2>3, <1>2
<1>6. ColorFirst'
  <2> SUFFICES ASSUME kind \in Touches
               PROVE  /\ todo' = <<"color", "cmd", "pixel">>
                      /\ instr'.cmd < Len(kinds')
                      /\ \A t \in Timers : seq'[t] # << >> => seq'[t][1] < Len(kinds')
    BY <1>2 DEF ColorFirst
  <2>1. todo' = <<"color", "cmd", "pixel">>
    BY <1>1 DEF Order, Touches, Lines
  <2>2. instr'.cmd < Len(kinds')  BY <1>1, <1>3 DEF MailTyped, Fields
  <2>3. \A t \in Timers : seq'[t] # << >> => seq'[t][1] < Len(kinds')
    <3> SUFFICES ASSUME NEW t \in Timers, seq[t] # << >> PROVE seq[t][1] < Len(kinds')
      BY <1>1
    <3>1. seq[t] \in Seq(Nums)  BY DEF MailTyped
    <3>2. 1 \in 1 .. Len(seq[t])  BY <3>1, EmptySeq
    <3>3. seq[t][1] \in Nums  BY <3>1, <3>2, ElementOfSeq
    <3> QED BY <3>3, <1>3
  <2> QED BY <2>1, <2>2, <2>3
<1>7. Reading'
  <2> SUFFICES ASSUME NEW t \in Timers, NEW b \in 2 .. Len(seq[t])
               PROVE  ByteFresh(seq[t][1], b, seq[t][b])'
    BY <1>1 DEF Reading
  <2>1. seq[t] \in Seq(Nums)  BY DEF MailTyped
  <2>2. 1 \in 1 .. Len(seq[t])  BY <2>1, LenProperties
  <2>3. seq[t][1] \in Nums  BY <2>1, <2>2, ElementOfSeq
  <2>4. ByteFresh(seq[t][1], b, seq[t][b])  BY DEF Reading
  <2> DEFINE x == seq[t][1]
             y == seq[t][b]
  <2>5. x' = x /\ y' = y  BY <1>1
  <2>6. x \in Nums /\ ByteFresh(x, b, y)  BY <2>3, <2>4
  <2> QED BY <2>5, <2>6, <1>1, <1>2, FreshStays DEF ByteFresh, Before, Posted, Events
<1>8. FieldsFresh'
  <2> SUFFICES ASSUME NEW k \in Sent, NEW b \in 2 .. 7
               PROVE  ByteFresh(wire[k][1], b, wire[k][b])'
    BY <1>1 DEF FieldsFresh, ByteFresh, Sent
  <2>1. ByteFresh(wire[k][1], b, wire[k][b])  BY DEF FieldsFresh, ByteFresh
  <2>2. wire[k] \in Seq(Nums) /\ Len(wire[k]) = 7
    BY ElementOfSeq DEF MailTyped, Sent
  <2>3. wire[k][1] \in Nums  BY <2>2, ElementOfSeq
  <2> QED BY <2>1, <2>3, <1>1, <1>2, FreshStays DEF ByteFresh, Before, Posted, Events
<1> QED BY <1>4, <1>5, <1>6, <1>7, <1>8

\* Writing one field leaves the others due or not, as they were.
LEMMA DueAfter ==
  ASSUME NEW s \in Todos, s # << >>
  PROVE  /\ Head(s) # "color" => (Tail(s) \in WithColor <=> s \in WithColor)
         /\ Head(s) # "pixel" => (Tail(s) \in WithPixel <=> s \in WithPixel)
         /\ Tail(s) \in WithColor => s \in WithColor
         /\ s = <<"color", "cmd", "pixel">> => Tail(s) \notin WithColor
<1>1. ASSUME s = <<"color">> \/ s = <<"pixel">> PROVE Tail(s) = << >>
  <2>1. s \in Seq(Fields) /\ Len(s) = 1
    <3>1. /\ <<"color">> \in Seq(Fields) /\ Len(<<"color">>) = 1
          /\ <<"pixel">> \in Seq(Fields) /\ Len(<<"pixel">>) = 1
      BY DEF Fields
    <3> QED BY <1>1, <3>1, Zenon
  <2>2. Tail(s) \in Seq(Fields) /\ Len(Tail(s)) = Len(s) - 1
    BY <2>1, HeadTailProperties
  <2>3. Len(Tail(s)) = 0  BY <2>1, <2>2
  <2> QED BY <2>2, <2>3, EmptySeq
<1>2. CASE s = <<"color">>
  BY <1>1, <1>2 DEF WithColor, WithPixel
<1>3. CASE s = <<"pixel">>
  BY <1>1, <1>3 DEF WithColor, WithPixel
<1>4. CASE s = <<"color", "pixel">>
  <2>1. Tail(s) = <<"pixel">>  BY <1>4
  <2> QED BY <1>4, <2>1 DEF WithColor, WithPixel
<1>5. CASE s = <<"color", "cmd", "pixel">>
  <2>1. Tail(s) = <<"cmd", "pixel">>  BY <1>5
  <2> QED BY <1>5, <2>1 DEF WithColor, WithPixel
<1>6. CASE s = <<"cmd", "pixel">>
  <2>1. Tail(s) = <<"pixel">>  BY <1>6
  <2> QED BY <1>6, <2>1 DEF WithColor, WithPixel
<1>7. CASE s = <<"cmd", "color", "pixel">>
  <2>1. Tail(s) = <<"color", "pixel">>  BY <1>7
  <2> QED BY <1>7, <2>1 DEF WithColor, WithPixel
<1> QED BY <1>2, <1>3, <1>4, <1>5, <1>6, <1>7 DEF Todos

LEMMA WriteFieldMail == MailInv /\ WriteField => MailInv'
<1> SUFFICES ASSUME MailInv, WriteField PROVE MailInv'  OBVIOUS
<1> USE DEF MailInv
<1> DEFINE f == Head(todo)
<1>1. /\ todo \in Todos /\ todo # << >> /\ todo' = Tail(todo)
      /\ instr' = [instr EXCEPT ![f] = Len(kinds)]
      /\ UNCHANGED <<kinds, down, timers, pc, seq, up, wire>>
  BY DEF WriteField, MailTyped, timer
<1>2. /\ f \in Fields /\ todo' \in Todos
      /\ f # "color" => (ColorDue' <=> ColorDue)
      /\ f # "pixel" => (PixelDue' <=> PixelDue)
      /\ ColorDue' => ColorDue /\ todo # <<"color", "cmd", "pixel">>
  BY <1>1, AfterField, DueAfter DEF ColorDue, PixelDue
<1>3. /\ instr \in [Fields -> Nums] /\ Len(kinds) \in Nums /\ Len(kinds) \in Nat
      /\ Nums' = Nums
  BY <1>1 DEF MailTyped, Nums
<1>4. instr' \in [Fields -> Nums]  BY <1>1, <1>2, <1>3
<1>5. MailTyped'  BY <1>1, <1>2, <1>3, <1>4 DEF MailTyped, Sent
<1>6. Written'
  <2> SUFFICES ASSUME NEW m \in Posted
               PROVE  /\ m < Len(kinds) \/ ~PixelDue' => instr'.pixel >= m
                      /\ m < Len(kinds) \/ ~ColorDue' => instr'.color >= m
    BY <1>1 DEF Written, Posted, Events
  <2>1. m <= Len(kinds)  BY DEF Posted, Events
  <2>2. CASE f = "pixel"
    <3>1. instr'.pixel = Len(kinds) /\ instr'.color = instr.color
      BY <1>1, <1>3, <2>2 DEF Fields
    <3> QED BY <3>1, <2>1, <2>2, <1>2 DEF Written
  <2>3. CASE f = "color"
    <3>1. instr'.color = Len(kinds) /\ instr'.pixel = instr.pixel
      BY <1>1, <1>3, <2>3 DEF Fields
    <3> QED BY <3>1, <2>1, <2>3, <1>2 DEF Written
  <2>4. CASE f = "cmd"
    <3>1. instr'.color = instr.color /\ instr'.pixel = instr.pixel
      BY <1>1, <1>3, <2>4 DEF Fields
    <3> QED BY <3>1, <2>4, <1>2 DEF Written
  <2> QED BY <2>2, <2>3, <2>4, <1>2 DEF Fields
<1>7. ColorFirst'  BY <1>1, <1>2 DEF ColorFirst
<1>8. Reading' /\ FieldsFresh'
  BY <1>1 DEF Reading, ByteFresh, FieldsFresh, Before, Posted, Events, Sent
<1> QED BY <1>5, <1>6, <1>7, <1>8

LEMMA UIMail == MailInv /\ (UI \/ Link) => MailInv'
<1>1. ASSUME MailInv, Create PROVE MailInv'
  <2>1. timers \in 0 .. MaxTimers /\ timers < MaxTimers /\ timers' = timers + 1
    BY <1>1 DEF Create, MailInv, MailTyped
  <2>2. timers' \in 0 .. MaxTimers  BY <2>1, PhoneAssumption
  <2>3. down' \in BOOLEAN  BY <1>1 DEF Create
  <2> QED BY <1>1, <2>2, <2>3, BeginMail DEF Create
<1>2. ASSUME MailInv, FillScreen PROVE MailInv'
  <2>1. timers' \in 0 .. MaxTimers /\ down' \in BOOLEAN
    BY <1>2 DEF FillScreen, MailInv, MailTyped
  <2> QED BY <1>2, <2>1, BeginMail DEF FillScreen, Posts
<1>3. ASSUME MailInv, NEW k \in Gestures, Touch(k) PROVE MailInv'
  <2>1. timers' \in 0 .. MaxTimers  BY <1>3 DEF Touch, MailInv, MailTyped
  <2>2. down' \in BOOLEAN  BY <1>3 DEF Touch
  <2>3. k \in Posts  BY PhoneAssumption DEF Posts
  <2> QED BY <1>3, <2>1, <2>2, <2>3, BeginMail DEF Touch
<1>4. ASSUME MailInv, Link PROVE MailInv'
  <2>1. UNCHANGED <<kinds, down, todo, instr, timers, pc, seq, wire>>
        /\ up' \in BOOLEAN
    BY <1>4 DEF Link, ui, timer
  <2> QED BY <1>4, <2>1 DEF MailInv, MailTyped, Written, ColorFirst, Reading, ByteFresh,
             FieldsFresh, Before, Posted, Events, Sent, Nums, ColorDue, PixelDue
<1> QED BY <1>1, <1>2, <1>3, <1>4, WriteFieldMail DEF UI

\* What a thread may read next, of the command it has read.
LEMMA NextByteFresh ==
  ASSUME MailInv, NEW t \in Timers, seq[t] # << >>,
         NEW n \in 2 .. 7
  PROVE  ByteFresh(seq[t][1], n, instr[ReadOrder[n]])
<1> USE DEF MailInv
<1> DEFINE c == seq[t][1]
<1>1. c \in Nums
  <2>1. seq[t] \in Seq(Nums)  BY DEF MailTyped
  <2>2. 1 \in 1 .. Len(seq[t])  BY <2>1, EmptySeq
  <2> QED BY <2>1, <2>2, ElementOfSeq
<1>2. /\ instr.pixel \in Nums /\ instr.color \in Nums /\ Len(kinds) \in Nat
  BY DEF MailTyped, Fields
<1>3. /\ n < 6 => ReadOrder[n] = "pixel"
      /\ n >= 6 => ReadOrder[n] = "color"
  <2>1. n \in {2, 3, 4, 5, 6, 7}  OBVIOUS
  <2> QED BY <2>1 DEF ReadOrder
<1> SUFFICES ASSUME c # 0
             PROVE  IF n >= 6 /\ kinds[c] \in Touches THEN instr[ReadOrder[n]] >= c
                    ELSE \A m \in Before(c) : instr[ReadOrder[n]] >= m
  BY DEF ByteFresh
<1>4. c \in 1 .. Len(kinds)  BY <1>1, <1>2 DEF Nums
<1>5. \A m \in Before(c) : instr.pixel >= m /\ instr.color >= m
  <2> SUFFICES ASSUME NEW m \in Before(c) PROVE instr.pixel >= m /\ instr.color >= m
    OBVIOUS
  <2>1. CASE m = 0  BY <2>1, <1>2 DEF Nums
  <2>2. CASE m \in Posted /\ m < c
    <3>1. m < Len(kinds)  BY <2>2, <1>2, <1>4 DEF Posted, Events
    <3> QED BY <2>2, <3>1 DEF Written
  <2> QED BY <2>1, <2>2 DEF Before
<1>6. ASSUME n >= 6, kinds[c] \in Touches PROVE instr.color >= c
  <2>1. c \in Posted  BY <1>4, <1>6 DEF Posted, Posts, Events
  <2>2. CASE c < Len(kinds) \/ ~ColorDue  BY <2>1, <2>2 DEF Written
  <2>3. CASE c = Len(kinds) /\ ColorDue
    <3>1. c < Len(kinds)  BY <2>3, <1>6 DEF ColorFirst
    <3> QED BY <3>1, <2>3, <1>4, <1>2
  <2> QED BY <2>2, <2>3, <1>4, <1>2
<1> QED BY <1>3, <1>5, <1>6

\* A thread tests the mailbox and reads its fields, each at a moment of its own.
LEMMA ReadMail ==
  ASSUME MailInv, NEW t \in Timers, Check(t) \/ ReadByte(t)
  PROVE  MailInv'
<1> USE DEF MailInv
<1>1. UNCHANGED <<kinds, down, todo, instr, timers, up, wire>>
  BY DEF Check, ReadByte, ui
<1>2. Nums' = Nums /\ Sent' = Sent  BY <1>1 DEF Nums, Sent
<1>3. Written' /\ FieldsFresh'
  BY <1>1 DEF Written, FieldsFresh, Before, Posted, Events, Sent, ColorDue, PixelDue
<1>4. /\ pc \in [Timers -> {"idle", "read", "write", "clear"}]
      /\ seq \in [Timers -> Seq(Nums)] /\ instr \in [Fields -> Nums]
  BY DEF MailTyped
<1>5. CASE Check(t)
  <2>1. pc' = [pc EXCEPT ![t] = "read"] /\ seq' = [seq EXCEPT ![t] = << >>]
    BY <1>5 DEF Check
  <2>2. << >> \in Seq(Nums) /\ Len(<< >>) = 0  BY EmptySeq
  <2>3. MailTyped'
    BY <1>1, <1>2, <1>4, <2>1, <2>2 DEF MailTyped
  <2>4. ColorFirst'  BY <1>1, <1>4, <2>1 DEF ColorFirst, ColorDue
  <2>5. Reading'
    <3> SUFFICES ASSUME NEW u \in Timers, NEW b \in 2 .. Len(seq'[u])
                 PROVE  ByteFresh(seq'[u][1], b, seq'[u][b])
      BY <1>1 DEF Reading, ByteFresh, Before, Posted, Events
    <3>1. u # t  BY <1>4, <2>1, <2>2
    <3>2. seq'[u] = seq[u]  BY <1>4, <2>1, <3>1
    <3> QED BY <3>2, <1>1 DEF Reading, ByteFresh, Before, Posted, Events
  <2> QED BY <1>3, <2>3, <2>4, <2>5
<1>6. CASE ReadByte(t)
  <2> DEFINE n == Len(seq[t]) + 1
             v == instr[ReadOrder[n]]
             s == Append(seq[t], v)
  <2>1. /\ pc[t] = "read" /\ seq' = [seq EXCEPT ![t] = s]
        /\ pc' = [pc EXCEPT ![t] = IF Full(s) THEN "write" ELSE "read"]
    BY <1>6 DEF ReadByte
  <2>2. n \in 1 .. 7
    <3>1. Len(seq[t]) < 7  BY <2>1 DEF MailTyped
    <3>2. Len(seq[t]) \in Nat  BY <1>4, LenProperties
    <3> QED BY <3>1, <3>2
  <2>3. v \in Nums
    <3>1. ReadOrder[n] \in Fields
      <4> HIDE DEF n
      <4> QED BY <2>2, ReadField
    <3> QED BY <1>4, <3>1
  <2>4. /\ seq[t] \in Seq(Nums) /\ s \in Seq(Nums) /\ Len(s) = n
        /\ \A b \in 1 .. Len(seq[t]) : s[b] = seq[t][b]
        /\ s[n] = v
    BY <1>4, <2>3, AppendProperties
  <2>5. /\ seq'[t] = s /\ \A u \in Timers : u # t => seq'[u] = seq[u] /\ pc'[u] = pc[u]
        /\ pc'[t] = (IF n = 7 THEN "write" ELSE "read")
    BY <1>4, <2>1, <2>4 DEF Full
  <2>6. MailTyped'
    <3>1. \A u \in Timers : /\ Len(seq'[u]) <= 7
                            /\ pc'[u] = "read" => Len(seq'[u]) < 7
                            /\ pc'[u] = "write" => Len(seq'[u]) = 7
      <4> SUFFICES ASSUME NEW u \in Timers
                   PROVE  /\ Len(seq'[u]) <= 7
                          /\ pc'[u] = "read" => Len(seq'[u]) < 7
                          /\ pc'[u] = "write" => Len(seq'[u]) = 7
        OBVIOUS
      <4>1. CASE u = t  BY <4>1, <2>2, <2>4, <2>5
      <4>2. CASE u # t  BY <4>2, <2>5 DEF MailTyped
      <4> QED BY <4>1, <4>2
    <3>2. seq' \in [Timers -> Seq(Nums)]  BY <1>4, <2>1, <2>4
    <3>3. pc' \in [Timers -> {"idle", "read", "write", "clear"}]  BY <1>4, <2>1
    <3> QED BY <1>1, <1>2, <3>1, <3>2, <3>3 DEF MailTyped
  <2>7. ColorFirst'
    <3> SUFFICES ASSUME ColorDue, kinds[Len(kinds)] \in Touches,
                        NEW u \in Timers, seq'[u] # << >>
                 PROVE  seq'[u][1] < Len(kinds)
      BY <1>1 DEF ColorFirst, ColorDue
    <3>1. instr.cmd < Len(kinds) /\ (seq[u] # << >> => seq[u][1] < Len(kinds))
      BY DEF ColorFirst
    <3>2. CASE u # t  BY <3>2, <3>1, <2>5
    <3>3. CASE u = t /\ seq[t] = << >>
      <4>1. n = 1 /\ ReadOrder[1] = "cmd"  BY <3>3 DEF ReadOrder
      <4> QED BY <4>1, <3>1, <3>3, <2>4, <2>5
    <3>4. CASE u = t /\ seq[t] # << >>
      <4>1. 1 \in 1 .. Len(seq[t])  BY <3>4, <2>4, EmptySeq
      <4>2. s[1] = seq[t][1]  BY <4>1, <2>4
      <4> QED BY <4>2, <3>1, <3>4, <2>5
    <3> QED BY <3>2, <3>3, <3>4
  <2>8. Reading'
    <3> SUFFICES ASSUME NEW u \in Timers, NEW b \in 2 .. Len(seq'[u])
                 PROVE  ByteFresh(seq'[u][1], b, seq'[u][b])
      BY <1>1 DEF Reading, ByteFresh, Before, Posted, Events
    <3>1. CASE u # t  BY <3>1, <2>5 DEF Reading
    <3>2. CASE u = t /\ b <= Len(seq[t])
      <4>1. b \in 1 .. Len(seq[t]) /\ 1 \in 1 .. Len(seq[t]) /\ b \in 2 .. Len(seq[t])
        BY <3>2, <2>4, LenProperties
      <4>2. s[b] = seq[t][b] /\ s[1] = seq[t][1]  BY <4>1, <2>4
      <4>3. ByteFresh(seq[t][1], b, seq[t][b])  BY <4>1 DEF Reading
      <4> QED BY <4>2, <4>3, <3>2, <2>5
    <3>3. CASE u = t /\ b = n
      <4>1. n \in 2 .. 7 /\ 1 \in 1 .. Len(seq[t])
        BY <3>3, <2>2, <2>4, <2>5, LenProperties
      <4>2. seq[t] # << >>  BY <4>1, EmptySeq
      <4>3. ByteFresh(seq[t][1], n, v)  BY <4>1, <4>2, NextByteFresh
      <4>4. s[1] = seq[t][1] /\ s[b] = v  BY <4>1, <3>3, <2>4
      <4> QED BY <4>3, <4>4, <3>3, <2>5
    <3>4. b \in 2 .. n  \/ u # t  BY <2>4, <2>5
    <3>5. Len(seq[t]) \in Nat  BY <2>4, LenProperties
    <3> QED BY <3>1, <3>2, <3>3, <3>4, <3>5
  <2> QED BY <1>3, <2>6, <2>7, <2>8
<1> QED BY <1>5, <1>6

\* A thread sends what it has read, or fails to, and empties the mailbox.
LEMMA SendMail ==
  ASSUME MailInv, NEW t \in Timers, Write(t) \/ WriteFails(t) \/ Clear(t)
  PROVE  MailInv'
<1> USE DEF MailInv
<1>1. UNCHANGED <<kinds, down, todo, timers, seq, up>>
  BY DEF Write, WriteFails, Clear, ui
<1>2. Nums' = Nums  BY <1>1 DEF Nums
<1>3. /\ pc \in [Timers -> {"idle", "read", "write", "clear"}]
      /\ seq \in [Timers -> Seq(Nums)] /\ instr \in [Fields -> Nums]
      /\ wire \in Seq(Seq(Nums)) /\ Len(kinds) \in Nat
  BY DEF MailTyped
<1>4. /\ instr' \in [Fields -> Nums]
      /\ instr'.pixel = instr.pixel /\ instr'.color = instr.color
      /\ instr'.cmd = instr.cmd \/ instr'.cmd = 0
  <2>1. instr' = instr \/ instr' = [instr EXCEPT !.cmd = 0]
    BY DEF Write, WriteFails, Clear, Emptied
  <2>2. 0 \in Nums  BY <1>3 DEF Nums
  <2> QED BY <1>3, <2>1, <2>2 DEF Fields
<1>5. \E p \in {"clear", "idle"} : pc' = [pc EXCEPT ![t] = p]
  BY DEF Write, WriteFails, Clear, AfterFailure
<1>6. wire' \in Seq(Seq(Nums)) /\ \A k \in Sent' :
        \/ k \in Sent /\ wire'[k] = wire[k]
        \/ wire'[k] = seq[t] /\ Len(seq[t]) = 7
  <2>1. CASE Write(t)
    <3>1. wire' = Append(wire, seq[t]) /\ Len(seq[t]) = 7 /\ seq[t] \in Seq(Nums)
      BY <2>1, <1>3 DEF Write, MailTyped
    <3>2. /\ wire' \in Seq(Seq(Nums)) /\ Len(wire') = Len(wire) + 1
          /\ \A k \in 1 .. Len(wire) : wire'[k] = wire[k]
          /\ wire'[Len(wire) + 1] = seq[t]
      BY <3>1, <1>3, AppendProperties
    <3>3. Len(wire) \in Nat  BY <1>3, LenProperties
    <3> QED BY <3>1, <3>2, <3>3 DEF Sent
  <2>2. CASE wire' = wire  BY <2>2, <1>3 DEF Sent
  <2> QED BY <2>1, <2>2 DEF WriteFails, Clear
<1>7. MailTyped'
  <2>1. pc' \in [Timers -> {"idle", "read", "write", "clear"}]  BY <1>3, <1>5
  <2>2. \A u \in Timers : /\ Len(seq[u]) <= 7
                          /\ pc'[u] = "read" => Len(seq[u]) < 7
                          /\ pc'[u] = "write" => Len(seq[u]) = 7
    BY <1>3, <1>5 DEF MailTyped
  <2>3. \A k \in Sent' : Len(wire'[k]) = 7  BY <1>6 DEF MailTyped
  <2> QED BY <1>1, <1>2, <1>4, <1>6, <2>1, <2>2, <2>3 DEF MailTyped
<1>8. Written'
  BY <1>1, <1>4 DEF Written, Posted, Events, PixelDue, ColorDue
<1>9. ColorFirst'
  <2> SUFFICES ASSUME ColorDue, kinds[Len(kinds)] \in Touches
               PROVE  /\ todo = <<"color", "cmd", "pixel">> /\ instr'.cmd < Len(kinds)
                      /\ \A u \in Timers : seq[u] # << >> => seq[u][1] < Len(kinds)
    BY <1>1 DEF ColorFirst, ColorDue
  <2>1. instr.cmd < Len(kinds) /\ instr.cmd \in Nums  BY <1>3 DEF ColorFirst, Fields
  <2>2. instr'.cmd < Len(kinds)  BY <2>1, <1>3, <1>4 DEF Nums
  <2> QED BY <2>2 DEF ColorFirst
<1>10. Reading'
  BY <1>1 DEF Reading, ByteFresh, Before, Posted, Events
<1>11. FieldsFresh'
  <2> SUFFICES ASSUME NEW k \in Sent', NEW b \in 2 .. 7
               PROVE  ByteFresh(wire'[k][1], b, wire'[k][b])
    BY <1>1 DEF FieldsFresh, ByteFresh, Before, Posted, Events
  <2>1. CASE k \in Sent /\ wire'[k] = wire[k]
    BY <2>1 DEF FieldsFresh, ByteFresh
  <2>2. CASE wire'[k] = seq[t] /\ Len(seq[t]) = 7
    BY <2>2 DEF Reading
  <2> QED BY <1>6, <2>1, <2>2
<1> QED BY <1>7, <1>8, <1>9, <1>10, <1>11

LEMMA NextMail == MailInv /\ [Next]_vars => MailInv'
<1> SUFFICES ASSUME MailInv, [Next]_vars PROVE MailInv'  OBVIOUS
<1>1. CASE UI \/ Link  BY <1>1, UIMail
<1>2. ASSUME NEW t \in Timers, Run(t) PROVE MailInv'
  BY <1>2, ReadMail, SendMail DEF Run
<1>3. CASE UNCHANGED vars
  BY <1>3 DEF vars, MailInv, MailTyped, Written, ColorFirst, Reading, ByteFresh,
              FieldsFresh, Before, Posted, Events, Sent, Nums, ColorDue, PixelDue
<1> QED BY <1>1, <1>2, <1>3 DEF Next

LEMMA MailHolds == MailInv => MailboxHolds
<1> SUFFICES ASSUME MailInv PROVE TypeOK  BY DEF MailInv, MailboxHolds
<1> USE DEF MailInv
<1>1. \A s \in Todos : s \in Seq(Fields)
  <2>1. << >> \in Seq(Fields)  OBVIOUS
  <2>2. <<"color">> \in Seq(Fields) /\ <<"pixel">> \in Seq(Fields)  BY DEF Fields
  <2>3. <<"color", "pixel">> \in Seq(Fields) /\ <<"cmd", "pixel">> \in Seq(Fields)
    BY DEF Fields
  <2>4. /\ <<"color", "cmd", "pixel">> \in Seq(Fields)
        /\ <<"cmd", "color", "pixel">> \in Seq(Fields)
    BY DEF Fields
  <2> QED BY <2>1, <2>2, <2>3, <2>4 DEF Todos
<1>2. todo \in Seq(Fields)  BY <1>1 DEF MailTyped
<1>3. \A t \in Timers : seq[t] \in Seq(0 .. Len(kinds)) /\ Len(seq[t]) <= 7
  BY DEF MailTyped, Nums
<1> QED BY <1>2, <1>3 DEF MailTyped, TypeOK, Nums

\* However many timer threads poll the mailbox, and however their reads fall
\* between the setters of the UI thread, what leaves with a command is at most
\* as old as the command posted before it, and the colour of a touch is its own
\* or a later one (MainActivity.java:78-80, 156-158, 344-349).
THEOREM MailboxHoldsAlways == Spec => []MailboxHolds
<1>1. Init => MailInv  BY InitMail
<1>2. MailInv /\ [Next]_vars => MailInv'  BY NextMail
<1>3. MailInv => MailboxHolds  BY MailHolds
<1> QED BY <1>1, <1>2, <1>3, PTL DEF Spec
=============================================================================
