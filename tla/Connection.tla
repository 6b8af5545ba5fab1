---------------------------- MODULE Connection ----------------------------
(***************************************************************************)
(* The life of the phone's connection to the middleman: the two activities *)
(* of the app (MainActivity and ConnectScreen), the asynchronous connects  *)
(* they start, and the timer threads whose tasks use app.sock.             *)
(*                                                                         *)
(* Handlers run one at a time on the UI thread; connects run one at a time *)
(* on the executor, whose results come back to the UI thread in order.     *)
(* Each MainActivity created makes a Timer with a thread of its own; those *)
(* before it go on.  A thread runs its tasks one after the other and reads *)
(* app.sock five times in a run, unsynchronised.  An exception nobody      *)
(* catches ends the app.                                                   *)
(*                                                                         *)
(* A socket is its number, 0 is null.  The bytes from the middleman are    *)
(* numbered from 0 on each socket; an instruction has FrameLen of them.    *)
(***************************************************************************)
EXTENDS Integers, Sequences, FiniteSets

CONSTANTS
  MaxThreads,     \* bound on the timer threads, i.e. on MainActivity.onCreate
  MaxConnects,    \* bound on the connects of a behaviour
  Talking,        \* bound: the sockets the middleman sends on
  MaxBytes,       \* bound on the bytes the middleman sends on a socket
  FrameLen        \* 7

ASSUME ConnectionAssumption ==
  /\ MaxThreads \in Nat \ {0}
  /\ MaxConnects \in Nat /\ MaxBytes \in Nat /\ FrameLen \in Nat \ {0}

VARIABLES
  screen,       \* the activity on top, "main" or "connect"
  resumed,      \* it is in front
  shown,        \* a ConnectScreen has been created and not left
  threads,      \* the Timers created; app.tcp_timer is the last of them
  reader,       \* those a TCPReadTimerTask has been scheduled on
  polling,      \* those a TCPTimerTask has been scheduled on
  sock,         \* app.sock
  socks,        \* every socket ever connected: [st, next, avail]
  connects,     \* SocketConnects: [by, result], -1 while connecting; by is the
                \* activity, "left" if that one is gone
  button,       \* the connect button is enabled
  box,          \* MainActivity's check box is enabled
  at,           \* where each timer thread is: [task, step, stream, count]
  ended,        \* "no", or what ended the app
  mixed,        \* history: the reader has taken a part of an instruction, or two
                \* threads have had an answer of available() for the same socket
  torn,         \* history: before that a poll has read what is not one instruction
  nulled,       \* history: a failed connect replaced a socket by null
  overlapped    \* history: a connect began beside another, or by the button
                \* beside an open socket, or was answered while the app was left

front == <<screen, resumed, shown, threads, reader, polling, button>>
link == <<sock, socks, connects, box>>
thread == <<at, mixed, torn>>
history == <<nulled, overlapped>>
connVars == <<front, link, thread, ended, history>>

Threads == 1 .. MaxThreads
Idle == [task |-> "none", step |-> "idle", stream |-> 0, count |-> 0]
Running == ended = "no"

ConnInit ==
  /\ screen = "main" /\ resumed = FALSE /\ shown = FALSE
  /\ threads = 0 /\ reader = {} /\ polling = {}
  /\ sock = 0 /\ socks = << >> /\ connects = << >>
  /\ button = TRUE /\ box = TRUE
  /\ at = [t \in Threads |-> Idle]
  /\ torn = FALSE /\ mixed = FALSE
  /\ ended = "no" /\ nulled = FALSE /\ overlapped = FALSE

\* isConnected stays true and isClosed false when the middleman goes away.
Usable(n) == socks[n].st # "closed"
Open(n) == socks[n].st = "open"
Gone(st) == [st |-> st, next |-> 0, avail |-> 0]
ClosedAt(n) == [socks EXCEPT ![n] = Gone("closed")]

---------------------------------------------------------------------------
(* The UI thread *)

\* new SocketConnect().execute(): the connect joins the executor's queue.
Execute(by, others) ==
  /\ Len(socks) + Len(connects) < MaxConnects
  /\ connects' = Append(others, [by |-> by, result |-> -1])
  /\ overlapped' = (overlapped \/ connects # << >>
                    \/ (by = "connect" /\ sock # 0 /\ Open(sock)))

\* Seeded bug: the connection is left open.
CloseNot == socks

\* closeSocket from onPause, which has tested app.sock.
CloseOnPause == IF sock # 0 THEN ClosedAt(sock) ELSE socks

\* onPause of the activity in front, which then stays on top (Home), opens the
\* ConnectScreen from the menu, or is finished (Back).
Pause(next) ==
  /\ resumed
  /\ resumed' = FALSE /\ screen' = next
  /\ socks' = CloseOnPause
  /\ UNCHANGED <<shown, threads, reader, polling, button, sock, connects, box, thread, history>>

\* The connects once the activity that started them is gone.
Left(activity) ==
  [k \in DOMAIN connects |->
     IF connects[k].by = activity THEN [connects[k] EXCEPT !.by = "left"] ELSE connects[k]]

\* onCreate of MainActivity, the first or, after Back or when the system has
\* taken it away, another: a new Timer beside the old, and a new check box.
CreateMain ==
  /\ ~resumed /\ screen = "main" /\ threads < MaxThreads
  /\ threads' = threads + 1
  /\ box' = TRUE
  /\ connects' = Left("main")
  /\ UNCHANGED <<screen, resumed, shown, reader, polling, button, sock, socks, thread, history>>

\* onResume of MainActivity: one more TCPTimerTask on the last Timer, and a
\* connect if there was a socket before.
ResumeMain ==
  /\ ~resumed /\ screen = "main" /\ threads > 0
  /\ resumed' = TRUE /\ polling' = polling \cup {threads}
  /\ shown' = FALSE
  /\ IF sock # 0
     THEN Execute("main", Left("connect")) /\ box' = FALSE
     ELSE connects' = Left("connect") /\ UNCHANGED <<overlapped, box>>
  /\ UNCHANGED <<screen, threads, reader, button, sock, socks, thread, nulled>>

\* onCreate and onResume of a ConnectScreen; its task is never cancelled.
ResumeConnect ==
  /\ ~resumed /\ screen = "connect"
  /\ resumed' = TRUE /\ reader' = reader \cup {threads}
  /\ shown' = TRUE
  /\ button' = (~shown \/ button)
  /\ UNCHANGED <<screen, threads, polling, link, thread, history>>

Connecting == resumed /\ screen = "connect"

\* The Connect button.
OpenSocket ==
  /\ Connecting /\ button
  /\ Execute("connect", connects)
  /\ button' = FALSE
  /\ UNCHANGED <<screen, resumed, shown, threads, reader, polling, sock, socks, box, thread, nulled>>

\* The Disconnect button, also when there is no socket.
CloseSocket ==
  /\ Connecting
  /\ ended' = IF sock = 0 THEN "button" ELSE "no"
  /\ socks' = IF sock = 0 THEN socks ELSE ClosedAt(sock)
  /\ UNCHANGED <<front, sock, connects, box, thread, history>>

\* The Send button of the test message, which asks app.sock for its stream; the
\* message itself is left out.
SendMessage ==
  /\ Connecting /\ sock = 0
  /\ ended' = "button"
  /\ UNCHANGED <<front, link, thread, history>>

\* onPostExecute on the UI thread.  The views are those of the activity that
\* started the connect.
PostExecute ==
  /\ connects # << >> /\ Head(connects).result >= 0
  /\ LET c == Head(connects)
     IN /\ sock' = c.result
        /\ nulled' = (nulled \/ (sock # 0 /\ c.result = 0))
        /\ overlapped' = (overlapped \/ (~resumed /\ c.result # 0))
        /\ box' = (box \/ c.by = "main")
        /\ button' = (button \/ c.by = "connect")
  /\ connects' = Tail(connects)
  /\ UNCHANGED <<screen, resumed, shown, threads, reader, polling, socks, thread>>

Handlers ==
  \/ CloseSocket \/ SendMessage
  \/ /\ UNCHANGED ended
     /\ \/ \E next \in {"main", "connect"} : Pause(next)
        \/ CreateMain \/ ResumeMain \/ ResumeConnect \/ OpenSocket \/ PostExecute

---------------------------------------------------------------------------
(* The executor and the network *)

\* The connects that are still going on; the executor runs the first.
Unfinished == {k \in DOMAIN connects : connects[k].result = -1}

\* doInBackground: a connected socket, or null after an exception.
DoInBackground(success) ==
  /\ Unfinished # {}
  /\ LET k == CHOOSE k \in Unfinished : \A j \in Unfinished : k <= j
     IN connects' = [connects EXCEPT ![k].result = IF success THEN Len(socks) + 1 ELSE 0]
  /\ socks' = IF success THEN Append(socks, [st |-> "open", next |-> 0, avail |-> 0])
                         ELSE socks
  /\ UNCHANGED <<front, sock, box, thread, history>>

\* The middleman sends a byte, or goes away.
Receive(n) ==
  /\ n \in Talking /\ Open(n) /\ socks[n].next + socks[n].avail < MaxBytes
  /\ socks' = [socks EXCEPT ![n].avail = @ + 1]
  /\ UNCHANGED <<front, sock, connects, box, thread, history>>

Reset(n) ==
  /\ Open(n)
  /\ socks' = [socks EXCEPT ![n] = Gone("reset")]
  /\ UNCHANGED <<front, sock, connects, box, thread, history>>

Network ==
  /\ UNCHANGED ended
  /\ \/ \E success \in BOOLEAN : DoInBackground(success)
     \/ \E n \in DOMAIN socks : Receive(n) \/ Reset(n)

---------------------------------------------------------------------------
(* Timer thread t: TCPTimerTask.run and TCPReadTimerTask.run *)

\* Seeded bug: app.sock is not compared with null first.
FirstTestNone == "connected"

FirstTest == "null"

Fire(t, task) ==
  /\ at[t] = Idle
  /\ task = "poll" => t \in polling
  /\ task = "read" => t \in reader
  /\ at' = [at EXCEPT ![t] = [task |-> task, step |-> FirstTest, stream |-> 0, count |-> 0]]
  /\ UNCHANGED <<front, link, ended, torn, mixed, history>>

GoOn(t, step, stream, count) ==
  at' = [at EXCEPT ![t] = [task |-> at[t].task, step |-> step,
                           stream |-> stream, count |-> count]]
Done(t) == at' = [at EXCEPT ![t] = Idle]
Dies == ended' = "timer" /\ UNCHANGED at
Lives == UNCHANGED ended

\* app.getSock() != null && app.getSock().isConnected() && !app.sock.isClosed()
Test(t) ==
  LET step == at[t].step
  IN /\ \/ step = "null" /\ sock = 0 /\ Done(t) /\ Lives
        \/ step = "null" /\ sock # 0 /\ GoOn(t, "connected", 0, 0) /\ Lives
        \/ step \in {"connected", "closed"} /\ sock = 0 /\ Dies
        \/ step = "connected" /\ sock # 0 /\ GoOn(t, "closed", 0, 0) /\ Lives
        \/ step = "closed" /\ sock # 0 /\ ~Usable(sock) /\ Done(t) /\ Lives
        \/ step = "closed" /\ sock # 0 /\ Usable(sock) /\ GoOn(t, "input", 0, 0) /\ Lives
     /\ UNCHANGED <<front, link, torn, mixed, history>>

\* After an IOException or the reading: the poll looks for a command to send.
AfterInput(t) == IF at[t].task = "poll" THEN GoOn(t, "pending", 0, 0) ELSE Done(t)

GetInputStream(t) ==
  /\ at[t].step = "input"
  /\ \/ sock = 0 /\ Dies
     \/ sock # 0 /\ ~Usable(sock) /\ AfterInput(t) /\ Lives
     \/ sock # 0 /\ Usable(sock) /\ GoOn(t, "available", sock, 0) /\ Lives
  /\ UNCHANGED <<front, link, torn, mixed, history>>

\* Seeded bug: the poll reads as soon as there is something.
WantedAny(task, avail) == avail

\* The buffer each makes of the answer of available(): the poll reads one
\* instruction if it is complete, the reader all there is.
Wanted(task, avail) ==
  CASE task = "poll" -> IF avail >= FrameLen THEN FrameLen ELSE 0
    [] task = "read" -> avail

\* in.available(), which throws an exception on a closed socket.
AskAvailable(t) ==
  /\ at[t].step = "available"
  /\ LET n == at[t].stream
         wanted == IF Open(n) THEN Wanted(at[t].task, socks[n].avail) ELSE 0
     IN IF wanted = 0
        THEN AfterInput(t) /\ UNCHANGED mixed
        ELSE /\ GoOn(t, "read", n, wanted)
             /\ mixed' = (mixed \/ \E u \in Threads : at[u].step = "read" /\ at[u].stream = n)
  /\ UNCHANGED <<front, link, torn, ended, history>>

Least(a, b) == IF a <= b THEN a ELSE b

\* in.read(buf): as much of the buffer as there are bytes.  It waits for the
\* first, and throws an exception on a closed socket.
ReadBytes(t) ==
  /\ at[t].step = "read"
  /\ LET n == at[t].stream
         count == Least(at[t].count, socks[n].avail)
     IN /\ Open(n) => count > 0
        /\ IF Open(n)
           THEN /\ socks' = [socks EXCEPT ![n].next = @ + count, ![n].avail = @ - count]
                /\ torn' = (torn \/ (~mixed /\ at[t].task = "poll"
                                     /\ ~(count = FrameLen /\ socks[n].next % FrameLen = 0)))
                /\ mixed' = (mixed \/ (at[t].task = "read" /\ count % FrameLen # 0))
           ELSE UNCHANGED <<socks, torn, mixed>>
  /\ AfterInput(t)
  /\ UNCHANGED <<front, sock, connects, box, ended, history>>

\* If a command is pending, app.getSock() once more.  Whether one is, and what
\* the writing does, is the mailbox of module Phone.
GetOutputStream(t) ==
  /\ at[t].step = "pending"
  /\ \/ Done(t) /\ Lives
     \/ sock = 0 /\ Dies
  /\ UNCHANGED <<front, link, torn, mixed, history>>

Thread(t) ==
  \/ \E task \in {"poll", "read"} : Fire(t, task)
  \/ Test(t) \/ GetInputStream(t) \/ AskAvailable(t) \/ ReadBytes(t)
  \/ GetOutputStream(t)

ConnNext ==
  Running /\ (Handlers \/ Network \/ \E t \in Threads : Thread(t))

\* A connect succeeds or fails, and the UI thread handles its messages.
ConnFairness ==
  WF_connVars(/\ Running /\ UNCHANGED ended
              /\ PostExecute \/ \E success \in BOOLEAN : DoInBackground(success))

ConnSpec == ConnInit /\ [][ConnNext]_connVars /\ ConnFairness

---------------------------------------------------------------------------
(* Properties *)

ConnTypeOK ==
  /\ screen \in {"main", "connect"} /\ {resumed, shown, button, box} \subseteq BOOLEAN
  /\ threads \in 0 .. MaxThreads /\ reader \cup polling \subseteq 1 .. threads
  /\ sock \in 0 .. Len(socks)
  /\ \A n \in DOMAIN socks :
       socks[n].st \in {"open", "reset", "closed"} /\ socks[n].avail >= 0
       /\ socks[n].next + socks[n].avail <= MaxBytes
  /\ \A k \in DOMAIN connects : connects[k].result \in -1 .. Len(socks)
  /\ \A t \in Threads : at[t].stream \in 0 .. Len(socks)
  /\ ended \in {"no", "button", "timer"}

\* app.sock may become null under a timer thread's hands only by a connect that
\* failed beside a socket in use: that alone can end the app from a timer thread
\* (MainActivity.java:326, 332, 348; ConnectScreen.java:311-316).
TimerSurvives == ended = "timer" => nulled

\* Sockets that are open and known to nobody, so that nobody will close them.
Orphans ==
  {n \in DOMAIN socks : Open(n) /\ n # sock
                        /\ \A k \in DOMAIN connects : connects[k].result # n}

\* "Close TCP connection (if open) on pause" (MainActivity.java:137): no socket
\* stays open behind the app's back, unless a connect was started beside an open
\* socket or another connect, as leaving and returning twice does, or was
\* answered after onPause (MainActivity.java:283-300).
NoOrphans == ~overlapped => Orphans = {}

\* What the activities know of their sockets, at every moment.
SocketsKept == ConnTypeOK /\ NoOrphans

\* There are two ways to tear an instruction apart and no other: the task of the
\* ConnectScreen, never cancelled, takes any bytes there are; and two threads,
\* the Timers of two MainActivities, have both seen a complete instruction before
\* either of them reads it (MainActivity.java:70, 336-339, ConnectScreen.java:121-122,
\* 322-325).
FramesWhole == ~torn
===========================================================================
