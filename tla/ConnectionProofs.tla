-------------------------- MODULE ConnectionProofs --------------------------
(***************************************************************************)
(* Proofs about the phone's connection (module Connection), for every      *)
(* number of timer threads, of connects, of bytes and every length of an   *)
(* instruction: what may end a timer thread, which sockets stay open, and  *)
(* what a poll reads.                                                      *)
(***************************************************************************)
EXTENDS Connection, SequenceTheorems, TLAPS

---------------------------------------------------------------------------
(* The inductive invariant *)

Tasks == {"none", "poll", "read"}
Places == {"idle", "null", "connected", "closed", "input", "available", "read", "pending"}
Socket == [st : {"open", "reset", "closed"}, next : Nat, avail : Nat]
Connect == [by : {"main", "connect", "left"}, result : Nat \cup {-1}]

Screens ==
  /\ screen \in {"main", "connect"}
  /\ resumed \in BOOLEAN /\ shown \in BOOLEAN /\ button \in BOOLEAN /\ box \in BOOLEAN
  /\ threads \in 0 .. MaxThreads
  /\ reader \subseteq 1 .. threads /\ polling \subseteq 1 .. threads
  /\ screen = "connect" \/ resumed => threads > 0

Sockets ==
  /\ socks \in Seq(Socket) /\ sock \in 0 .. Len(socks)
  /\ \A n \in 1 .. Len(socks) : socks[n].next + socks[n].avail <= MaxBytes

Connects ==
  /\ connects \in Seq(Connect)
  /\ \A k \in 1 .. Len(connects) : connects[k].result <= Len(socks)

\* The timer threads: a task where there is one, and the stream it has got.
Placed ==
  /\ at \in [Threads -> [task : Tasks, step : Places, stream : 0 .. Len(socks), count : Nat]]
  /\ \A t \in Threads :
       /\ at[t].step # "idle" => at[t].task # "none"
       /\ at[t].step \in {"available", "read"} => at[t].stream # 0
  /\ ended \in {"no", "button", "timer"}

\* app.sock is null behind a thread's test only after a failed connect.
Tested ==
  (sock = 0 /\ \E t \in Threads : at[t].step \notin {"idle", "null"}) \/ ended = "timer"
    => nulled

\* Without overlap there is one connect at most, none beside an open socket, and
\* no socket is open while the app is left.
Alone ==
  ~overlapped =>
    /\ Len(connects) <= 1
    /\ connects # << >> \/ ~resumed => (sock # 0 => ~Open(sock))
    /\ \A n \in 1 .. Len(socks) :
         Open(n) => n = sock \/ \E k \in 1 .. Len(connects) : connects[k].result = n

\* The next byte of each socket begins an instruction.
Aligned == \A n \in 1 .. Len(socks) : (socks[n].next % FrameLen) = 0

\* A thread about to read finds the bytes it was told of, a poll an instruction.
Promised ==
  \A t \in Threads : at[t].step = "read" =>
    /\ at[t].task = "poll" => at[t].count = FrameLen
    /\ socks[at[t].stream].st = "open" => at[t].count <= socks[at[t].stream].avail

\* No two threads are about to read the same socket.
Single ==
  \A t, u \in Threads :
    at[t].step = "read" /\ at[u].step = "read" /\ at[t].stream = at[u].stream => t = u

Whole == torn = FALSE /\ (~mixed => Aligned /\ Promised /\ Single)

Types == Screens /\ Sockets /\ Connects /\ Placed
ConnInv == Types /\ Tested /\ Alone /\ Whole

---------------------------------------------------------------------------
(* Lemmas *)

LEMMA MultipleRest == \A q \in Nat : ((q * FrameLen) % FrameLen) = 0
BY ConnectionAssumption

LEMMA Quotient ==
  \A a \in Nat : (a % FrameLen) = 0 =>
     a \div FrameLen \in Nat /\ a = (a \div FrameLen) * FrameLen
BY ConnectionAssumption

\* Sums of whole instructions are whole.
LEMMA Multiples ==
  ASSUME NEW a \in Nat, NEW b \in Nat, (a % FrameLen) = 0, (b % FrameLen) = 0
  PROVE  ((a + b) % FrameLen) = 0
<1> DEFINE q == a \div FrameLen
           r == b \div FrameLen
<1>1. q \in Nat /\ r \in Nat /\ a = q * FrameLen /\ b = r * FrameLen
  BY Quotient
<1> HIDE DEF q, r
<1>2. a + b = (q + r) * FrameLen /\ q + r \in Nat
  BY <1>1, ConnectionAssumption
<1> QED BY <1>2, MultipleRest

LEMMA ZeroMultiple == (0 % FrameLen) = 0 /\ (FrameLen % FrameLen) = 0
BY ConnectionAssumption

LEMMA SocketFields ==
  ASSUME Sockets, NEW n \in 1 .. Len(socks)
  PROVE  /\ socks[n] \in Socket
         /\ socks[n].st \in {"open", "reset", "closed"}
         /\ socks[n].next \in Nat /\ socks[n].avail \in Nat
<1>1. socks[n] \in Socket  BY ElementOfSeq DEF Sockets
<1> QED BY <1>1 DEF Socket

LEMMA GoneSocket ==
  ASSUME NEW st \in {"reset", "closed"}
  PROVE  /\ Gone(st) \in Socket /\ Gone(st).st = st
         /\ Gone(st).next = 0 /\ Gone(st).avail = 0
BY DEF Gone, Socket

\* One socket is changed.
LEMMA OneSocket ==
  ASSUME Sockets, NEW n \in 1 .. Len(socks), NEW s \in Socket,
         s.next + s.avail <= MaxBytes,
         socks' = [socks EXCEPT ![n] = s], sock' = sock
  PROVE  /\ Sockets' /\ Len(socks') = Len(socks)
         /\ \A j \in 1 .. Len(socks) : socks'[j] = IF j = n THEN s ELSE socks[j]
<1> DEFINE t == [socks EXCEPT ![n] = s]
<1>1. /\ t \in Seq(Socket) /\ Len(t) = Len(socks)
      /\ \A j \in 1 .. Len(socks) : t[j] = IF j = n THEN s ELSE socks[j]
  BY ExceptSeq DEF Sockets
<1>2. \A j \in 1 .. Len(t) : t[j].next + t[j].avail <= MaxBytes
  BY <1>1 DEF Sockets
<1> HIDE DEF t
<1>3. socks' = t  BY DEF t
<1> QED BY <1>1, <1>2, <1>3 DEF Sockets

\* Sockets are at most closed, and an app that is left has closed its own.
LEMMA AloneKept ==
  ASSUME Types, Alone, Len(socks') = Len(socks),
         \A n \in 1 .. Len(socks) : socks'[n].st = "open" => socks[n].st = "open",
         UNCHANGED <<overlapped, connects, sock>>,
         ~resumed' => ~resumed \/ (sock # 0 => socks'[sock].st # "open")
  PROVE  Alone'
BY DEF Alone, Open, Types, Sockets

\* Steps that give no thread bytes to read and take none from a socket.
LEMMA WholeKept ==
  ASSUME Whole, Sockets, Placed, UNCHANGED <<mixed, torn>>,
         Len(socks') \in Nat, Len(socks) <= Len(socks'),
         \A n \in 1 .. Len(socks) :
           /\ socks'[n].next = 0 \/ socks'[n].next = socks[n].next
           /\ socks'[n].st = "open" => socks[n].st = "open" /\ socks[n].avail <= socks'[n].avail,
         \A n \in 1 .. Len(socks') : n \in 1 .. Len(socks) \/ socks'[n].next = 0,
         \A n \in 1 .. Len(socks) : socks'[n].avail \in Nat,
         \A t \in Threads : at'[t].step = "read" => at'[t] = at[t]
  PROVE  Whole'
<1> SUFFICES ASSUME ~mixed PROVE Aligned' /\ Promised' /\ Single'  BY DEF Whole
<1>1. Aligned /\ Promised /\ Single  BY DEF Whole
<1>2. Aligned'  BY <1>1, ZeroMultiple DEF Aligned
<1>3. Promised'
  <2> SUFFICES ASSUME NEW t \in Threads, at'[t].step = "read"
               PROVE  /\ at'[t].task = "poll" => at'[t].count = FrameLen
                      /\ socks'[at'[t].stream].st = "open"
                           => at'[t].count <= socks'[at'[t].stream].avail
    BY DEF Promised
  <2> DEFINE n == at[t].stream
             c == at[t].count
  <2>1. at'[t] = at[t] /\ at[t].step = "read"  OBVIOUS
  <2>2. n \in 1 .. Len(socks) /\ c \in Nat  BY <2>1 DEF Placed, Sockets
  <2>3. at[t].task = "poll" => c = FrameLen  BY <1>1, <2>1 DEF Promised
  <2>4. socks[n].st = "open" => c <= socks[n].avail  BY <1>1, <2>1 DEF Promised
  <2>5. socks[n].avail \in Nat /\ socks'[n].avail \in Nat  BY <2>2, SocketFields
  <2> HIDE DEF n, c
  <2>6. socks'[n].st = "open" => c <= socks'[n].avail  BY <2>2, <2>4, <2>5
  <2> QED BY <2>1, <2>3, <2>6 DEF n, c
<1>4. Single'  BY <1>1 DEF Single
<1> QED BY <1>2, <1>3, <1>4

LEMMA WholeStays ==
  ASSUME Whole, Sockets, Placed, UNCHANGED <<socks, mixed, torn>>,
         \A t \in Threads : at'[t].step = "read" => at'[t] = at[t]
  PROVE  Whole'
<1>1. \A n \in 1 .. Len(socks) : socks[n].avail \in Nat  BY SocketFields
<1>2. Len(socks) \in Nat  BY DEF Sockets
<1> QED BY <1>1, <1>2, WholeKept

\* One socket is closed, or gets more bytes.
LEMMA OneWhole ==
  ASSUME Whole, Sockets, Placed, NEW n \in 1 .. Len(socks), NEW s \in Socket,
         Len(socks') = Len(socks),
         \A j \in 1 .. Len(socks) : socks'[j] = IF j = n THEN s ELSE socks[j],
         s.next = 0 \/ s.next = socks[n].next,
         s.st # "open" \/ (s.st = socks[n].st /\ socks[n].avail <= s.avail),
         UNCHANGED <<at, mixed, torn>>
  PROVE  Whole'
<1>1. \A j \in 1 .. Len(socks) : socks[j].avail \in Nat  BY SocketFields
<1>2. s.avail \in Nat  BY DEF Socket
<1>3. Len(socks) \in Nat  BY DEF Sockets
<1>4. \A j \in 1 .. Len(socks) : socks'[j].avail \in Nat  BY <1>1, <1>2
<1>5. \A j \in 1 .. Len(socks) :
        /\ socks'[j].next = 0 \/ socks'[j].next = socks[j].next
        /\ socks'[j].st = "open" => socks[j].st = "open" /\ socks[j].avail <= socks'[j].avail
  BY <1>1
<1> QED BY <1>3, <1>4, <1>5, WholeKept

\* The UI thread disconnects, or leaves the activity: the socket in use is
\* closed, if there is one.
LEMMA CloseSock ==
  ASSUME ConnInv, socks' = ClosedAt(sock) \/ socks' = socks, sock # 0 \/ socks' = socks,
         UNCHANGED <<sock, overlapped, connects, at, mixed, torn>>,
         ~resumed' => ~resumed \/ (sock # 0 => socks' = ClosedAt(sock))
  PROVE  Sockets' /\ Alone' /\ Whole' /\ Len(socks') = Len(socks)
<1> USE DEF ConnInv, Types
<1>1. CASE socks' = socks /\ (~resumed' => ~resumed \/ sock = 0)
  <2>1. Sockets'  BY <1>1 DEF Sockets
  <2>2. Whole'  BY <1>1, WholeStays
  <2>3. Alone'  BY <1>1, AloneKept
  <2> QED BY <1>1, <2>1, <2>2, <2>3
<1>2. CASE socks' = ClosedAt(sock) /\ sock # 0
  <2> DEFINE s == Gone("closed")
  <2>1. sock \in 1 .. Len(socks)  BY <1>2 DEF Sockets
  <2>2. s \in Socket /\ s.st = "closed" /\ s.next = 0 /\ s.next + s.avail <= MaxBytes
    BY GoneSocket, ConnectionAssumption
  <2>3. socks' = [socks EXCEPT ![sock] = s]  BY <1>2 DEF ClosedAt
  <2> HIDE DEF s
  <2>4. /\ Sockets' /\ Len(socks') = Len(socks)
        /\ \A j \in 1 .. Len(socks) : socks'[j] = IF j = sock THEN s ELSE socks[j]
    BY <2>1, <2>2, <2>3, OneSocket
  <2>5. Whole'  BY <2>1, <2>2, <2>4, OneWhole
  <2>6. \A j \in 1 .. Len(socks) : socks'[j].st = "open" => socks[j].st = "open"
    BY <2>2, <2>4
  <2>7. socks'[sock].st # "open"  BY <2>1, <2>2, <2>4
  <2>8. Alone'  BY <2>4, <2>6, <2>7, AloneKept
  <2> QED BY <2>4, <2>5, <2>8
<1> QED BY <1>1, <1>2

LEMMA PauseInv ==
  ASSUME ConnInv, NEW next \in {"main", "connect"}, Pause(next), UNCHANGED ended
  PROVE  ConnInv'
<1> USE DEF Pause, CloseOnPause, thread, history
<1>1. Sockets' /\ Alone' /\ Whole' /\ Len(socks') = Len(socks)
  BY CloseSock
<1>2. Screens' /\ Connects' /\ Placed' /\ Tested'
  BY <1>1 DEF ConnInv, Types, Screens, Connects, Placed, Tested
<1> QED BY <1>1, <1>2 DEF ConnInv, Types

LEMMA CloseSocketInv ==
  ASSUME ConnInv, CloseSocket
  PROVE  ConnInv'
<1> USE DEF CloseSocket, front, thread, history
<1>1. Sockets' /\ Alone' /\ Whole' /\ Len(socks') = Len(socks)
  BY CloseSock
<1>2. Screens' /\ Connects' /\ Placed' /\ Tested'
  BY <1>1 DEF ConnInv, Types, Screens, Connects, Placed, Tested
<1> QED BY <1>1, <1>2 DEF ConnInv, Types

\* Handlers that do not touch the sockets.
LEMMA SendMessageInv ==
  ASSUME ConnInv, SendMessage
  PROVE  ConnInv'
<1> USE DEF SendMessage, front, link, thread, history
<1>1. Sockets' /\ Alone' /\ Whole' /\ Len(socks') = Len(socks)
  BY CloseSock
<1>2. Screens' /\ Connects' /\ Placed' /\ Tested'
  BY DEF ConnInv, Types, Screens, Connects, Placed, Tested
<1> QED BY <1>1, <1>2 DEF ConnInv, Types

LEMMA ResumeConnectInv ==
  ASSUME ConnInv, ResumeConnect, UNCHANGED ended
  PROVE  ConnInv'
<1> USE DEF ResumeConnect, link, thread, history
<1>1. Sockets' /\ Alone' /\ Whole' /\ Len(socks') = Len(socks)
  BY CloseSock
<1>2. Screens' /\ Connects' /\ Placed' /\ Tested'
  BY DEF ConnInv, Types, Screens, Connects, Placed, Tested
<1> QED BY <1>1, <1>2 DEF ConnInv, Types

\* The connects of an activity that is gone are the same connects.
LEMMA LeftConnects ==
  ASSUME Connects, NEW activity
  PROVE  /\ Left(activity) \in Seq(Connect) /\ Len(Left(activity)) = Len(connects)
         /\ \A k \in 1 .. Len(connects) : Left(activity)[k].result = connects[k].result
<1>1. DOMAIN connects = 1 .. Len(connects) /\ Len(connects) \in Nat  BY DEF Connects
<1> DEFINE E(k) == IF connects[k].by = activity THEN [connects[k] EXCEPT !.by = "left"]
                   ELSE connects[k]
<1>2. \A k \in 1 .. Len(connects) : E(k) \in Connect /\ E(k).result = connects[k].result
  <2> SUFFICES ASSUME NEW k \in 1 .. Len(connects)
               PROVE  E(k) \in Connect /\ E(k).result = connects[k].result
    OBVIOUS
  <2>1. connects[k] \in Connect  BY ElementOfSeq DEF Connects
  <2> QED BY <2>1 DEF Connect
<1>3. Left(activity) = [k \in 1 .. Len(connects) |-> E(k)]  BY <1>1 DEF Left
<1> HIDE DEF E
<1> QED BY <1>1, <1>2, <1>3

\* A connect is started: it waits its turn, without a result.
LEMMA ExecuteInv ==
  ASSUME ConnInv, NEW by \in {"main", "connect"}, NEW others \in Seq(Connect),
         Len(others) = Len(connects),
         \A k \in 1 .. Len(connects) : others[k].result = connects[k].result,
         Execute(by, others), UNCHANGED <<sock, socks>>, resumed',
         ~resumed \/ (by = "connect" /\ resumed)
  PROVE  Connects' /\ Alone'
<1> USE DEF ConnInv, Types
<1> DEFINE c == [by |-> by, result |-> -1]
           a == Append(others, c)
<1>1. c \in Connect /\ c.result = -1  BY DEF Connect
<1> HIDE DEF c
<1>2. /\ a \in Seq(Connect) /\ Len(a) = Len(connects) + 1
      /\ \A k \in 1 .. Len(connects) : a[k] = others[k]
      /\ a[Len(connects) + 1] = c
  BY <1>1, AppendProperties
<1>3. connects' = a
      /\ overlapped' = (overlapped \/ connects # << >>
                         \/ (by = "connect" /\ sock # 0 /\ Open(sock)))
  BY DEF Execute, a, c
<1> HIDE DEF a
<1>4. Len(connects) \in Nat /\ Len(socks) \in Nat  BY DEF Connects, Sockets
<1>5. Connects'
  <2>1. \A k \in 1 .. Len(a) : a[k].result <= Len(socks)
    <3> SUFFICES ASSUME NEW k \in 1 .. Len(a) PROVE a[k].result <= Len(socks)  OBVIOUS
    <3>1. CASE k \in 1 .. Len(connects)  BY <3>1, <1>2 DEF Connects
    <3>2. CASE k = Len(connects) + 1  BY <3>2, <1>1, <1>2, <1>4
    <3> QED BY <3>1, <3>2, <1>2, <1>4
  <2> QED BY <2>1, <1>2, <1>3 DEF Connects
<1>6. Alone'
  <2> SUFFICES ASSUME ~overlapped' PROVE Alone'  BY DEF Alone
  <2>1. ~overlapped /\ connects = << >> /\ ~(by = "connect" /\ sock # 0 /\ Open(sock))
    BY <1>3
  <2>2. Len(connects) = 0  BY <2>1
  <2>3. sock # 0 => ~Open(sock)  BY <2>1 DEF Alone
  <2>4. \A n \in 1 .. Len(socks) : Open(n) => n = sock  BY <2>1, <2>2 DEF Alone
  <2>5. Len(connects') <= 1
    <3>1. connects' = a /\ Len(a) = 1  BY <1>2, <1>3, <2>2
    <3> QED BY <3>1
  <2>6. (sock # 0 => ~Open(sock))' /\ \A n \in 1 .. Len(socks') : Open(n)' => n = sock'
    BY <2>3, <2>4 DEF Open
  <2> QED BY <2>5, <2>6 DEF Alone
<1> QED BY <1>5, <1>6

LEMMA OpenSocketInv ==
  ASSUME ConnInv, OpenSocket, UNCHANGED ended
  PROVE  ConnInv'
<1> USE DEF OpenSocket, thread
<1>1. Connects' /\ Alone'
  BY ExecuteInv DEF ConnInv, Types, Connects, Connecting
<1>2. Whole'  BY WholeStays DEF ConnInv, Types
<1>3. Screens' /\ Sockets' /\ Placed' /\ Tested'
  BY DEF ConnInv, Types, Screens, Sockets, Placed, Tested
<1> QED BY <1>1, <1>2, <1>3 DEF ConnInv, Types

\* The connects lose their activity, no more.
LEMMA LeftInv ==
  ASSUME ConnInv, NEW activity, connects' = Left(activity),
         UNCHANGED <<sock, socks, overlapped>>, resumed' = resumed \/ sock = 0
  PROVE  Connects' /\ Alone'
<1>1. /\ Left(activity) \in Seq(Connect) /\ Len(Left(activity)) = Len(connects)
      /\ \A k \in 1 .. Len(connects) : Left(activity)[k].result = connects[k].result
  BY LeftConnects DEF ConnInv, Types
<1>2. Connects'  BY <1>1 DEF ConnInv, Types, Connects
<1>3. Len(connects') = Len(connects) /\ Len(connects) \in Nat
  BY <1>1 DEF ConnInv, Types, Connects
<1>4. connects' # << >> => connects # << >>
  BY <1>1, <1>3, EmptySeq DEF ConnInv, Types, Connects
<1>5. \A n \in 1 .. Len(socks) :
        (\E k \in 1 .. Len(connects) : connects[k].result = n)
          => \E k \in 1 .. Len(connects') : connects'[k].result = n
  BY <1>1
<1>6. \A n \in 1 .. Len(socks) : Open(n)' <=> Open(n)  BY DEF Open
<1>7. sock # 0 => (Open(sock)' <=> Open(sock))  BY DEF Open
<1>8. Alone'
  <2> SUFFICES ASSUME ~overlapped PROVE Alone'  BY DEF Alone
  <2>1. Len(connects) <= 1  BY DEF ConnInv, Alone
  <2>2. \A n \in 1 .. Len(socks) :
          Open(n) => n = sock \/ \E k \in 1 .. Len(connects) : connects[k].result = n
    BY DEF ConnInv, Alone
  <2>3. connects' # << >> \/ ~resumed' => (sock # 0 => ~Open(sock)')
    BY <1>4, <1>7 DEF ConnInv, Alone
  <2>4. \A n \in 1 .. Len(socks) :
          Open(n)' => n = sock \/ \E k \in 1 .. Len(connects') : connects'[k].result = n
    BY <1>5, <1>6, <2>2
  <2>5. Len(connects') <= 1  BY <1>3, <2>1
  <2> QED BY <2>3, <2>4, <2>5 DEF Alone, Open
<1> QED BY <1>2, <1>8

LEMMA CreateMainInv ==
  ASSUME ConnInv, CreateMain, UNCHANGED ended
  PROVE  ConnInv'
<1> USE DEF CreateMain, thread, history
<1>1. Connects' /\ Alone'  BY LeftInv
<1>2. Whole'  BY WholeStays DEF ConnInv, Types
<1>3. Screens'  BY ConnectionAssumption DEF ConnInv, Types, Screens
<1>4. Sockets' /\ Placed' /\ Tested'
  BY DEF ConnInv, Types, Sockets, Placed, Tested
<1> QED BY <1>1, <1>2, <1>3, <1>4 DEF ConnInv, Types

LEMMA ResumeMainInv ==
  ASSUME ConnInv, ResumeMain, UNCHANGED ended
  PROVE  ConnInv'
<1> USE DEF ResumeMain, thread
<1>1. Connects' /\ Alone'
  <2>1. CASE sock # 0
    <3>1. /\ Left("connect") \in Seq(Connect) /\ Len(Left("connect")) = Len(connects)
          /\ \A k \in 1 .. Len(connects) : Left("connect")[k].result = connects[k].result
      BY LeftConnects DEF ConnInv, Types
    <3> QED BY <2>1, <3>1, ExecuteInv
  <2>2. CASE sock = 0  BY <2>2, LeftInv
  <2> QED BY <2>1, <2>2
<1>2. Whole'  BY WholeStays DEF ConnInv, Types
<1>3. Screens'
  <2>1. polling' \subseteq 1 .. threads
    <3>1. threads \in 1 .. threads  BY DEF ConnInv, Types, Screens
    <3> QED BY <3>1 DEF ConnInv, Types, Screens
  <2>2. box' \in BOOLEAN /\ threads' = threads /\ threads > 0
    BY DEF ConnInv, Types, Screens
  <2> QED BY <2>1, <2>2 DEF ConnInv, Types, Screens
<1>4. Sockets' /\ Placed' /\ Tested'
  BY DEF ConnInv, Types, Sockets, Placed, Tested
<1> QED BY <1>1, <1>2, <1>3, <1>4 DEF ConnInv, Types

\* The connect that is answered leaves the queue; its socket, or null, replaces
\* app.sock.
LEMMA PostExecuteInv ==
  ASSUME ConnInv, PostExecute, UNCHANGED ended
  PROVE  ConnInv'
<1> USE DEF ConnInv, Types
<1> DEFINE c == Head(connects)
<1>1. /\ connects # << >> /\ c.result >= 0 /\ sock' = c.result
      /\ socks' = socks /\ connects' = Tail(connects)
      /\ button' = (button \/ c.by = "connect")
      /\ box' = (box \/ c.by = "main")
  BY DEF PostExecute
<1>2. /\ nulled' = (nulled \/ (sock # 0 /\ c.result = 0))
      /\ overlapped' = (overlapped \/ (~resumed /\ c.result # 0))
      /\ UNCHANGED <<screen, resumed, shown, threads, reader, polling, at, mixed, torn, ended>>
  BY DEF PostExecute, thread
<1>3. /\ connects \in Seq(Connect) /\ Len(connects) \in Nat /\ Len(connects) > 0
      /\ c = connects[1] /\ 1 \in 1 .. Len(connects)
  BY <1>1, EmptySeq DEF Connects
<1>4. /\ Tail(connects) \in Seq(Connect) /\ Len(Tail(connects)) = Len(connects) - 1
      /\ \A k \in 1 .. Len(Tail(connects)) : Tail(connects)[k] = connects[k + 1]
  BY <1>1, <1>3, HeadTailProperties
<1>5. c \in Connect  BY <1>3, ElementOfSeq
<1>6. c.result \in 0 .. Len(socks)
  <2>1. c.result \in Nat  BY <1>1, <1>5 DEF Connect
  <2>2. c.result <= Len(socks)  BY <1>3 DEF Connects
  <2>3. Len(socks) \in Nat  BY DEF Sockets
  <2> QED BY <2>1, <2>2, <2>3
<1> HIDE DEF c
<1>7. Screens'  BY <1>1, <1>2 DEF Screens
<1>8. Sockets'  BY <1>1, <1>6 DEF Sockets
<1>9. Connects'
  <2>1. \A k \in 1 .. Len(Tail(connects)) : Tail(connects)[k].result <= Len(socks)
    <3> SUFFICES ASSUME NEW k \in 1 .. Len(Tail(connects))
                 PROVE  Tail(connects)[k].result <= Len(socks)
      OBVIOUS
    <3>1. k + 1 \in 1 .. Len(connects)  BY <1>3, <1>4
    <3> QED BY <3>1, <1>4 DEF Connects
  <2> QED BY <2>1, <1>1, <1>4 DEF Connects
<1>10. Placed'  BY <1>1, <1>2 DEF Placed
<1>11. Tested'
  <2>1. CASE sock = 0  BY <2>1, <1>2 DEF Tested
  <2>2. CASE sock # 0
    <3>1. sock' = 0 => nulled'  BY <2>2, <1>1, <1>2
    <3>2. nulled => nulled'  BY <1>2
    <3> QED BY <3>1, <3>2, <1>2 DEF Tested
  <2> QED BY <2>1, <2>2
<1>12. Alone'
  <2> SUFFICES ASSUME ~overlapped' PROVE Alone'  BY DEF Alone
  <2>1. ~overlapped /\ (~resumed => c.result = 0)  BY <1>2
  <2>2. Len(connects) <= 1 /\ (sock # 0 => ~Open(sock))
    BY <2>1, <1>1 DEF Alone
  <2>3. Len(connects) = 1 /\ connects' = << >>
    <3> DEFINE l == Len(connects)
    <3>1. l <= 1  BY <2>2
    <3>2. l \in Nat /\ l > 0  BY <1>3
    <3> HIDE DEF l
    <3>3. l = 1  BY <3>1, <3>2
    <3>4. Len(connects) = 1  BY <3>3 DEF l
    <3>5. Len(Tail(connects)) = 0  BY <3>4, <1>4
    <3> QED BY <3>4, <3>5, <1>1, <1>4, EmptySeq
  <2>4. \A n \in 1 .. Len(socks) : Open(n) => n = c.result
    <3> SUFFICES ASSUME NEW n \in 1 .. Len(socks), Open(n) PROVE n = c.result  OBVIOUS
    <3>1. n # sock  BY <2>2
    <3>2. \E k \in 1 .. Len(connects) : connects[k].result = n
      BY <3>1, <2>1 DEF Alone
    <3> QED BY <3>2, <2>3, <1>3
  <2>5. \A n \in 1 .. Len(socks') : Open(n)' => n = sock'  BY <2>4, <1>1 DEF Open
  <2>6. Len(connects') = 0  BY <2>3
  <2>7. resumed' \/ sock' = 0  BY <2>1, <1>1, <1>2
  <2> QED BY <2>3, <2>5, <2>6, <2>7 DEF Alone
<1>13. Whole'  BY <1>1, <1>2, WholeStays
<1> QED BY <1>7, <1>8, <1>9, <1>10, <1>11, <1>12, <1>13

---------------------------------------------------------------------------
(* The executor and the network *)

\* A result for one connect.
LEMMA AnswerOne ==
  ASSUME Connects, NEW k, NEW x \in Nat, NEW m \in Nat, x <= m, Len(socks) <= m,
         NEW a, a = [connects EXCEPT ![k].result = x]
  PROVE  /\ a \in Seq(Connect) /\ Len(a) = Len(connects)
         /\ \A j \in 1 .. Len(a) : a[j].result <= m
         /\ k \in 1 .. Len(connects) => a[k].result = x
<1>1. DOMAIN connects = 1 .. Len(connects) /\ Len(connects) \in Nat
      /\ connects \in [1 .. Len(connects) -> Connect]
  BY LenProperties DEF Connects
<1> DEFINE E(j) == IF j = k THEN [connects[j] EXCEPT !.result = x] ELSE connects[j]
<1>2. \A j \in 1 .. Len(connects) : E(j) \in Connect /\ E(j).result <= m
                                   /\ (j = k => E(j).result = x)
  <2> SUFFICES ASSUME NEW j \in 1 .. Len(connects)
               PROVE  E(j) \in Connect /\ E(j).result <= m /\ (j = k => E(j).result = x)
    OBVIOUS
  <2>1. connects[j] \in Connect /\ connects[j].result <= Len(socks) /\ Len(socks) \in Nat
    BY <1>1 DEF Connects
  <2>2. CASE j = k  BY <2>1, <2>2 DEF Connect
  <2>3. CASE j # k
    <3>1. connects[j].result \in Int  BY <2>1 DEF Connect
    <3> QED BY <2>1, <2>3, <3>1
  <2> QED BY <2>2, <2>3
<1> DEFINE f == [j \in 1 .. Len(connects) |-> E(j)]
<1>3. a = f  BY <1>1
<1> HIDE DEF E
<1>4. /\ f \in Seq(Connect) /\ Len(f) = Len(connects)
      /\ \A j \in 1 .. Len(connects) : f[j] = E(j)
  <2>1. f \in [1 .. Len(connects) -> Connect]  BY <1>2
  <2>2. f \in Seq(Connect)  BY <2>1, <1>1
  <2> QED BY <2>1, <2>2, <1>1
<1> HIDE DEF f
<1>5. /\ f \in Seq(Connect) /\ Len(f) = Len(connects)
      /\ \A j \in 1 .. Len(f) : f[j].result <= m
      /\ k \in 1 .. Len(connects) => f[k].result = x
  BY <1>2, <1>4
<1> QED BY <1>3, <1>5

LEMMA DoInBackgroundInv ==
  ASSUME ConnInv, NEW success \in BOOLEAN, DoInBackground(success), UNCHANGED ended
  PROVE  ConnInv'
<1> USE DEF ConnInv, Types
<1> DEFINE k == CHOOSE k \in Unfinished : \A j \in Unfinished : k <= j
           x == IF success THEN Len(socks) + 1 ELSE 0
           s == [st |-> "open", next |-> 0, avail |-> 0]
           m == IF success THEN Len(socks) + 1 ELSE Len(socks)
<1>1. /\ Unfinished # {} /\ connects' = [connects EXCEPT ![k].result = x]
      /\ socks' = IF success THEN Append(socks, s) ELSE socks
      /\ UNCHANGED <<screen, resumed, shown, threads, reader, polling, button, sock, box, at,
                     mixed, torn, nulled, overlapped>>
  BY DEF DoInBackground, front, thread, history
<1>2. Len(socks) \in Nat /\ x \in Nat /\ m \in Nat /\ x <= m /\ Len(socks) <= m
  BY DEF Sockets
<1>3. s \in Socket /\ s.st = "open" /\ s.next = 0 /\ s.avail = 0  BY DEF Socket
<1>4. success => x = Len(socks) + 1 /\ m = Len(socks) + 1  OBVIOUS
<1>5. ~success => x = 0 /\ m = Len(socks)  OBVIOUS
<1> HIDE DEF k, x, s, m
<1>6. /\ connects' \in Seq(Connect) /\ Len(connects') = Len(connects)
      /\ \A j \in 1 .. Len(connects') : connects'[j].result <= m
      /\ k \in 1 .. Len(connects) => connects'[k].result = x
  BY <1>1, <1>2, AnswerOne
<1>7. /\ socks' \in Seq(Socket) /\ Len(socks') = m
      /\ \A n \in 1 .. Len(socks) : socks'[n] = socks[n]
      /\ success => socks'[m] = s
  <2>1. CASE success
    <3>1. socks \in Seq(Socket) /\ socks' = Append(socks, s)  BY <2>1, <1>1 DEF Sockets
    <3> QED BY <3>1, <2>1, <1>3, <1>4, AppendProperties
  <2>2. CASE ~success  BY <2>2, <1>1, <1>5 DEF Sockets
  <2> QED BY <2>1, <2>2
<1>8. \A n \in 1 .. m : n \in 1 .. Len(socks) \/ (success /\ n = m)
  BY <1>2, <1>4, <1>5
<1>9. Sockets'
  <2>1. \A n \in 1 .. m : socks'[n].next + socks'[n].avail <= MaxBytes
    <3> SUFFICES ASSUME NEW n \in 1 .. m
                 PROVE  socks'[n].next + socks'[n].avail <= MaxBytes
      OBVIOUS
    <3>1. CASE n \in 1 .. Len(socks)  BY <3>1, <1>7 DEF Sockets
    <3>2. CASE success /\ n = m  BY <3>2, <1>3, <1>7, ConnectionAssumption
    <3> QED BY <3>1, <3>2, <1>8
  <2>2. sock' \in 0 .. m  BY <1>1, <1>2 DEF Sockets
  <2> QED BY <2>1, <2>2, <1>7 DEF Sockets
<1>10. Connects'  BY <1>6, <1>7 DEF Connects
<1>11. Placed'
  <2>1. 0 .. Len(socks) \subseteq 0 .. m  BY <1>2
  <2>2. at' \in [Threads -> [task : Tasks, step : Places, stream : 0 .. m, count : Nat]]
    BY <2>1, <1>1 DEF Placed
  <2> QED BY <2>2, <1>1, <1>7 DEF Placed
<1>12. Alone'
  <2> SUFFICES ASSUME ~overlapped PROVE Alone'  BY <1>1 DEF Alone
  <2>1. \A j \in Unfinished : j \in 1 .. Len(connects) /\ connects[j].result = -1
    BY DEF Unfinished, Connects
  <2>2. Len(connects) <= 1 /\ Len(connects) \in Nat  BY DEF Alone, Connects
  <2>3. Unfinished = {1} /\ Len(connects) = 1 /\ connects[1].result = -1
    <3>1. PICK j \in Unfinished : TRUE  BY <1>1
    <3>2. j \in 1 .. Len(connects) /\ connects[j].result = -1  BY <2>1
    <3>3. Len(connects) = 1 /\ j = 1
      <4> DEFINE l == Len(connects)
      <4>1. l \in Nat /\ l <= 1 /\ j \in 1 .. l  BY <3>2, <2>2
      <4> HIDE DEF l
      <4>2. l = 1 /\ j = 1  BY <4>1
      <4> QED BY <4>2 DEF l
    <3>4. \A i \in Unfinished : i = 1  BY <2>1, <3>3
    <3> QED BY <3>1, <3>2, <3>3, <3>4
  <2>4. k = 1
    <3>1. \E i \in Unfinished : \A j \in Unfinished : i <= j  BY <2>3
    <3>2. k \in Unfinished  BY <3>1 DEF k
    <3> QED BY <3>2, <2>3
  <2>5. connects'[1].result = x /\ Len(connects') = 1  BY <2>3, <2>4, <1>6
  <2>6. sock # 0 => ~Open(sock)
    <3>1. connects # << >>  BY <2>3, EmptySeq
    <3> QED BY <3>1 DEF Alone
  <2>7. \A n \in 1 .. Len(socks) : ~Open(n)
    <3> SUFFICES ASSUME NEW n \in 1 .. Len(socks), Open(n) PROVE FALSE  OBVIOUS
    <3>1. n # sock  BY <2>6
    <3>2. \E j \in 1 .. Len(connects) : connects[j].result = n  BY <3>1 DEF Alone
    <3> QED BY <3>2, <2>3
  <2>8. \A n \in 1 .. m : socks'[n].st = "open" => n = x
    <3> SUFFICES ASSUME NEW n \in 1 .. m, socks'[n].st = "open" PROVE n = x  OBVIOUS
    <3>1. ~(n \in 1 .. Len(socks))  BY <2>7, <1>7 DEF Open
    <3> QED BY <3>1, <1>4, <1>8
  <2>9. sock # 0 => socks'[sock].st # "open"
    <3> SUFFICES ASSUME sock # 0 PROVE socks'[sock].st # "open"  OBVIOUS
    <3>1. sock \in 1 .. Len(socks)  BY DEF Sockets
    <3> QED BY <3>1, <2>7, <1>7 DEF Open
  <2>10. \A n \in 1 .. m : socks'[n].st = "open"
                            => \E j \in 1 .. Len(connects') : connects'[j].result = n
    <3>1. 1 \in 1 .. Len(connects')  BY <2>5
    <3> QED BY <3>1, <2>5, <2>8
  <2>11. Len(connects') <= 1  BY <2>5
  <2> QED BY <2>9, <2>10, <2>11, <1>1, <1>7 DEF Alone, Open
<1>13. Whole'
  <2>1. \A n \in 1 .. m : n \in 1 .. Len(socks) \/ socks'[n].next = 0
    BY <1>3, <1>7, <1>8
  <2>2. \A n \in 1 .. Len(socks) : socks[n].avail \in Nat  BY SocketFields
  <2>3. \A n \in 1 .. Len(socks) : socks[n].avail <= socks'[n].avail  BY <2>2, <1>7
  <2> QED BY <2>1, <2>2, <2>3, <1>1, <1>2, <1>7, WholeKept
<1>14. Screens' /\ Tested'  BY <1>1 DEF Screens, Tested
<1> QED BY <1>9, <1>10, <1>11, <1>12, <1>13, <1>14

LEMMA ReceiveInv ==
  ASSUME ConnInv, NEW n \in DOMAIN socks, Receive(n), UNCHANGED ended
  PROVE  ConnInv'
<1> USE DEF ConnInv, Types
<1> DEFINE s == [socks[n] EXCEPT !.avail = @ + 1]
<1>1. n \in 1 .. Len(socks)  BY DEF Sockets
<1>2. socks[n] \in Socket /\ socks[n].next \in Nat /\ socks[n].avail \in Nat
  BY <1>1, SocketFields
<1>3. s \in Socket /\ s.st = socks[n].st /\ s.next = socks[n].next
      /\ s.avail = socks[n].avail + 1
  BY <1>2 DEF Socket
<1>4. s.next + s.avail <= MaxBytes
  BY <1>2, <1>3, ConnectionAssumption DEF Receive
<1>5. socks' = [socks EXCEPT ![n] = s]  BY DEF Receive
<1> HIDE DEF s
<1>6. /\ Sockets' /\ Len(socks') = Len(socks)
      /\ \A j \in 1 .. Len(socks) : socks'[j] = IF j = n THEN s ELSE socks[j]
  BY <1>1, <1>3, <1>4, <1>5, OneSocket DEF Receive
<1>7. Alone'  BY <1>3, <1>6, AloneKept DEF Receive, front, history
<1>8. Whole'
  <2>1. socks[n].avail <= s.avail  BY <1>2, <1>3
  <2>2. UNCHANGED <<at, mixed, torn>>  BY DEF Receive, thread
  <2> QED BY <2>1, <2>2, <1>1, <1>3, <1>6, OneWhole
<1>9. Screens' /\ Connects' /\ Placed' /\ Tested'
  BY <1>6 DEF Receive, front, thread, history, Screens, Connects, Placed, Tested
<1> QED BY <1>6, <1>7, <1>8, <1>9

LEMMA ResetInv ==
  ASSUME ConnInv, NEW n \in DOMAIN socks, Reset(n), UNCHANGED ended
  PROVE  ConnInv'
<1> USE DEF ConnInv, Types
<1> DEFINE s == Gone("reset")
<1>1. n \in 1 .. Len(socks)  BY DEF Sockets
<1>2. s \in Socket /\ s.st = "reset" /\ s.next = 0 /\ s.next + s.avail <= MaxBytes
  BY GoneSocket, ConnectionAssumption
<1>3. socks' = [socks EXCEPT ![n] = s] /\ sock' = sock  BY DEF Reset
<1> HIDE DEF s
<1>4. /\ Sockets' /\ Len(socks') = Len(socks)
      /\ \A j \in 1 .. Len(socks) : socks'[j] = IF j = n THEN s ELSE socks[j]
  BY <1>1, <1>2, <1>3, OneSocket
<1>5. Alone'  BY <1>2, <1>4, AloneKept DEF Reset, front, history
<1>6. Whole'  BY <1>1, <1>2, <1>4, OneWhole DEF Reset, thread
<1>7. Screens' /\ Connects' /\ Placed' /\ Tested'
  BY <1>4 DEF Reset, front, thread, history, Screens, Connects, Placed, Tested
<1> QED BY <1>4, <1>5, <1>6, <1>7

---------------------------------------------------------------------------
(* The timer threads *)

\* Where a thread can be.
At == [task : Tasks, step : Places, stream : 0 .. Len(socks), count : Nat]

\* One thread moves.
LEMMA OneThread ==
  ASSUME Placed, NEW t \in Threads, NEW r \in At, at' = [at EXCEPT ![t] = r],
         r.step # "idle" => r.task # "none",
         r.step \in {"available", "read"} => r.stream # 0,
         Len(socks') = Len(socks), ended' = ended
  PROVE  Placed' /\ at'[t] = r /\ \A u \in Threads : u # t => at'[u] = at[u]
<1>1. at \in [Threads -> At]  BY DEF Placed, At
<1>2. at' \in [Threads -> At] /\ \A u \in Threads : at'[u] = IF u = t THEN r ELSE at[u]
  BY <1>1
<1>3. \A u \in Threads :
        /\ at'[u].step # "idle" => at'[u].task # "none"
        /\ at'[u].step \in {"available", "read"} => at'[u].stream # 0
  BY <1>2 DEF Placed
<1>4. Placed'  BY <1>2, <1>3 DEF Placed, At
<1> QED BY <1>2, <1>4

LEMMA IdleThread ==
  ASSUME Sockets, Placed, NEW t \in Threads, Done(t), Len(socks') = Len(socks), ended' = ended
  PROVE  Placed' /\ at'[t].step = "idle" /\ \A u \in Threads : u # t => at'[u] = at[u]
<1>1. Idle \in At /\ Idle.step = "idle"  BY DEF Idle, At, Tasks, Places, Sockets
<1> QED BY <1>1, OneThread DEF Done

LEMMA ThreadGoesOn ==
  ASSUME Sockets, Placed, NEW t \in Threads, NEW step \in Places,
         NEW stream \in 0 .. Len(socks), NEW count \in Nat,
         GoOn(t, step, stream, count), at[t].step # "idle",
         Len(socks') = Len(socks), ended' = ended,
         step \in {"available", "read"} => stream # 0
  PROVE  /\ Placed' /\ \A u \in Threads : u # t => at'[u] = at[u]
         /\ at'[t] = [task |-> at[t].task, step |-> step, stream |-> stream, count |-> count]
<1> DEFINE r == [task |-> at[t].task, step |-> step, stream |-> stream, count |-> count]
<1>1. at[t] \in At /\ at[t].task # "none"  BY DEF Placed, At
<1>2. r \in At /\ r.step = step /\ r.task = at[t].task /\ r.stream = stream
  BY <1>1 DEF At
<1>3. at' = [at EXCEPT ![t] = r]  BY DEF GoOn
<1> HIDE DEF r
<1>4. Placed' /\ at'[t] = r /\ \A u \in Threads : u # t => at'[u] = at[u]
  BY <1>1, <1>2, <1>3, OneThread
<1> QED BY <1>4 DEF r

\* Steps that only move a thread, and not to its reading.
LEMMA ThreadMoves ==
  ASSUME ConnInv, UNCHANGED <<front, link, mixed, torn, history>>, Placed', Tested',
         \A u \in Threads : at'[u].step = "read" => at'[u] = at[u]
  PROVE  ConnInv'
<1> USE DEF ConnInv, Types
<1>1. Alone'  BY AloneKept DEF front, link, history
<1>2. Whole'  BY WholeStays DEF link
<1>3. Screens' /\ Sockets' /\ Connects'  BY DEF front, link, Screens, Sockets, Connects
<1> QED BY <1>1, <1>2, <1>3

LEMMA FireInv ==
  ASSUME ConnInv, NEW t \in Threads, NEW task \in {"poll", "read"}, Fire(t, task)
  PROVE  ConnInv'
<1> USE DEF ConnInv, Types
<1> DEFINE r == [task |-> task, step |-> "null", stream |-> 0, count |-> 0]
<1>1. at' = [at EXCEPT ![t] = r] /\ UNCHANGED <<front, link, ended, mixed, torn, history>>
  BY DEF Fire, FirstTest
<1>2. r \in At /\ r.step = "null" /\ r.task # "none"
  BY DEF At, Tasks, Places, Sockets
<1> HIDE DEF r
<1>3. Placed' /\ at'[t] = r /\ \A u \in Threads : u # t => at'[u] = at[u]
  BY <1>1, <1>2, OneThread DEF link
<1>4. Tested'
  <2>1. \A u \in Threads : at'[u].step \notin {"idle", "null"}
                             => at[u].step \notin {"idle", "null"}
    BY <1>2, <1>3
  <2> QED BY <2>1, <1>1 DEF Tested, link, history
<1>5. \A u \in Threads : at'[u].step = "read" => at'[u] = at[u]  BY <1>2, <1>3
<1> QED BY <1>1, <1>3, <1>4, <1>5, ThreadMoves

\* The app dies only where app.sock has become null behind a thread's first test.
LEMMA DiesNulled ==
  ASSUME ConnInv, NEW t \in Threads, sock = 0, at[t].step \notin {"idle", "null"}, Dies,
         UNCHANGED <<front, link, mixed, torn, history>>
  PROVE  ConnInv'
<1> USE DEF ConnInv, Types
<1>1. nulled  BY DEF Tested
<1>2. Tested'  BY <1>1 DEF Tested, history
<1>3. Placed'  BY DEF Dies, Placed, link
<1>4. \A u \in Threads : at'[u] = at[u]  BY DEF Dies
<1> QED BY <1>2, <1>3, <1>4, ThreadMoves

LEMMA DoneInv ==
  ASSUME ConnInv, NEW t \in Threads, Done(t), Lives,
         UNCHANGED <<front, link, mixed, torn, history>>
  PROVE  ConnInv'
<1> USE DEF ConnInv, Types
<1>1. Placed' /\ at'[t].step = "idle" /\ \A u \in Threads : u # t => at'[u] = at[u]
  BY IdleThread DEF link, Lives
<1>2. Tested'
  <2>1. \A u \in Threads : at'[u].step \notin {"idle", "null"}
                             => at[u].step \notin {"idle", "null"}
    BY <1>1
  <2> QED BY <2>1 DEF Tested, link, history, Lives
<1>3. \A u \in Threads : at'[u].step = "read" => at'[u] = at[u]  BY <1>1
<1> QED BY <1>1, <1>2, <1>3, ThreadMoves

\* A thread goes on where app.sock is not null, or is known to have become so.
LEMMA StillTested ==
  ASSUME Tested, NEW t \in Threads, \A u \in Threads : u # t => at'[u] = at[u],
         at[t].step \notin {"idle", "null"} \/ (sock # 0 /\ at[t].step = "null"),
         UNCHANGED <<sock, nulled, ended>>
  PROVE  Tested'
<1>1. CASE sock # 0  BY <1>1 DEF Tested
<1>2. CASE at[t].step \notin {"idle", "null"}
  <2>1. sock = 0 \/ ended = "timer" => nulled  BY <1>2 DEF Tested
  <2> QED BY <2>1 DEF Tested
<1> QED BY <1>1, <1>2

LEMMA GoOnInv ==
  ASSUME ConnInv, NEW t \in Threads, NEW step \in Places \ {"read"},
         NEW stream \in 0 .. Len(socks), GoOn(t, step, stream, 0),
         at[t].step # "idle", Lives, UNCHANGED <<front, link, mixed, torn, history>>,
         step = "available" => stream # 0,
         sock # 0 \/ at[t].step # "null"
  PROVE  ConnInv'
<1> USE DEF ConnInv, Types
<1>1. Placed' /\ at'[t].step = step /\ \A u \in Threads : u # t => at'[u] = at[u]
  <2>1. step \in Places /\ Len(socks') = Len(socks) /\ ended' = ended
        /\ (step \in {"available", "read"} => stream # 0)
    BY DEF link, Lives
  <2>2. /\ Placed' /\ \A u \in Threads : u # t => at'[u] = at[u]
        /\ at'[t] = [task |-> at[t].task, step |-> step, stream |-> stream, count |-> 0]
    BY <2>1, ThreadGoesOn
  <2> QED BY <2>2
<1>2. Tested'  BY <1>1, StillTested DEF link, history, Lives
<1>3. \A u \in Threads : at'[u].step = "read" => at'[u] = at[u]  BY <1>1
<1> QED BY <1>1, <1>2, <1>3, ThreadMoves

LEMMA TestInv ==
  ASSUME ConnInv, NEW t \in Threads, Test(t)
  PROVE  ConnInv'
<1> USE DEF ConnInv, Types
<1>1. UNCHANGED <<front, link, mixed, torn, history>>  BY DEF Test
<1>2. 0 \in 0 .. Len(socks)  BY DEF Sockets
<1>3. CASE Done(t) /\ Lives  BY <1>1, <1>3, DoneInv
<1>4. CASE at[t].step \in {"connected", "closed"} /\ sock = 0 /\ Dies
  BY <1>1, <1>4, DiesNulled
<1>5. CASE at[t].step = "null" /\ sock # 0 /\ GoOn(t, "connected", 0, 0) /\ Lives
  BY <1>1, <1>2, <1>5, GoOnInv DEF Places
<1>6. CASE at[t].step = "connected" /\ sock # 0 /\ GoOn(t, "closed", 0, 0) /\ Lives
  BY <1>1, <1>2, <1>6, GoOnInv DEF Places
<1>7. CASE at[t].step = "closed" /\ sock # 0 /\ Usable(sock) /\ GoOn(t, "input", 0, 0) /\ Lives
  BY <1>1, <1>2, <1>7, GoOnInv DEF Places
<1> QED BY <1>3, <1>4, <1>5, <1>6, <1>7 DEF Test

LEMMA AfterInputInv ==
  ASSUME ConnInv, NEW t \in Threads, at[t].step \notin {"idle", "null"}, AfterInput(t), Lives,
         UNCHANGED <<front, link, mixed, torn, history>>
  PROVE  ConnInv'
<1>1. 0 \in 0 .. Len(socks)  BY DEF ConnInv, Types, Sockets
<1>2. CASE Done(t)  BY <1>2, DoneInv
<1>3. CASE GoOn(t, "pending", 0, 0)  BY <1>1, <1>3, GoOnInv DEF Places
<1> QED BY <1>2, <1>3 DEF AfterInput

LEMMA GetInputStreamInv ==
  ASSUME ConnInv, NEW t \in Threads, GetInputStream(t)
  PROVE  ConnInv'
<1>1. UNCHANGED <<front, link, mixed, torn, history>> /\ at[t].step = "input"
  BY DEF GetInputStream
<1>2. sock \in 0 .. Len(socks)  BY DEF ConnInv, Types, Sockets
<1>3. CASE sock = 0 /\ Dies  BY <1>1, <1>3, DiesNulled
<1>4. CASE AfterInput(t) /\ Lives  BY <1>1, <1>4, AfterInputInv
<1>5. CASE sock # 0 /\ GoOn(t, "available", sock, 0) /\ Lives
  BY <1>1, <1>2, <1>5, GoOnInv DEF Places
<1> QED BY <1>3, <1>4, <1>5 DEF GetInputStream

LEMMA GetOutputStreamInv ==
  ASSUME ConnInv, NEW t \in Threads, GetOutputStream(t)
  PROVE  ConnInv'
<1>1. UNCHANGED <<front, link, mixed, torn, history>> /\ at[t].step = "pending"
  BY DEF GetOutputStream
<1>2. CASE sock = 0 /\ Dies  BY <1>1, <1>2, DiesNulled
<1>3. CASE Done(t) /\ Lives  BY <1>1, <1>3, DoneInv
<1> QED BY <1>2, <1>3 DEF GetOutputStream

\* A thread that has got a stream.
LEMMA AtStream ==
  ASSUME ConnInv, NEW t \in Threads, at[t].step \in {"available", "read"}
  PROVE  /\ at[t].stream \in 1 .. Len(socks) /\ at[t].task \in {"poll", "read"}
         /\ at[t].count \in Nat
         /\ socks[at[t].stream].next \in Nat /\ socks[at[t].stream].avail \in Nat
<1> USE DEF ConnInv, Types
<1>1. at[t] \in At  BY DEF Placed, At
<1>2. at[t].stream # 0 /\ at[t].task # "none"  BY DEF Placed
<1>3. at[t].stream \in 1 .. Len(socks)  BY <1>1, <1>2 DEF At, Sockets
<1> QED BY <1>1, <1>2, <1>3, SocketFields DEF At, Tasks

\* The answer of available() holds for a thread that is alone with its socket.
LEMMA AskAvailableInv ==
  ASSUME ConnInv, NEW t \in Threads, AskAvailable(t)
  PROVE  ConnInv'
<1> USE DEF ConnInv, Types
<1> DEFINE n == at[t].stream
           wanted == IF Open(n) THEN Wanted(at[t].task, socks[n].avail) ELSE 0
<1>1. at[t].step = "available" /\ UNCHANGED <<front, link, torn, ended, history>>
  BY DEF AskAvailable
<1>2. /\ n \in 1 .. Len(socks) /\ at[t].task \in {"poll", "read"}
      /\ socks[n].avail \in Nat
  BY <1>1, AtStream
<1>3. /\ wanted \in Nat /\ wanted <= socks[n].avail
      /\ wanted # 0 => (at[t].task = "poll" => wanted = FrameLen)
  BY <1>2, ConnectionAssumption DEF Wanted
<1>4. CASE wanted = 0
  <2>1. AfterInput(t) /\ UNCHANGED mixed  BY <1>4 DEF AskAvailable
  <2> QED BY <2>1, <1>1, AfterInputInv DEF Lives
<1>5. CASE wanted # 0
  <2>1. /\ GoOn(t, "read", n, wanted)
        /\ mixed' = (mixed \/ \E u \in Threads : at[u].step = "read" /\ at[u].stream = n)
    BY <1>5 DEF AskAvailable
  <2> HIDE DEF wanted
  <2>2. "read" \in Places /\ n \in 0 .. Len(socks) /\ n # 0  BY <1>2 DEF Places, Sockets
  <2> DEFINE r == [task |-> at[t].task, step |-> "read", stream |-> n, count |-> wanted]
  <2>3. Placed' /\ at'[t] = r /\ \A u \in Threads : u # t => at'[u] = at[u]
    BY <2>1, <2>2, <1>1, <1>3, ThreadGoesOn DEF link
  <2>4. r.task = at[t].task /\ r.step = "read" /\ r.stream = n /\ r.count = wanted  OBVIOUS
  <2> HIDE DEF r, n
  <2>5. Tested'  BY <2>3, <1>1, StillTested DEF link, history
  <2>6. Alone'  BY <1>1, AloneKept DEF front, link, history
  <2>7. Screens' /\ Sockets' /\ Connects'
    BY <1>1 DEF front, link, Screens, Sockets, Connects
  <2>8. socks' = socks /\ torn' = torn  BY <1>1 DEF link
  <2>9. Whole'
    <3> SUFFICES ASSUME ~mixed' PROVE Aligned' /\ Promised' /\ Single'
      BY <2>8 DEF Whole
    <3>1. ~mixed /\ \A u \in Threads : ~(at[u].step = "read" /\ at[u].stream = n)
      BY <2>1
    <3>2. Aligned /\ Promised /\ Single  BY <3>1 DEF Whole
    <3>3. Aligned'  BY <3>2, <2>8 DEF Aligned
    <3>4. Promised'
      <4> SUFFICES ASSUME NEW u \in Threads, at'[u].step = "read"
                   PROVE  /\ at'[u].task = "poll" => at'[u].count = FrameLen
                          /\ socks[at'[u].stream].st = "open"
                               => at'[u].count <= socks[at'[u].stream].avail
        BY <2>8 DEF Promised
      <4>1. CASE u = t  BY <4>1, <2>3, <2>4, <1>3, <1>5
      <4>2. CASE u # t  BY <4>2, <2>3, <3>2 DEF Promised
      <4> QED BY <4>1, <4>2
    <3>5. Single'
      <4> SUFFICES ASSUME NEW u \in Threads, NEW v \in Threads, at'[u].step = "read",
                          at'[v].step = "read", at'[u].stream = at'[v].stream
                   PROVE  u = v
        BY DEF Single
      <4>1. CASE u # t /\ v # t  BY <4>1, <2>3, <3>2 DEF Single
      <4>2. CASE u = t /\ v # t  BY <4>2, <2>3, <2>4, <3>1
      <4>3. CASE u # t /\ v = t  BY <4>3, <2>3, <2>4, <3>1
      <4> QED BY <4>1, <4>2, <4>3
    <3> QED BY <3>3, <3>4, <3>5
  <2> QED BY <2>3, <2>5, <2>6, <2>7, <2>9
<1> QED BY <1>4, <1>5

\* What a read takes: a poll that is alone with its socket a whole instruction.
LEMMA ReadBytesInv ==
  ASSUME ConnInv, NEW t \in Threads, ReadBytes(t)
  PROVE  ConnInv'
<1> USE DEF ConnInv, Types
<1> DEFINE n == at[t].stream
           count == Least(at[t].count, socks[n].avail)
           s == [socks[n] EXCEPT !.next = @ + count, !.avail = @ - count]
<1>1. /\ at[t].step = "read" /\ AfterInput(t)
      /\ UNCHANGED <<front, sock, connects, box, ended, history>>
  BY DEF ReadBytes
<1>2. /\ n \in 1 .. Len(socks) /\ at[t].task \in {"poll", "read"} /\ at[t].count \in Nat
      /\ socks[n].next \in Nat /\ socks[n].avail \in Nat
  BY <1>1, AtStream
<1>3. CASE ~Open(n)
  <2>1. UNCHANGED <<socks, mixed, torn>>  BY <1>3 DEF ReadBytes
  <2> QED BY <2>1, <1>1, AfterInputInv DEF Lives, link
<1>4. CASE Open(n)
  <2>1. /\ socks' = [socks EXCEPT ![n].next = @ + count, ![n].avail = @ - count]
        /\ torn' = (torn \/ (~mixed /\ at[t].task = "poll"
                               /\ ~(count = FrameLen /\ socks[n].next % FrameLen = 0)))
        /\ mixed' = (mixed \/ (at[t].task = "read" /\ count % FrameLen # 0))
    BY <1>4 DEF ReadBytes
  <2>2. /\ count \in Nat /\ count <= socks[n].avail
        /\ at[t].count <= socks[n].avail => count = at[t].count
    BY <1>2 DEF Least
  <2>3. socks' = [socks EXCEPT ![n] = s]
    BY <2>1, <1>2 DEF Sockets, Socket
  <2> HIDE DEF count
  <2>4. s \in Socket /\ s.st = socks[n].st /\ s.next = socks[n].next + count
        /\ s.avail = socks[n].avail - count
    <3> DEFINE q == socks[n]
               more == q.next + count
               rest == q.avail - count
    <3>1. q \in Socket /\ more \in Nat /\ rest \in Nat  BY <1>2, <2>2, SocketFields
    <3>2. s = [q EXCEPT !.next = more, !.avail = rest]  OBVIOUS
    <3> HIDE DEF q, more, rest, s
    <3>3. s \in Socket /\ s.st = q.st /\ s.next = more /\ s.avail = rest
      BY <3>1, <3>2 DEF Socket
    <3> QED BY <3>3 DEF q, more, rest
  <2>5. s.next + s.avail <= MaxBytes
    <3>1. socks[n].next + socks[n].avail <= MaxBytes  BY <1>2 DEF Sockets
    <3> QED BY <3>1, <1>2, <2>2, <2>4
  <2> HIDE DEF s, n
  <2>6. /\ Sockets' /\ Len(socks') = Len(socks)
        /\ \A j \in 1 .. Len(socks) : socks'[j] = IF j = n THEN s ELSE socks[j]
    BY <1>1, <1>2, <2>3, <2>4, <2>5, OneSocket
  <2>7. Alone'  BY <1>1, <2>4, <2>6, AloneKept DEF front, history
  <2>8. /\ Placed' /\ at'[t].step # "read" /\ at'[t].step # "null"
        /\ \A u \in Threads : u # t => at'[u] = at[u]
    <3>1. CASE Done(t)  BY <3>1, <1>1, <2>6, IdleThread
    <3>2. CASE GoOn(t, "pending", 0, 0)
      <4>1. "pending" \in Places /\ 0 \in 0 .. Len(socks)  BY DEF Places, Sockets
      <4>2. /\ Placed' /\ \A u \in Threads : u # t => at'[u] = at[u]
            /\ at'[t] = [task |-> at[t].task, step |-> "pending", stream |-> 0, count |-> 0]
        BY <3>2, <4>1, <1>1, <2>6, ThreadGoesOn
      <4> QED BY <4>2
    <3> QED BY <3>1, <3>2, <1>1 DEF AfterInput
  <2>9. Tested'  BY <1>1, <2>8, StillTested DEF history
  <2>10. ~mixed => /\ (socks[n].next % FrameLen) = 0
                   /\ at[t].task = "poll" => count = FrameLen
    <3> SUFFICES ASSUME ~mixed
                 PROVE  /\ (socks[n].next % FrameLen) = 0
                        /\ at[t].task = "poll" => count = FrameLen
      OBVIOUS
    <3>1. Aligned /\ Promised  BY DEF Whole
    <3>2. (socks[n].next % FrameLen) = 0  BY <3>1, <1>2 DEF Aligned
    <3>3. /\ at[t].task = "poll" => at[t].count = FrameLen
          /\ at[t].count <= socks[n].avail
      BY <3>1, <1>1, <1>4 DEF Promised, Open, n
    <3> QED BY <3>2, <3>3, <2>2
  <2>11. Whole'
    <3>1. torn' = FALSE
      <4>1. torn = FALSE  BY DEF Whole
      <4> QED BY <4>1, <2>1, <2>10
    <3> SUFFICES ASSUME ~mixed' PROVE Aligned' /\ Promised' /\ Single'
      BY <3>1 DEF Whole
    <3>2. ~mixed /\ (at[t].task = "read" => (count % FrameLen) = 0)  BY <2>1
    <3>3. Aligned /\ Promised /\ Single  BY <3>2 DEF Whole
    <3>4. (count % FrameLen) = 0
      <4>1. CASE at[t].task = "poll"  BY <4>1, <3>2, <2>10, ZeroMultiple
      <4>2. CASE at[t].task = "read"  BY <4>2, <3>2
      <4> QED BY <4>1, <4>2, <1>2
    <3>5. (s.next % FrameLen) = 0
      <4>1. (socks[n].next % FrameLen) = 0  BY <3>2, <2>10
      <4>2. socks[n].next \in Nat /\ count \in Nat  BY <1>2, <2>2 DEF n
      <4> QED BY <4>1, <4>2, <3>4, <2>4, Multiples
    <3>6. Aligned'  BY <3>3, <3>5, <2>6 DEF Aligned
    <3>7. \A u \in Threads : at'[u].step = "read" =>
            u # t /\ at'[u] = at[u] /\ at[u].stream # n
      BY <2>8, <3>3, <1>1 DEF Single, n
    <3>8. Promised'
      <4> SUFFICES ASSUME NEW u \in Threads, at'[u].step = "read"
                   PROVE  /\ at'[u].task = "poll" => at'[u].count = FrameLen
                          /\ socks'[at'[u].stream].st = "open"
                               => at'[u].count <= socks'[at'[u].stream].avail
        BY DEF Promised
      <4>1. at'[u] = at[u] /\ at[u].stream # n  BY <3>7
      <4>2. at[u].stream \in 1 .. Len(socks)  BY <4>1, AtStream
      <4>3. socks'[at[u].stream] = socks[at[u].stream]  BY <4>1, <4>2, <2>6
      <4> QED BY <4>1, <4>3, <3>3 DEF Promised
    <3>9. Single'  BY <3>3, <3>7 DEF Single
    <3> QED BY <3>6, <3>8, <3>9
  <2>12. Screens' /\ Connects'  BY <1>1, <2>6 DEF front, Screens, Connects
  <2> QED BY <2>6, <2>7, <2>8, <2>9, <2>11, <2>12
<1> QED BY <1>3, <1>4
---------------------------------------------------------------------------
(* The theorems *)

LEMMA InitConn == ConnInit => ConnInv
<1> SUFFICES ASSUME ConnInit PROVE ConnInv  OBVIOUS
<1>1. << >> \in Seq(Socket) /\ << >> \in Seq(Connect) /\ Len(<< >>) = 0  BY EmptySeq
<1>2. Screens
  <2>1. 0 \in 0 .. MaxThreads  BY ConnectionAssumption
  <2>2. threads = 0 /\ reader = {} /\ polling = {} /\ screen = "main" /\ ~resumed
    BY DEF ConnInit
  <2>3. threads \in 0 .. MaxThreads  BY <2>1, <2>2
  <2> QED BY <2>2, <2>3 DEF ConnInit, Screens
<1>3. Sockets /\ Connects  BY <1>1 DEF ConnInit, Sockets, Connects
<1>4. Placed
  BY <1>1 DEF ConnInit, Placed, Idle, Tasks, Places
<1>5. \A t \in Threads : at[t].step = "idle"  BY DEF ConnInit, Idle
<1>6. Tested  BY <1>5 DEF ConnInit, Tested
<1>7. Alone  BY <1>1 DEF ConnInit, Alone
<1>8. Whole  BY <1>1, <1>5 DEF ConnInit, Whole, Aligned, Promised, Single
<1> QED BY <1>2, <1>3, <1>4, <1>6, <1>7, <1>8 DEF ConnInv, Types

LEMMA NextConn == ConnInv /\ [ConnNext]_connVars => ConnInv'
<1> SUFFICES ASSUME ConnInv, [ConnNext]_connVars PROVE ConnInv'  OBVIOUS
<1>1. CASE CloseSocket  BY <1>1, CloseSocketInv
<1>2. CASE SendMessage  BY <1>2, SendMessageInv
<1>3. ASSUME UNCHANGED ended, NEW next \in {"main", "connect"}, Pause(next) PROVE ConnInv'
  BY <1>3, PauseInv
<1>4. CASE UNCHANGED ended /\ ResumeMain  BY <1>4, ResumeMainInv
<1>5. CASE UNCHANGED ended /\ ResumeConnect  BY <1>5, ResumeConnectInv
<1>6. CASE UNCHANGED ended /\ OpenSocket  BY <1>6, OpenSocketInv
<1>7. CASE UNCHANGED ended /\ PostExecute  BY <1>7, PostExecuteInv
<1>8. CASE UNCHANGED ended /\ CreateMain  BY <1>8, CreateMainInv
<1>9. CASE Handlers
  BY <1>9, <1>1, <1>2, <1>3, <1>4, <1>5, <1>6, <1>7, <1>8 DEF Handlers
<1>10. CASE Network
  <2>1. ASSUME NEW success \in BOOLEAN, DoInBackground(success), UNCHANGED ended
        PROVE  ConnInv'
    BY <2>1, DoInBackgroundInv
  <2>2. ASSUME NEW n \in DOMAIN socks, Receive(n), UNCHANGED ended PROVE ConnInv'
    BY <2>2, ReceiveInv
  <2>3. ASSUME NEW n \in DOMAIN socks, Reset(n), UNCHANGED ended PROVE ConnInv'
    BY <2>3, ResetInv
  <2> QED BY <1>10, <2>1, <2>2, <2>3 DEF Network
<1>11. ASSUME NEW t \in Threads, Thread(t) PROVE ConnInv'
  <2>1. ASSUME NEW task \in {"poll", "read"}, Fire(t, task) PROVE ConnInv'
    BY <2>1, FireInv
  <2> QED BY <1>11, <2>1, TestInv, GetInputStreamInv, AskAvailableInv, ReadBytesInv,
             GetOutputStreamInv DEF Thread
<1>12. CASE UNCHANGED connVars
  <2>1. UNCHANGED <<front, link, mixed, torn, history, at, ended>>
    BY <1>12 DEF connVars, thread
  <2>2. Placed' /\ Tested'
    BY <2>1 DEF ConnInv, Types, Placed, Tested, link, history
  <2> QED BY <2>1, <2>2, ThreadMoves
<1> QED BY <1>9, <1>10, <1>11, <1>12 DEF ConnNext

THEOREM ConnInvariant == ConnSpec => []ConnInv
<1>1. ConnInit => ConnInv  BY InitConn
<1>2. ConnInv /\ [ConnNext]_connVars => ConnInv'  BY NextConn
<1> QED BY <1>1, <1>2, PTL DEF ConnSpec

\* A timer thread, which reads app.sock five times without a lock, dies only if a
\* connect has failed beside a socket in use (MainActivity.java:326, 332,
\* 348; ConnectScreen.java:311-316).
THEOREM TimerSurvivesAlways == ConnSpec => []TimerSurvives
<1>1. ConnInv => TimerSurvives  BY DEF ConnInv, Tested, TimerSurvives
<1> QED BY <1>1, ConnInvariant, PTL

\* As long as connects neither overlap nor are answered while the app is left,
\* no socket stays open without the app (MainActivity.java:137, 283-300).
THEOREM SocketsKeptAlways == ConnSpec => []SocketsKept
<1>1. ASSUME ConnInv PROVE ConnTypeOK
  <2> USE <1>1 DEF ConnInv, Types
  <2>1. DOMAIN socks = 1 .. Len(socks) /\ DOMAIN connects = 1 .. Len(connects)
    BY DEF Sockets, Connects
  <2>2. \A n \in DOMAIN socks :
          socks[n].st \in {"open", "reset", "closed"} /\ socks[n].avail >= 0
          /\ socks[n].next + socks[n].avail <= MaxBytes
    BY <2>1, SocketFields DEF Sockets
  <2>3. \A k \in DOMAIN connects : connects[k].result \in -1 .. Len(socks)
    <3> SUFFICES ASSUME NEW k \in 1 .. Len(connects)
                 PROVE  connects[k].result \in -1 .. Len(socks)
      BY <2>1
    <3>1. connects[k] \in Connect  BY ElementOfSeq DEF Connects
    <3>2. connects[k].result \in Nat \cup {-1}  BY <3>1 DEF Connect
    <3>3. connects[k].result <= Len(socks)  BY DEF Connects
    <3> QED BY <3>2, <3>3 DEF Sockets
  <2>4. \A t \in Threads : at[t].stream \in 0 .. Len(socks)  BY DEF Placed
  <2>5. sock \in 0 .. Len(socks) /\ ended \in {"no", "button", "timer"}
    BY DEF Sockets, Placed
  <2>6. /\ screen \in {"main", "connect"} /\ {resumed, shown, button, box} \subseteq BOOLEAN
        /\ threads \in 0 .. MaxThreads /\ reader \cup polling \subseteq 1 .. threads
    BY DEF Screens
  <2> QED BY <2>2, <2>3, <2>4, <2>5, <2>6 DEF ConnTypeOK
<1>2. ASSUME ConnInv PROVE NoOrphans
  <2> USE <1>2 DEF ConnInv, Types
  <2> SUFFICES ASSUME ~overlapped, NEW n \in Orphans PROVE FALSE  BY DEF NoOrphans
  <2>1. DOMAIN socks = 1 .. Len(socks) /\ DOMAIN connects = 1 .. Len(connects)
    BY DEF Sockets, Connects
  <2>2. n \in 1 .. Len(socks) /\ Open(n) /\ n # sock
        /\ \A k \in 1 .. Len(connects) : connects[k].result # n
    BY <2>1 DEF Orphans
  <2> QED BY <2>2 DEF Alone
<1>3. ConnInv => SocketsKept  BY <1>1, <1>2 DEF SocketsKept
<1> QED BY <1>3, ConnInvariant, PTL

\* However many MainActivities, and so timer threads, there are: a poll reads one
\* instruction that was sent, until the ConnectScreen's reader has taken a part of
\* one or two threads have had an answer of available() for one socket at once
\* (MainActivity.java:70, 336-339, ConnectScreen.java:121-122, 322-325).
THEOREM FramesWholeAlways == ConnSpec => []FramesWhole
<1>1. ConnInv => FramesWhole  BY DEF ConnInv, Whole, FramesWhole
<1> QED BY <1>1, ConnInvariant, PTL
=============================================================================
