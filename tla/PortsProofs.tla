----------------------------- MODULE PortsProofs -----------------------------
(***************************************************************************)
(* The drivers of the serial ports, for every depth of FIFO and length of  *)
(* call: RS232 in both directions, the configuration of the audio and      *)
(* video chips, the audio FIFOs, and the keyboard with its tables of keys. *)
(* Each has an inductive invariant of its own; at the end they are joined  *)
(* for the behaviours of BoardParts.                                       *)
(***************************************************************************)
EXTENDS BoardParts, SequenceTheorems, FiniteSetTheorems, WellFoundedInduction, TLAPS

---------------------------------------------------------------------------
(* Sequences *)

LEMMA AppendIs ==
  ASSUME NEW S, NEW s \in Seq(S), NEW x \in S
  PROVE  /\ Append(s, x) \in Seq(S) /\ Len(Append(s, x)) = Len(s) + 1
         /\ \A i \in 1 .. Len(s) : Append(s, x)[i] = s[i]
         /\ Append(s, x)[Len(s) + 1] = x
         /\ Range(Append(s, x)) = Range(s) \cup {x}
<1>1. /\ Append(s, x) \in Seq(S) /\ Len(Append(s, x)) = Len(s) + 1
      /\ \A i \in 1 .. Len(s) : Append(s, x)[i] = s[i]
      /\ Append(s, x)[Len(s) + 1] = x
  BY AppendProperties
<1>2. DOMAIN s = 1 .. Len(s) /\ DOMAIN Append(s, x) = 1 .. Len(s) + 1 /\ Len(s) \in Nat
  BY <1>1, LenProperties
<1>3. Range(Append(s, x)) = Range(s) \cup {x}
  BY <1>1, <1>2 DEF Range
<1> QED BY <1>1, <1>3

LEMMA TailIs ==
  ASSUME NEW S, NEW s \in Seq(S), s # << >>
  PROVE  /\ Head(s) \in S /\ Head(s) = s[1] /\ Tail(s) \in Seq(S)
         /\ Len(s) >= 1 /\ Len(Tail(s)) = Len(s) - 1
         /\ \A i \in 1 .. Len(s) - 1 : Tail(s)[i] = s[i + 1]
         /\ Range(s) = Range(Tail(s)) \cup {Head(s)}
<1>1. /\ Head(s) \in S /\ Tail(s) \in Seq(S) /\ Len(Tail(s)) = Len(s) - 1
      /\ \A i \in 1 .. Len(Tail(s)) : Tail(s)[i] = s[i + 1]
  BY HeadTailProperties
<1>2. /\ DOMAIN s = 1 .. Len(s) /\ DOMAIN Tail(s) = 1 .. Len(s) - 1 /\ Len(s) \in Nat
      /\ Len(s) >= 1
  BY <1>1, LenProperties, EmptySeq
<1>3. Head(s) = s[1]  OBVIOUS
<1>4. Range(s) \subseteq Range(Tail(s)) \cup {Head(s)}
  <2> SUFFICES ASSUME NEW i \in 1 .. Len(s)
               PROVE  s[i] \in Range(Tail(s)) \cup {Head(s)}
    BY <1>2 DEF Range
  <2>1. CASE i = 1  BY <2>1, <1>3
  <2>2. CASE i # 1
    <3>1. i - 1 \in 1 .. Len(s) - 1 /\ (i - 1) + 1 = i  BY <2>2, <1>2
    <3>2. Tail(s)[i - 1] = s[i]  BY <3>1, <1>1
    <3> QED BY <3>1, <3>2, <1>2 DEF Range
  <2> QED BY <2>1, <2>2
<1>5. Range(Tail(s)) \cup {Head(s)} \subseteq Range(s)
  <2>1. Head(s) \in Range(s)  BY <1>2, <1>3 DEF Range
  <2>2. ASSUME NEW i \in 1 .. Len(s) - 1
        PROVE  Tail(s)[i] \in Range(s)
    <3>1. i + 1 \in 1 .. Len(s)  BY <1>2
    <3> QED BY <3>1, <1>1, <1>2 DEF Range
  <2> QED BY <2>1, <2>2, <1>2 DEF Range
<1> QED BY <1>1, <1>2, <1>3, <1>4, <1>5

---------------------------------------------------------------------------
(* The RS232 driver *)

Ordered(s) == \A i, j \in DOMAIN s : i < j => s[i] < s[j]

\* A call has bytes left to move; one of send_data that writes has room for
\* all of them.
SerialCall ==
  \/ serial = NoSerial
  \/ /\ serial \in [does : {"wait", "write", "read"}, by : {"send_data", "write_fd", "read_fd"},
                    left : Nat \ {0}]
     /\ serial.does = "wait" => serial.left <= SpaceWanted + 1
     /\ serial.does = "write" /\ serial.by = "send_data" => serial.left <= AvailableSpace

SerialTypes ==
  /\ rxFifo \in Seq(Nat) /\ txFifo \in Seq(Nat) /\ onLine \in Seq(Nat) /\ toReader \in Seq(Nat)
  /\ arrived \in Nat /\ given \in Nat /\ IsFiniteSet(eaten)

\* What readers got comes before what waits in the FIFO.
Arrivals ==
  /\ Ordered(toReader) /\ Ordered(rxFifo)
  /\ \A i \in DOMAIN toReader, j \in DOMAIN rxFifo : toReader[i] < rxFifo[j]
  /\ Range(toReader) \cup Range(rxFifo) \cup eaten \cup missed = 1 .. arrived
  /\ Cardinality(eaten) <= given

\* Until a byte is lost, the line and the FIFO hold all that was given, in its
\* order; and send_data loses none.
Departures ==
  /\ "send_data" \notin lostBy
  /\ lostBy = {} =>
       /\ Len(onLine) + Len(txFifo) = given
       /\ \A i \in 1 .. Len(onLine) : onLine[i] = i
       /\ \A i \in 1 .. Len(txFifo) : txFifo[i] = Len(onLine) + i

SerialInv == SerialTypes /\ SerialCall /\ Departures /\ Arrivals

LEMMA TailOrdered ==
  ASSUME NEW s \in Seq(Nat), s # << >>, Ordered(s)
  PROVE  /\ Ordered(Tail(s))
         /\ \A j \in DOMAIN Tail(s) : s[1] < Tail(s)[j]
<1>1. /\ Len(s) \in Nat /\ Len(s) >= 1 /\ DOMAIN s = 1 .. Len(s)
      /\ DOMAIN Tail(s) = 1 .. Len(s) - 1
      /\ \A i \in 1 .. Len(s) - 1 : Tail(s)[i] = s[i + 1]
  BY TailIs, LenProperties
<1>2. \A i \in 1 .. Len(s) - 1 : i + 1 \in DOMAIN s /\ 1 < i + 1
  BY <1>1
<1>3. ASSUME NEW i \in DOMAIN Tail(s), NEW j \in DOMAIN Tail(s), i < j
      PROVE  Tail(s)[i] < Tail(s)[j]
  <2>1. i + 1 \in DOMAIN s /\ j + 1 \in DOMAIN s /\ i + 1 < j + 1  BY <1>1, <1>3
  <2>2. s[i + 1] < s[j + 1]  BY <2>1 DEF Ordered
  <2> QED BY <2>2, <1>1
<1>4. ASSUME NEW j \in DOMAIN Tail(s)
      PROVE  s[1] < Tail(s)[j]
  <2>1. 1 \in DOMAIN s /\ j + 1 \in DOMAIN s /\ 1 < j + 1  BY <1>1
  <2>2. s[1] < s[j + 1]  BY <2>1 DEF Ordered
  <2> QED BY <2>2, <1>1
<1> QED BY <1>3, <1>4 DEF Ordered

\* A number after all others keeps the order.
LEMMA AppendOrdered ==
  ASSUME NEW s \in Seq(Nat), NEW x \in Nat, Ordered(s), \A i \in DOMAIN s : s[i] < x
  PROVE  Ordered(Append(s, x))
<1>1. /\ Len(s) \in Nat /\ DOMAIN s = 1 .. Len(s) /\ DOMAIN Append(s, x) = 1 .. Len(s) + 1
      /\ \A i \in 1 .. Len(s) : Append(s, x)[i] = s[i]
      /\ Append(s, x)[Len(s) + 1] = x
  BY AppendIs, LenProperties
<1>2. ASSUME NEW i \in DOMAIN Append(s, x), NEW j \in DOMAIN Append(s, x), i < j
      PROVE  Append(s, x)[i] < Append(s, x)[j]
  <2>1. i \in DOMAIN s /\ (j \in DOMAIN s \/ j = Len(s) + 1)  BY <1>1, <1>2
  <2>2. CASE j \in DOMAIN s  BY <2>1, <2>2, <1>1, <1>2 DEF Ordered
  <2>3. CASE j = Len(s) + 1  BY <2>1, <2>3, <1>1
  <2> QED BY <2>1, <2>2, <2>3
<1> QED BY <1>2 DEF Ordered

LEMMA InitSerial == SerialInit => SerialInv
<1> SUFFICES ASSUME SerialInit PROVE SerialInv  OBVIOUS
<1>1. SerialTypes
  BY EmptySeq, FS_EmptySet DEF SerialInit, SerialTypes
<1>2. SerialCall  BY DEF SerialInit, SerialCall
<1>3. Departures  BY DEF SerialInit, Departures
<1>4. Arrivals
  BY FS_EmptySet DEF SerialInit, Arrivals, Ordered, Range
<1> QED BY <1>1, <1>2, <1>3, <1>4 DEF SerialInv

\* A step of the driver that moves no byte.
LEMMA SerialRests ==
  ASSUME SerialInv,
         UNCHANGED <<rxFifo, txFifo, arrived, given, toReader, eaten, missed, onLine, lostBy>>,
         SerialCall'
  PROVE  SerialInv'
BY DEF SerialInv, SerialTypes, Departures, Arrivals, Ordered

LEMMA SpaceIs ==
  ASSUME SerialInv
  PROVE  AvailableSpace \in Int /\ AvailableSpace = SerialDepth - Len(txFifo) /\ Len(txFifo) \in Nat
BY SerialAssumption, LenProperties DEF SerialInv, SerialTypes, AvailableSpace

LEMMA CallStays ==
  ASSUME SerialInv, UNCHANGED serial,
         AvailableSpace' >= AvailableSpace, AvailableSpace' \in Int
  PROVE  SerialCall'
<1>1. SerialCall /\ AvailableSpace \in Int  BY SpaceIs DEF SerialInv
<1> QED BY <1>1 DEF SerialCall

LEMMA ByteComesKeeps == SerialInv /\ ByteComes => SerialInv'
<1> SUFFICES ASSUME SerialInv, ByteComes PROVE SerialInv'  OBVIOUS
<1> USE DEF SerialInv
<1>1. SerialCall'
  BY CallStays, SpaceIs DEF ByteComes, AvailableSpace
<1>2. Departures'  BY DEF ByteComes, Departures
<1>3. CASE Len(rxFifo) < SerialDepth
  <2>1. rxFifo' = Append(rxFifo, arrived + 1) /\ missed' = missed /\ arrived' = arrived + 1
        /\ arrived \in Nat /\ rxFifo \in Seq(Nat) /\ toReader \in Seq(Nat)
        /\ UNCHANGED <<txFifo, given, toReader, eaten, onLine>>
    BY <1>3 DEF ByteComes, SerialTypes
  <2>2. /\ rxFifo' \in Seq(Nat) /\ Len(rxFifo') = Len(rxFifo) + 1 /\ Len(rxFifo) \in Nat
        /\ \A i \in 1 .. Len(rxFifo) : rxFifo'[i] = rxFifo[i]
        /\ rxFifo'[Len(rxFifo) + 1] = arrived + 1
        /\ Range(rxFifo') = Range(rxFifo) \cup {arrived + 1}
        /\ DOMAIN rxFifo' = 1 .. Len(rxFifo) + 1 /\ DOMAIN rxFifo = 1 .. Len(rxFifo)
    BY <2>1, AppendIs, LenProperties
  <2>3. SerialTypes'  BY <2>1, <2>2 DEF SerialTypes
  <2>4. /\ \A i \in DOMAIN rxFifo : rxFifo[i] \in 1 .. arrived
        /\ \A i \in DOMAIN toReader : toReader[i] \in 1 .. arrived
    BY DEF Arrivals, Range
  <2>5. Ordered(rxFifo')
    BY <2>1, <2>2, <2>4 DEF Ordered, Arrivals
  <2>6. \A i \in DOMAIN toReader', j \in DOMAIN rxFifo' : toReader'[i] < rxFifo'[j]
    BY <2>1, <2>2, <2>4 DEF Arrivals
  <2>7. Range(toReader') \cup Range(rxFifo') \cup eaten' \cup missed' = 1 .. arrived'
    BY <2>1, <2>2 DEF Arrivals
  <2> QED BY <1>1, <1>2, <2>1, <2>3, <2>5, <2>6, <2>7 DEF Arrivals
<1>4. CASE ~(Len(rxFifo) < SerialDepth)
  <2>1. rxFifo' = rxFifo /\ missed' = missed \cup {arrived + 1} /\ arrived' = arrived + 1
        /\ arrived \in Nat
        /\ UNCHANGED <<txFifo, given, toReader, eaten, onLine>>
    BY <1>4 DEF ByteComes, SerialTypes
  <2>2. SerialTypes'  BY <2>1 DEF SerialTypes
  <2>3. Range(toReader') \cup Range(rxFifo') \cup eaten' \cup missed' = 1 .. arrived'
    BY <2>1 DEF Arrivals
  <2> QED BY <1>1, <1>2, <2>1, <2>2, <2>3 DEF Arrivals
<1> QED BY <1>3, <1>4

LEMMA ByteGoesKeeps == SerialInv /\ ByteGoes => SerialInv'
<1> SUFFICES ASSUME SerialInv, ByteGoes PROVE SerialInv'  OBVIOUS
<1> USE DEF SerialInv
<1>1. txFifo \in Seq(Nat) /\ onLine \in Seq(Nat) /\ txFifo # << >>
  BY DEF ByteGoes, SerialTypes
<1>2. onLine' = Append(onLine, Head(txFifo)) /\ txFifo' = Tail(txFifo)
      /\ UNCHANGED <<rxFifo, re, serial, arrived, given, toReader, eaten, missed, lostBy>>
  BY DEF ByteGoes
<1>3. /\ Head(txFifo) \in Nat /\ Head(txFifo) = txFifo[1] /\ txFifo' \in Seq(Nat)
      /\ Len(txFifo) \in Nat /\ Len(txFifo) >= 1 /\ Len(txFifo') = Len(txFifo) - 1
      /\ \A i \in 1 .. Len(txFifo) - 1 : txFifo'[i] = txFifo[i + 1]
  BY <1>1, <1>2, TailIs, LenProperties
<1>4. /\ onLine' \in Seq(Nat) /\ Len(onLine) \in Nat /\ Len(onLine') = Len(onLine) + 1
      /\ \A i \in 1 .. Len(onLine) : onLine'[i] = onLine[i]
      /\ onLine'[Len(onLine) + 1] = Head(txFifo)
  BY <1>1, <1>2, <1>3, AppendIs, LenProperties
<1>5. SerialTypes'  BY <1>2, <1>3, <1>4 DEF SerialTypes
<1>6. SerialCall'
  BY <1>2, <1>3, CallStays, SpaceIs, SerialAssumption DEF AvailableSpace
<1>7. Departures'
  <2>1. ASSUME lostBy = {}
        PROVE  /\ Len(onLine') + Len(txFifo') = given
               /\ \A i \in 1 .. Len(onLine') : onLine'[i] = i
               /\ \A i \in 1 .. Len(txFifo') : txFifo'[i] = Len(onLine') + i
    <3>1. /\ Len(onLine) + Len(txFifo) = given
          /\ \A i \in 1 .. Len(onLine) : onLine[i] = i
          /\ \A i \in 1 .. Len(txFifo) : txFifo[i] = Len(onLine) + i
      BY <2>1 DEF Departures
    <3>2. onLine'[Len(onLine) + 1] = Len(onLine) + 1
      BY <3>1, <1>3, <1>4
    <3>3. ASSUME NEW i \in 1 .. Len(txFifo')
          PROVE  txFifo'[i] = Len(onLine') + i
      <4>1. i + 1 \in 1 .. Len(txFifo) /\ i \in 1 .. Len(txFifo) - 1  BY <1>3
      <4>2. txFifo[i + 1] = Len(onLine) + (i + 1)  BY <4>1, <3>1
      <4> QED BY <4>1, <4>2, <1>3, <1>4
    <3>4. ASSUME NEW i \in 1 .. Len(onLine')
          PROVE  onLine'[i] = i
      <4>1. i \in 1 .. Len(onLine) \/ i = Len(onLine) + 1  BY <1>4
      <4>2. CASE i \in 1 .. Len(onLine)  BY <4>2, <3>1, <1>4
      <4>3. CASE i = Len(onLine) + 1  BY <4>3, <3>2
      <4> QED BY <4>1, <4>2, <4>3
    <3>5. Len(onLine') + Len(txFifo') = given  BY <3>1, <1>3, <1>4
    <3> QED BY <3>3, <3>4, <3>5
  <2> QED BY <2>1, <1>2 DEF Departures
<1>8. Arrivals'  BY <1>2 DEF Arrivals, Ordered
<1> QED BY <1>5, <1>6, <1>7, <1>8

LEMMA BeginKeeps ==
  ASSUME SerialInv, NEW n \in Nat \ {0},
         NEW does \in {"wait", "write", "read"}, NEW by \in {"send_data", "write_fd", "read_fd"},
         does = "wait" => n <= SpaceWanted + 1, does = "write" => by = "write_fd",
         BeginSerial(does, by, n)
  PROVE  SerialInv'
<1>1. SerialCall'  BY DEF BeginSerial, SerialCall
<1> QED BY <1>1, SerialRests DEF BeginSerial

LEMMA WaitKeeps == SerialInv /\ WaitForSpace => SerialInv'
<1> SUFFICES ASSUME SerialInv, WaitForSpace PROVE SerialInv'  OBVIOUS
<1>1. serial.does = "wait" /\ AvailableSpace > SpaceWanted
      /\ serial' = [serial EXCEPT !.does = "write"] /\ txFifo' = txFifo
  BY DEF WaitForSpace, SpaceFound
<1>2. serial \in [does : {"wait", "write", "read"}, by : {"send_data", "write_fd", "read_fd"},
                  left : Nat \ {0}] /\ serial.left <= SpaceWanted + 1
  BY <1>1 DEF SerialInv, SerialCall, NoSerial
<1>3. AvailableSpace' = AvailableSpace  BY <1>1 DEF AvailableSpace
<1>4. AvailableSpace \in Int  BY SpaceIs
<1>5. serial'.left <= AvailableSpace'
  BY <1>1, <1>2, <1>3, <1>4, SerialAssumption
<1>6. SerialCall'  BY <1>1, <1>2, <1>5 DEF SerialCall
<1> QED BY <1>6, SerialRests DEF WaitForSpace

LEMMA RemainingIs ==
  ASSUME SerialInv, serial.does \in {"write", "read"}
  PROVE  /\ serial.left \in Nat \ {0}
         /\ \/ serial.left = 1 /\ Remaining = NoSerial
            \/ serial.left > 1 /\ Remaining = [does |-> serial.does, by |-> serial.by,
                                               left |-> serial.left - 1]
         /\ serial.does \in {"wait", "write", "read"} /\ serial.by \in {"send_data", "write_fd", "read_fd"}
<1>1. serial \in [does : {"wait", "write", "read"}, by : {"send_data", "write_fd", "read_fd"},
                  left : Nat \ {0}]
  BY DEF SerialInv, SerialCall, NoSerial
<1> QED BY <1>1 DEF Remaining

LEMMA WriteKeeps == SerialInv /\ WriteData => SerialInv'
<1> SUFFICES ASSUME SerialInv, WriteData PROVE SerialInv'  OBVIOUS
<1> USE DEF SerialInv
<1>1. /\ serial.does = "write" /\ given' = given + 1 /\ serial' = Remaining
      /\ UNCHANGED <<arrived, toReader, missed, onLine>>
      /\ given \in Nat /\ rxFifo \in Seq(Nat) /\ txFifo \in Seq(Nat) /\ IsFiniteSet(eaten)
      /\ onLine \in Seq(Nat)
  BY DEF WriteData, SerialTypes
<1>2. AvailableSpace \in Int /\ AvailableSpace = SerialDepth - Len(txFifo)
      /\ Len(txFifo) \in Nat /\ SerialDepth \in Nat
  BY SpaceIs, SerialAssumption
<1>3. \/ AvailableSpace > 0 /\ txFifo' = Append(txFifo, given + 1) /\ lostBy' = lostBy
      \/ ~(AvailableSpace > 0) /\ txFifo' = txFifo /\ lostBy' = lostBy \cup {serial.by}
  BY DEF WriteData
<1>4. AvailableSpace > 0 =>
        /\ txFifo' \in Seq(Nat) /\ Len(txFifo') = Len(txFifo) + 1
        /\ \A i \in 1 .. Len(txFifo) : txFifo'[i] = txFifo[i]
        /\ txFifo'[Len(txFifo) + 1] = given + 1
  <2> SUFFICES ASSUME AvailableSpace > 0
               PROVE  /\ txFifo' \in Seq(Nat) /\ Len(txFifo') = Len(txFifo) + 1
                      /\ \A i \in 1 .. Len(txFifo) : txFifo'[i] = txFifo[i]
                      /\ txFifo'[Len(txFifo) + 1] = given + 1
    OBVIOUS
  <2>1. txFifo' = Append(txFifo, given + 1) /\ given + 1 \in Nat  BY <1>1, <1>2, <1>3
  <2> QED BY <2>1, <1>1, AppendIs
<1>5. /\ serial.left \in Nat \ {0}
      /\ \/ serial.left = 1 /\ Remaining = NoSerial
         \/ serial.left > 1 /\ Remaining = [does |-> serial.does, by |-> serial.by,
                                            left |-> serial.left - 1]
      /\ serial.by \in {"send_data", "write_fd", "read_fd"}
  BY <1>1, RemainingIs
<1>6. serial.by = "send_data" => serial.left <= AvailableSpace
  BY <1>1 DEF SerialCall, NoSerial
<1>7. AvailableSpace' >= AvailableSpace - 1
  BY <1>2, <1>3, <1>4 DEF AvailableSpace
<1>8. AvailableSpace' \in Int
  BY <1>2, <1>3, <1>4 DEF AvailableSpace
<1>9. SerialCall'
  <2>1. CASE serial.left = 1  BY <2>1, <1>1, <1>5 DEF SerialCall
  <2>2. CASE serial.left > 1
    <3>1. serial' = [does |-> "write", by |-> serial.by, left |-> serial.left - 1]
      BY <2>2, <1>1, <1>5
    <3>2. serial.left - 1 \in Nat \ {0}  BY <2>2, <1>5
    <3>3. serial.by = "send_data" => serial.left - 1 <= AvailableSpace'
      BY <1>2, <1>5, <1>6, <1>7, <1>8
    <3> QED BY <3>1, <3>2, <3>3, <1>5 DEF SerialCall
  <2> QED BY <2>1, <2>2, <1>5
<1>10. Departures'
  <2>1. "send_data" \notin lostBy'
    BY <1>2, <1>3, <1>5, <1>6 DEF Departures
  <2>2. ASSUME lostBy' = {}
        PROVE  /\ Len(onLine') + Len(txFifo') = given'
               /\ \A i \in 1 .. Len(onLine') : onLine'[i] = i
               /\ \A i \in 1 .. Len(txFifo') : txFifo'[i] = Len(onLine') + i
    <3>1. AvailableSpace > 0 /\ lostBy = {}  BY <2>2, <1>3
    <3>2. /\ Len(onLine) + Len(txFifo) = given
          /\ \A i \in 1 .. Len(onLine) : onLine[i] = i
          /\ \A i \in 1 .. Len(txFifo) : txFifo[i] = Len(onLine) + i
      BY <3>1 DEF Departures
    <3>3. Len(onLine) \in Nat /\ onLine' = onLine /\ given' = Len(onLine) + (Len(txFifo) + 1)
      <4>1. Len(onLine) \in Nat  BY <1>1, LenProperties
      <4>2. given' = given + 1 /\ onLine' = onLine  BY <1>1
      <4> QED BY <4>1, <4>2, <3>2, <1>1, <1>2
    <3>4. ASSUME NEW i \in 1 .. Len(txFifo')
          PROVE  txFifo'[i] = Len(onLine') + i
      <4>1. i \in 1 .. Len(txFifo) \/ i = Len(txFifo) + 1  BY <3>1, <1>2, <1>4
      <4>2. CASE i \in 1 .. Len(txFifo)  BY <4>2, <3>1, <3>2, <3>3, <1>4
      <4>3. CASE i = Len(txFifo) + 1  BY <4>3, <3>1, <3>3, <1>1, <1>4
      <4> QED BY <4>1, <4>2, <4>3
    <3>5. Len(onLine') + Len(txFifo') = given'  BY <3>1, <3>3, <1>2, <1>4
    <3> QED BY <3>2, <3>3, <3>4, <3>5
  <2> QED BY <2>1, <2>2 DEF Departures
<1>11. SerialTypes' /\ Arrivals'
  <2>1. CASE rxFifo = << >>
    <3>1. rxFifo' = rxFifo /\ eaten' = eaten  BY <2>1 DEF WriteData
    <3>2. Cardinality(eaten) \in Nat  BY <1>1, FS_CardinalityType
    <3> QED BY <3>1, <3>2, <1>1, <1>3, <1>4 DEF SerialTypes, Arrivals
  <2>2. CASE rxFifo # << >>
    <3>1. rxFifo' = Tail(rxFifo) /\ eaten' = eaten \cup {Head(rxFifo)}  BY <2>2 DEF WriteData
    <3>2. /\ rxFifo' \in Seq(Nat) /\ Len(rxFifo) \in Nat /\ Len(rxFifo') = Len(rxFifo) - 1
          /\ DOMAIN rxFifo' = 1 .. Len(rxFifo) - 1 /\ DOMAIN rxFifo = 1 .. Len(rxFifo)
          /\ \A i \in 1 .. Len(rxFifo) - 1 : rxFifo'[i] = rxFifo[i + 1]
          /\ Range(rxFifo) = Range(rxFifo') \cup {Head(rxFifo)}
      BY <2>2, <3>1, <1>1, TailIs, LenProperties
    <3>3. IsFiniteSet(eaten') /\ Cardinality(eaten') <= given'
      <4>1. Cardinality(eaten) \in Nat /\ Cardinality(eaten) <= given
        BY <1>1, FS_CardinalityType DEF Arrivals
      <4>2. /\ IsFiniteSet(eaten')
            /\ Cardinality(eaten') \in {Cardinality(eaten), Cardinality(eaten) + 1}
        BY <3>1, <1>1, FS_AddElement
      <4> QED BY <4>1, <4>2, <1>1
    <3>4. Ordered(rxFifo')
      BY <2>2, <3>1, <1>1, TailOrdered DEF Arrivals
    <3>5. \A i \in DOMAIN toReader', j \in DOMAIN rxFifo' : toReader'[i] < rxFifo'[j]
      <4>1. \A j \in DOMAIN rxFifo' : j + 1 \in DOMAIN rxFifo /\ rxFifo'[j] = rxFifo[j + 1]
        BY <3>2
      <4> QED BY <4>1, <1>1 DEF Arrivals
    <3>6. Range(toReader') \cup Range(rxFifo') \cup eaten' \cup missed' = 1 .. arrived'
      BY <3>1, <3>2, <1>1 DEF Arrivals
    <3> QED BY <3>2, <3>3, <3>4, <3>5, <3>6, <1>1, <1>3, <1>4 DEF SerialTypes, Arrivals
  <2> QED BY <2>1, <2>2
<1> QED BY <1>9, <1>10, <1>11

LEMMA ReadByteKeeps == SerialInv /\ ReadByte => SerialInv'
<1> SUFFICES ASSUME SerialInv, ReadByte PROVE SerialInv'  OBVIOUS
<1> USE DEF SerialInv
<1>1. CASE rxFifo = << >>
  <2>1. SerialCall'  BY <1>1 DEF ReadByte, SerialCall
  <2> QED BY <1>1, <2>1, SerialRests DEF ReadByte
<1>2. CASE rxFifo # << >>
  <2>1. /\ serial.does = "read" /\ serial' = Remaining /\ rxFifo' = Tail(rxFifo)
        /\ toReader' = Append(toReader, Head(rxFifo))
        /\ UNCHANGED <<txFifo, arrived, given, eaten, missed, onLine, lostBy>>
        /\ rxFifo \in Seq(Nat) /\ toReader \in Seq(Nat)
    BY <1>2 DEF ReadByte, Kept, SerialTypes
  <2>2. /\ rxFifo' \in Seq(Nat) /\ Len(rxFifo) \in Nat /\ Len(rxFifo') = Len(rxFifo) - 1
        /\ DOMAIN rxFifo' = 1 .. Len(rxFifo) - 1 /\ DOMAIN rxFifo = 1 .. Len(rxFifo)
        /\ \A i \in 1 .. Len(rxFifo) - 1 : rxFifo'[i] = rxFifo[i + 1]
        /\ Range(rxFifo) = Range(rxFifo') \cup {Head(rxFifo)}
        /\ Head(rxFifo) = rxFifo[1] /\ Head(rxFifo) \in Nat /\ Len(rxFifo) >= 1
    BY <1>2, <2>1, TailIs, LenProperties
  <2>3. /\ toReader' \in Seq(Nat) /\ Len(toReader) \in Nat /\ Len(toReader') = Len(toReader) + 1
        /\ \A i \in 1 .. Len(toReader) : toReader'[i] = toReader[i]
        /\ toReader'[Len(toReader) + 1] = Head(rxFifo)
        /\ Range(toReader') = Range(toReader) \cup {Head(rxFifo)}
        /\ DOMAIN toReader' = 1 .. Len(toReader) + 1 /\ DOMAIN toReader = 1 .. Len(toReader)
    BY <2>1, <2>2, AppendIs, LenProperties
  <2>4. SerialCall'
    BY <2>1, RemainingIs DEF SerialCall
  <2>5. SerialTypes'  BY <2>1, <2>2, <2>3 DEF SerialTypes
  <2>6. Departures'  BY <2>1 DEF Departures
  <2>7. Ordered(rxFifo') /\ \A j \in DOMAIN rxFifo' : Head(rxFifo) < rxFifo'[j]
    BY <1>2, <2>1, <2>2, TailOrdered DEF Arrivals
  <2>8. Ordered(toReader')
    <3>1. \A i \in DOMAIN toReader : toReader[i] < Head(rxFifo)
      <4>1. 1 \in DOMAIN rxFifo  BY <2>2
      <4> QED BY <4>1, <2>2 DEF Arrivals
    <3> QED BY <3>1, <2>1, <2>2, AppendOrdered DEF Arrivals
  <2>9. \A i \in DOMAIN toReader', j \in DOMAIN rxFifo' : toReader'[i] < rxFifo'[j]
    <3> SUFFICES ASSUME NEW i \in DOMAIN toReader', NEW j \in DOMAIN rxFifo'
                 PROVE  toReader'[i] < rxFifo'[j]
      OBVIOUS
    <3>1. j + 1 \in DOMAIN rxFifo /\ rxFifo'[j] = rxFifo[j + 1]
      BY <2>2
    <3>2. CASE i = Len(toReader) + 1
      BY <3>2, <2>3, <2>7
    <3>3. CASE i # Len(toReader) + 1
      <4>1. i \in DOMAIN toReader /\ toReader'[i] = toReader[i]  BY <3>3, <2>3
      <4> QED BY <3>1, <4>1 DEF Arrivals
    <3> QED BY <3>2, <3>3
  <2>10. Range(toReader') \cup Range(rxFifo') \cup eaten' \cup missed' = 1 .. arrived'
    BY <2>1, <2>2, <2>3 DEF Arrivals
  <2> QED BY <2>1, <2>4, <2>5, <2>6, <2>7, <2>8, <2>9, <2>10 DEF Arrivals
<1> QED BY <1>1, <1>2

LEMMA SerialKeeps == SerialInv /\ [SerialNext]_serialVars => SerialInv'
<1> SUFFICES ASSUME SerialInv, [SerialNext]_serialVars PROVE SerialInv'  OBVIOUS
<1>1. CASE UNCHANGED serialVars
  <2>1. SerialCall'
    BY <1>1 DEF serialVars, SerialInv, SerialCall, AvailableSpace
  <2> QED BY <1>1, <2>1, SerialRests DEF serialVars
<1>2. CASE EnableReadInterrupt \/ DisableReadInterrupt
  <2>1. SerialCall'
    BY <1>2 DEF EnableReadInterrupt, DisableReadInterrupt, SerialInv, SerialCall, AvailableSpace
  <2> QED BY <1>2, <2>1, SerialRests DEF EnableReadInterrupt, DisableReadInterrupt
<1>3. CASE SendData
  BY <1>3, BeginKeeps, SerialAssumption DEF SendData
<1>4. ASSUME NEW n \in 1 .. MessageSize, WriteFd(n) \/ ReadFd(n) PROVE SerialInv'
  <2>1. n \in Nat \ {0}  BY SerialAssumption
  <2>2. CASE WriteFd(n)  BY <2>1, <2>2, BeginKeeps DEF WriteFd
  <2>3. CASE ReadFd(n)  BY <2>1, <2>3, BeginKeeps DEF ReadFd
  <2> QED BY <1>4, <2>2, <2>3
<1> QED BY <1>1, <1>2, <1>3, <1>4, ByteComesKeeps, ByteGoesKeeps, WaitKeeps, WriteKeeps,
          ReadByteKeeps DEF SerialNext

LEMMA SerialHolds == SerialInv => MessagesWhole /\ ReadOrEaten
<1> SUFFICES ASSUME SerialInv PROVE MessagesWhole /\ ReadOrEaten  OBVIOUS
<1>1. onLine \in Seq(Nat) /\ txFifo \in Seq(Nat) /\ toReader \in Seq(Nat) /\ given \in Nat
  BY DEF SerialInv, SerialTypes
<1>2. ASSUME lostBy = {}
      PROVE  onLine \o txFifo = [k \in 1 .. given |-> k]
  <2> DEFINE s == onLine \o txFifo
  <2>1. /\ Len(onLine) \in Nat /\ Len(txFifo) \in Nat /\ Len(onLine) + Len(txFifo) = given
        /\ \A i \in 1 .. Len(onLine) : onLine[i] = i
        /\ \A i \in 1 .. Len(txFifo) : txFifo[i] = Len(onLine) + i
    BY <1>1, <1>2, LenProperties DEF SerialInv, Departures
  <2>2. /\ s \in Seq(Nat) /\ Len(s) = given
        /\ \A i \in 1 .. Len(s) : s[i] = IF i <= Len(onLine) THEN onLine[i]
                                         ELSE txFifo[i - Len(onLine)]
    BY <1>1, <2>1, ConcatProperties
  <2> HIDE DEF s
  <2>3. ASSUME NEW i \in 1 .. given
        PROVE  s[i] = i
    <3>1. CASE i <= Len(onLine)
      <4>1. i \in 1 .. Len(onLine)  BY <3>1, <2>1, <1>1
      <4> QED BY <4>1, <3>1, <2>1, <2>2
    <3>2. CASE ~(i <= Len(onLine))
      <4>1. i - Len(onLine) \in 1 .. Len(txFifo)  BY <3>2, <2>1, <1>1
      <4>2. txFifo[i - Len(onLine)] = Len(onLine) + (i - Len(onLine))  BY <4>1, <2>1
      <4> QED BY <4>2, <3>2, <2>1, <2>2, <1>1
    <3> QED BY <3>1, <3>2
  <2>4. s = [k \in 1 .. given |-> s[k]]
    BY <2>2
  <2> QED BY <2>3, <2>4 DEF s
<1>3. \A k \in 1 .. Len(toReader) - 1 : toReader[k] < toReader[k + 1]
  <2>1. DOMAIN toReader = 1 .. Len(toReader) /\ Len(toReader) \in Nat  BY <1>1, LenProperties
  <2> QED BY <2>1 DEF SerialInv, Arrivals, Ordered
<1> QED BY <1>2, <1>3 DEF SerialInv, Arrivals, Departures, MessagesWhole, ReadOrEaten

---------------------------------------------------------------------------
(* The configuration driver *)

Typed == ~cfgCall.raw /\ cfgType \notin Daughtercards

Calling == [does : {"none", "write", "read", "data", "value", "acknowledge"}, port : Ports,
            addr : CfgAddrs \cup {0}, word : CfgWords \cup {0}, raw : BOOLEAN]

CfgInv ==
  /\ board \in ConfigTypes /\ cfgType \in {"closed", board}
  /\ cfgCall \in Calling
  /\ target \in Ports /\ target = chosen /\ ~astray
  /\ cfgCall.does # "none" => cfgType = board
  /\ cfgCall.does # "none" /\ Typed => target \in ChipsOn(board) /\ target = cfgCall.port
  /\ cfgCall.does = "data" => cfgAddr = cfgCall.addr

LEMMA NotCalledIs == NotCalled \in Calling /\ NotCalled.does = "none" /\ AUDIO_DEVICE \in Ports
BY DEF NotCalled, Calling, Ports, AUDIO_DEVICE, SECOND_VIDEO_DEVICE

LEMMA InitCfg == CfgInit \/ CfgIdle => CfgInv
<1> SUFFICES ASSUME NEW types \in SUBSET ConfigTypes, CfgInitOf(types)
             PROVE  CfgInv
  <2>1. {"UNKNOWN"} \in SUBSET ConfigTypes  BY DEF ConfigTypes
  <2> QED BY <2>1 DEF CfgInit, CfgIdle
<1>1. cfgCall \in Calling /\ cfgCall.does = "none" /\ target \in Ports
  BY NotCalledIs DEF CfgInitOf
<1>2. board \in ConfigTypes /\ cfgType = "closed" /\ target = chosen /\ ~astray
  BY DEF CfgInitOf
<1> QED BY <1>1, <1>2 DEF CfgInv

LEMMA AllowedOnBoard ==
  ASSUME NEW type
  PROVE  /\ AudioAllowed(type) => AUDIO_DEVICE \in ChipsOn(type)
         /\ \A chip \in Ports : VideoAllowed(type, chip) => chip \in ChipsOn(type)
BY DEF AudioAllowed, VideoAllowed, ChipsOn, OnBoard, Ports, AUDIO_DEVICE, FIRST_VIDEO_DEVICE,
       SECOND_VIDEO_DEVICE

\* What every step of a call that is begun leaves alone.
CallLeaves == UNCHANGED <<board, cfgType, rie, cfgAddr, transfer, astray>>

LEMMA SelectingKeeps ==
  ASSUME CfgInv, CallLeaves, cfgType # "closed", cfgCall.does = "none",
         NEW does \in {"write", "read"}, NEW allowed \in BOOLEAN, NEW p \in Ports,
         NEW a \in CfgAddrs, NEW w \in CfgWords \cup {0},
         allowed => p \in ChipsOn(cfgType),
         SelectingCall(does, allowed, p, a, w)
  PROVE  CfgInv'
<1>1. CASE allowed
  <2>1. target' = p /\ chosen' = p
        /\ cfgCall' = [does |-> does, port |-> p, addr |-> a, word |-> w, raw |-> FALSE]
    BY <1>1 DEF SelectingCall, Selected
  <2>2. cfgType = board  BY DEF CfgInv
  <2> QED BY <1>1, <2>1, <2>2 DEF CfgInv, Calling, CallLeaves, Typed
<1>2. CASE ~allowed
  <2>1. UNCHANGED <<target, chosen, cfgCall>>  BY <1>2 DEF SelectingCall, Selected
  <2> QED BY <2>1 DEF CfgInv, Calling, CallLeaves, Typed
<1> QED BY <1>1, <1>2

\* A plain call is raw, or a daughtercard's on a daughtercard.
LEMMA PlainKeeps ==
  ASSUME CfgInv, CallLeaves, cfgType # "closed", cfgCall.does = "none",
         NEW does \in {"write", "read"}, NEW allowed \in BOOLEAN, NEW raw \in BOOLEAN,
         NEW a \in CfgAddrs, NEW w \in CfgWords \cup {0},
         allowed /\ ~raw => cfgType \in Daughtercards,
         PlainCall(does, allowed, raw, a, w)
  PROVE  CfgInv'
<1>1. CASE allowed
  <2>1. UNCHANGED <<target, chosen>>
        /\ cfgCall' = [does |-> does, port |-> target, addr |-> a, word |-> w, raw |-> raw]
    BY <1>1 DEF PlainCall
  <2>2. cfgType = board /\ target \in Ports  BY DEF CfgInv
  <2> QED BY <1>1, <2>1, <2>2 DEF CfgInv, Calling, CallLeaves, Typed
<1>2. CASE ~allowed
  <2>1. UNCHANGED <<target, chosen, cfgCall>>  BY <1>2 DEF PlainCall
  <2> QED BY <2>1 DEF CfgInv, Calling, CallLeaves, Typed
<1> QED BY <1>1, <1>2

LEMMA CallConfigKeeps == CfgInv /\ CallConfig => CfgInv'
<1> SUFFICES ASSUME CfgInv, CallConfig PROVE CfgInv'  OBVIOUS
<1>1. cfgType # "closed" /\ cfgCall.does = "none" /\ CallLeaves
  BY DEF CallConfig, CallLeaves
<1>2. PICK a \in CfgAddrs, w \in CfgWords :
        \/ WriteAudio(a, w)
        \/ \E chip \in Ports : WriteVideo(chip, a, w) \/ ReadVideo(chip, a)
        \/ \E card \in Daughtercards : WriteCard(card, a, w) \/ ReadCard(card, a)
        \/ \E does \in {"write", "read"} : RawCall(does, a, w)
  BY DEF CallConfig
<1>3. CASE WriteAudio(a, w)
  <2>1. AudioAllowed(cfgType) \in BOOLEAN /\ AUDIO_DEVICE \in Ports
    BY DEF AudioAllowed, Ports, AUDIO_DEVICE, SECOND_VIDEO_DEVICE
  <2> QED BY <1>1, <1>3, <2>1, AllowedOnBoard, SelectingKeeps DEF WriteAudio
<1>4. ASSUME NEW chip \in Ports, WriteVideo(chip, a, w) \/ ReadVideo(chip, a)
      PROVE  CfgInv'
  <2>1. VideoAllowed(cfgType, chip) \in BOOLEAN  BY DEF VideoAllowed
  <2>2. CASE WriteVideo(chip, a, w)
    BY <1>1, <2>1, <2>2, AllowedOnBoard, SelectingKeeps DEF WriteVideo
  <2>3. CASE ReadVideo(chip, a)
    BY <1>1, <2>1, <2>3, AllowedOnBoard, SelectingKeeps DEF ReadVideo
  <2> QED BY <1>4, <2>2, <2>3
<1>5. ASSUME NEW card \in Daughtercards, WriteCard(card, a, w) \/ ReadCard(card, a)
      PROVE  CfgInv'
  <2>1. (cfgType = card) \in BOOLEAN /\ (cfgType = card => cfgType \in Daughtercards)
    OBVIOUS
  <2>2. CASE WriteCard(card, a, w)  BY <1>1, <2>1, <2>2, PlainKeeps DEF WriteCard
  <2>3. CASE ReadCard(card, a)  BY <1>1, <2>1, <2>3, PlainKeeps DEF ReadCard
  <2> QED BY <1>5, <2>2, <2>3
<1>6. ASSUME NEW does \in {"write", "read"}, RawCall(does, a, w)
      PROVE  CfgInv'
  BY <1>1, <1>6, PlainKeeps DEF RawCall
<1> QED BY <1>2, <1>3, <1>4, <1>5, <1>6

LEMMA CfgKeeps == CfgInv /\ [CfgNext]_cfgVars => CfgInv'
<1> SUFFICES ASSUME CfgInv, [CfgNext]_cfgVars PROVE CfgInv'  OBVIOUS
<1>1. CASE UNCHANGED cfgVars  BY <1>1 DEF cfgVars, CfgInv, Typed
<1>2. CASE OpenConfig
  <2>1. cfgCall.does = "none"  BY <1>2 DEF OpenConfig, CfgInv, ConfigTypes, OnBoard, Daughtercards
  <2> QED BY <1>2, <2>1 DEF OpenConfig, CfgInv, Typed
<1>3. CASE SetAddress
  <2>1. /\ cfgAddr' = cfgCall.addr /\ cfgCall.does \in {"write", "read"}
        /\ UNCHANGED <<board, cfgType, target, chosen, astray>>
        /\ cfgCall' = [cfgCall EXCEPT !.does = IF cfgCall.does = "write" THEN "data" ELSE "value"]
    BY <1>3 DEF SetAddress
  <2> DEFINE d == IF cfgCall.does = "write" THEN "data" ELSE "value"
  <2>2. cfgCall' = [does |-> d, port |-> cfgCall.port, addr |-> cfgCall.addr,
                    word |-> cfgCall.word, raw |-> cfgCall.raw]
    BY <2>1 DEF CfgInv, Calling
  <2> QED BY <2>1, <2>2 DEF CfgInv, Calling, Typed
<1>4. CASE WriteCfgData
  <2>1. Meant  BY <1>4 DEF WriteCfgData, Meant, CfgInv, Typed
  <2>2. ~astray'  BY <1>4, <2>1 DEF WriteCfgData, CfgInv
  <2>3. UNCHANGED <<board, cfgType, target, chosen>> /\ cfgCall' = NotCalled
    BY <1>4 DEF WriteCfgData
  <2> QED BY <2>2, <2>3, NotCalledIs DEF CfgInv
<1>5. CASE ReadCfgData
  <2>1. /\ UNCHANGED <<board, cfgType, target, cfgAddr, chosen, astray>>
        /\ cfgCall.does = "value"
        /\ cfgCall' = [does |-> "acknowledge", port |-> cfgCall.port, addr |-> cfgCall.addr,
                       word |-> cfgCall.word, raw |-> cfgCall.raw]
    BY <1>5 DEF ReadCfgData, CfgInv, Calling
  <2> QED BY <2>1 DEF CfgInv, Calling, Typed
<1>6. CASE ReadAcknowledge
  <2>1. UNCHANGED <<board, cfgType, target, chosen, astray>> /\ cfgCall' = NotCalled
    BY <1>6 DEF ReadAcknowledge
  <2> QED BY <2>1, NotCalledIs DEF CfgInv
<1>7. CASE Sent \/ ResetConfig \/ EnableConfig \/ DisableConfig
  BY <1>7 DEF Sent, ResetConfig, EnableConfig, DisableConfig, SetControl, CfgInv, Typed
<1> QED BY <1>1, <1>2, <1>3, <1>4, <1>5, <1>6, <1>7, CallConfigKeeps DEF CfgNext

---------------------------------------------------------------------------
(* The audio driver *)

Numbers == 0 .. AudioNumbers - 1

AudioTypes ==
  /\ audioUse \in {"read", "write", "off"} /\ audioControl \subseteq {"RE", "WE"}
  /\ recordFifo \in [Channels -> Seq(Numbers)] /\ playFifo \in [Channels -> Seq(Numbers)]
  /\ \A c \in Channels : Len(recordFifo[c]) <= AudioDepth /\ Len(playFifo[c]) <= AudioDepth
  /\ sampled \in Numbers /\ stored \in [Channels -> Numbers]
  /\ toPlay \in [Channels -> Numbers] /\ sounded \in [Channels -> Numbers]
  /\ overrun \in BOOLEAN

\* A call that has found words, or room, finds them still there when it moves
\* one; one with a threshold has more than that to move or behind it.
AudioCalls ==
  \/ audioCall = NoCall
  \/ /\ audioCall \in [op : {"read", "write"}, channel : Channels, len : Nat, count : Nat,
                       space : Nat \cup {-1}, threshold : BOOLEAN]
     /\ audioCall.op = audioUse
     /\ audioCall.count <= audioCall.len
     /\ audioCall.space # -1 => audioCall.count < audioCall.len
     /\ audioCall.op = "read" =>
          LET waitingWords == Len(recordFifo[audioCall.channel])
          IN /\ audioCall.space > 0 => waitingWords > 0
             /\ audioCall.threshold => audioCall.count + waitingWords > BufThreshold
             /\ audioCall.threshold /\ audioCall.space = 0 => audioCall.count > BufThreshold
     /\ audioCall.op = "write" /\ audioCall.space > 0 =>
          Len(playFifo[audioCall.channel]) < AudioDepth

AudioInv ==
  AudioTypes /\ AudioCalls /\ RecordedInOrder /\ PlayedInOrder /\ RecordsByThreshold

LEMMA AudioSizes ==
  /\ AudioDepth \in Nat /\ BufThreshold \in Nat /\ BufThreshold < AudioDepth
  /\ AudioNumbers \in Nat /\ AudioNumbers > AudioDepth + 1 /\ AudioNumbers > 1
BY AudioAssumption

\* How many samples there are from one number to another.
CountFrom(a, b) == (b - a) % AudioNumbers

LEMMA CountIs ==
  ASSUME NEW a \in Numbers, NEW b \in Numbers
  PROVE  /\ a <= b => CountFrom(a, b) = b - a
         /\ a > b => CountFrom(a, b) = b - a + AudioNumbers
         /\ CountFrom(a, b) \in Numbers
<1>1. AudioNumbers \in Nat /\ AudioNumbers > 1  BY AudioSizes
<1>2. a <= b => CountFrom(a, b) = b - a  BY <1>1 DEF CountFrom, Numbers
<1>3. a > b => CountFrom(a, b) = b - a + AudioNumbers  BY <1>1 DEF CountFrom, Numbers
<1> QED BY <1>1, <1>2, <1>3 DEF Numbers

LEMMA AfterIs ==
  ASSUME NEW a \in Numbers
  PROVE  /\ a + 1 < AudioNumbers => AfterSample(a) = a + 1
         /\ a + 1 = AudioNumbers => AfterSample(a) = 0
         /\ AfterSample(a) \in Numbers
<1>1. AudioNumbers \in Nat /\ AudioNumbers > 1  BY AudioSizes
<1>2. a + 1 < AudioNumbers => AfterSample(a) = a + 1  BY <1>1 DEF AfterSample, Numbers
<1>3. a + 1 = AudioNumbers => AfterSample(a) = 0  BY <1>1 DEF AfterSample, Numbers
<1> QED BY <1>1, <1>2, <1>3 DEF Numbers

\* The k-th number after a.
LEMMA PlaceIs ==
  ASSUME NEW a \in Numbers, NEW k \in Numbers
  PROVE  /\ a + k < AudioNumbers => (a + k) % AudioNumbers = a + k
         /\ a + k >= AudioNumbers => (a + k) % AudioNumbers = a + k - AudioNumbers
         /\ (a + k) % AudioNumbers \in Numbers
<1>1. AudioNumbers \in Nat /\ AudioNumbers > 1  BY AudioSizes
<1>2. a + k < AudioNumbers => (a + k) % AudioNumbers = a + k  BY <1>1 DEF Numbers
<1>3. a + k >= AudioNumbers => (a + k) % AudioNumbers = a + k - AudioNumbers
  BY <1>1 DEF Numbers
<1> QED BY <1>1, <1>2, <1>3 DEF Numbers

LEMMA SamplesAre ==
  ASSUME NEW a \in Numbers, NEW b \in Numbers
  PROVE  /\ Samples(a, b) \in Seq(Numbers) /\ Len(Samples(a, b)) = CountFrom(a, b)
         /\ \A k \in 1 .. CountFrom(a, b) : Samples(a, b)[k] = (a + (k - 1)) % AudioNumbers
<1>1. CountFrom(a, b) \in Nat /\ CountFrom(a, b) <= AudioNumbers - 1 /\ AudioNumbers \in Nat
  BY CountIs, AudioSizes DEF Numbers
<1>2. \A k \in 1 .. CountFrom(a, b) : (a + (k - 1)) % AudioNumbers \in Numbers
  <2> SUFFICES ASSUME NEW k \in 1 .. CountFrom(a, b)
               PROVE  (a + (k - 1)) % AudioNumbers \in Numbers
    OBVIOUS
  <2>1. k - 1 \in Numbers  BY <1>1 DEF Numbers
  <2> QED BY <2>1, PlaceIs
<1>3. Samples(a, b) = [k \in 1 .. CountFrom(a, b) |-> (a + (k - 1)) % AudioNumbers]
  BY DEF Samples, CountFrom
<1> HIDE DEF CountFrom
<1> QED BY <1>1, <1>2, <1>3, IsASeq

LEMMA NoSamples == \A a \in Numbers : Samples(a, a) = << >>
<1> SUFFICES ASSUME NEW a \in Numbers PROVE Samples(a, a) = << >>  OBVIOUS
<1>1. CountFrom(a, a) = 0  BY CountIs DEF Numbers
<1> QED BY <1>1, SamplesAre, EmptySeq

\* One more is put behind the others, as long as they are not all numbers.
LEMMA OneMore ==
  ASSUME NEW a \in Numbers, NEW b \in Numbers, CountFrom(a, b) < AudioNumbers - 1
  PROVE  Append(Samples(a, b), b) = Samples(a, AfterSample(b))
<1> DEFINE s == Samples(a, b)
           t == Samples(a, AfterSample(b))
           n == CountFrom(a, b)
<1>1. AudioNumbers \in Nat /\ AudioNumbers > 1  BY AudioSizes
<1>2. AfterSample(b) \in Numbers  BY AfterIs
<1>3. CountFrom(a, AfterSample(b)) = n + 1 /\ n \in Numbers /\ (a + n) % AudioNumbers = b
  <2>1. /\ a <= b => n = b - a
        /\ a > b => n = b - a + AudioNumbers
        /\ n \in Numbers
    BY CountIs
  <2>2. /\ a + n < AudioNumbers => (a + n) % AudioNumbers = a + n
        /\ a + n >= AudioNumbers => (a + n) % AudioNumbers = a + n - AudioNumbers
    <3> HIDE DEF n
    <3> QED BY <2>1, PlaceIs
  <2>3. /\ b + 1 < AudioNumbers => AfterSample(b) = b + 1
        /\ b + 1 = AudioNumbers => AfterSample(b) = 0
    BY AfterIs
  <2>4. /\ a <= AfterSample(b) => CountFrom(a, AfterSample(b)) = AfterSample(b) - a
        /\ a > AfterSample(b) => CountFrom(a, AfterSample(b)) = AfterSample(b) - a + AudioNumbers
    BY <1>2, CountIs
  <2> DEFINE m == CountFrom(a, AfterSample(b))
             c == AfterSample(b)
  <2> HIDE DEF n, m, c
  <2>5. (a + n) % AudioNumbers = b  BY <1>1, <2>1, <2>2 DEF Numbers
  <2>6. m = n + 1
    <3>1. n < AudioNumbers - 1  BY DEF n
    <3> QED BY <1>1, <2>1, <2>3, <2>4, <3>1 DEF m, c, Numbers
  <2> QED BY <2>1, <2>5, <2>6 DEF m
<1>4. /\ s \in Seq(Numbers) /\ Len(s) = n
      /\ \A k \in 1 .. n : s[k] = (a + (k - 1)) % AudioNumbers
  BY SamplesAre
<1>5. /\ t \in Seq(Numbers) /\ Len(t) = n + 1
      /\ \A k \in 1 .. n + 1 : t[k] = (a + (k - 1)) % AudioNumbers
  BY <1>2, <1>3, SamplesAre
<1>6. /\ Append(s, b) \in Seq(Numbers) /\ Len(Append(s, b)) = n + 1
      /\ \A k \in 1 .. n : Append(s, b)[k] = s[k]
      /\ Append(s, b)[n + 1] = b
  <2> HIDE DEF s, n
  <2> QED BY <1>4, AppendIs
<1>7. n \in Nat  BY <1>3 DEF Numbers
<1> HIDE DEF s, t, n
<1>8. ASSUME NEW k \in 1 .. n + 1
      PROVE  Append(s, b)[k] = t[k]
  <2>1. CASE k \in 1 .. n  BY <2>1, <1>4, <1>5, <1>6
  <2>2. CASE k = n + 1
    <3>1. t[n + 1] = (a + ((n + 1) - 1)) % AudioNumbers /\ (n + 1) - 1 = n  BY <1>5, <1>7
    <3> QED BY <2>2, <3>1, <1>3, <1>6
  <2>3. k \in 1 .. n \/ k = n + 1  BY <1>7
  <2> QED BY <2>1, <2>2, <2>3
<1>9. Append(s, b) = t  BY <1>5, <1>6, <1>8, SeqEqual
<1> QED BY <1>9 DEF s, t

\* The first of them is a, and those behind it begin one later.
LEMMA OneLess ==
  ASSUME NEW a \in Numbers, NEW b \in Numbers, Samples(a, b) # << >>
  PROVE  Head(Samples(a, b)) = a /\ Tail(Samples(a, b)) = Samples(AfterSample(a), b)
<1> DEFINE s == Samples(a, b)
           t == Samples(AfterSample(a), b)
           n == CountFrom(a, b)
           c == AfterSample(a)
<1>1. AudioNumbers \in Nat /\ AudioNumbers > 1  BY AudioSizes
<1>2. /\ a + 1 < AudioNumbers => c = a + 1
      /\ a + 1 = AudioNumbers => c = 0
      /\ c \in Numbers
  BY AfterIs
<1>3. /\ s \in Seq(Numbers) /\ Len(s) = n
      /\ \A k \in 1 .. n : s[k] = (a + (k - 1)) % AudioNumbers
  BY SamplesAre
<1>4. /\ Head(s) = s[1] /\ Tail(s) \in Seq(Numbers) /\ n >= 1 /\ Len(Tail(s)) = n - 1
      /\ \A k \in 1 .. n - 1 : Tail(s)[k] = s[k + 1]
  <2>1. s # << >>  OBVIOUS
  <2> HIDE DEF s, n
  <2> QED BY <2>1, <1>3, TailIs
<1>5. /\ a <= b => n = b - a
      /\ a > b => n = b - a + AudioNumbers
      /\ n \in Numbers
  BY CountIs
<1>6. /\ c <= b => CountFrom(c, b) = b - c
      /\ c > b => CountFrom(c, b) = b - c + AudioNumbers
  <2> HIDE DEF c
  <2> QED BY <1>2, CountIs
<1> DEFINE m == CountFrom(c, b)
<1>7. /\ t \in Seq(Numbers) /\ Len(t) = m
      /\ \A k \in 1 .. m : t[k] = (c + (k - 1)) % AudioNumbers
  BY <1>2, SamplesAre
<1> HIDE DEF s, t, n, c, m
<1>8. m = n - 1
  BY <1>1, <1>2, <1>4, <1>5, <1>6 DEF m, Numbers
<1>9. s[1] = a
  <2>1. s[1] = (a + (1 - 1)) % AudioNumbers /\ 0 \in Numbers  BY <1>1, <1>3, <1>4, <1>5 DEF Numbers
  <2>2. a + 0 < AudioNumbers => (a + 0) % AudioNumbers = a + 0  BY <2>1, PlaceIs
  <2> QED BY <1>1, <2>1, <2>2 DEF Numbers
<1>10. ASSUME NEW k \in 1 .. n - 1
       PROVE  Tail(s)[k] = t[k]
  <2>1. k + 1 \in 1 .. n /\ k \in 1 .. m /\ k \in Numbers /\ k - 1 \in Numbers
    BY <1>1, <1>5, <1>8 DEF Numbers
  <2>2. Tail(s)[k] = (a + k) % AudioNumbers
    <3>1. s[k + 1] = (a + ((k + 1) - 1)) % AudioNumbers /\ (k + 1) - 1 = k  BY <2>1, <1>3
    <3> QED BY <3>1, <1>4
  <2>3. t[k] = (c + (k - 1)) % AudioNumbers  BY <2>1, <1>7
  <2>4. /\ a + k < AudioNumbers => (a + k) % AudioNumbers = a + k
        /\ a + k >= AudioNumbers => (a + k) % AudioNumbers = a + k - AudioNumbers
    BY <2>1, PlaceIs
  <2> DEFINE j == k - 1
  <2>5. /\ c + j < AudioNumbers => (c + j) % AudioNumbers = c + j
        /\ c + j >= AudioNumbers => (c + j) % AudioNumbers = c + j - AudioNumbers
    <3>1. j \in Numbers  BY <2>1
    <3> HIDE DEF j
    <3> QED BY <3>1, <1>2, PlaceIs
  <2>6. (a + k) % AudioNumbers = (c + j) % AudioNumbers
    <3> DEFINE x == (a + k) % AudioNumbers
               y == (c + j) % AudioNumbers
    <3>1. /\ a + k < AudioNumbers => x = a + k
          /\ a + k >= AudioNumbers => x = a + k - AudioNumbers
          /\ c + j < AudioNumbers => y = c + j
          /\ c + j >= AudioNumbers => y = c + j - AudioNumbers
          /\ j = k - 1
      BY <2>4, <2>5
    <3> HIDE DEF x, y, j
    <3>2. x = y  BY <3>1, <2>1, <1>1, <1>2 DEF Numbers
    <3> QED BY <3>2 DEF x, y
  <2> QED BY <2>2, <2>3, <2>6
<1>11. Tail(s) = t
  <2>1. n - 1 \in Nat  BY <1>4, <1>5 DEF Numbers
  <2> QED BY <2>1, <1>4, <1>7, <1>8, <1>10, SeqEqual
<1> QED BY <1>4, <1>9, <1>11 DEF s, t, c

---------------------------------------------------------------------------
(* The audio driver's steps *)

LEMMA InitAudio == AudioInit \/ AudioIdle => AudioInv
<1> SUFFICES ASSUME NEW uses \in SUBSET {"read", "write", "off"}, AudioInitOf(uses)
             PROVE  AudioInv
  <2>1. {"off"} \in SUBSET {"read", "write", "off"} /\ {"read", "write"} \in SUBSET {"read", "write", "off"}
    OBVIOUS
  <2> QED BY <2>1 DEF AudioInit, AudioIdle
<1>1. 0 \in Numbers  BY AudioSizes DEF Numbers
<1>2. AudioTypes
  <2>1. \A c \in Channels : /\ recordFifo[c] = << >> /\ playFifo[c] = << >>
                             /\ Len(recordFifo[c]) <= AudioDepth /\ Len(playFifo[c]) <= AudioDepth
    BY AudioSizes, EmptySeq DEF AudioInitOf, Each
  <2>2. /\ recordFifo \in [Channels -> Seq(Numbers)] /\ playFifo \in [Channels -> Seq(Numbers)]
        /\ stored \in [Channels -> Numbers] /\ toPlay \in [Channels -> Numbers]
        /\ sounded \in [Channels -> Numbers]
    BY <1>1, EmptySeq DEF AudioInitOf, Each
  <2> QED BY <1>1, <2>1, <2>2 DEF AudioInitOf, AudioTypes
<1>3. RecordedInOrder /\ PlayedInOrder
  BY <1>1, NoSamples DEF AudioInitOf, RecordedInOrder, PlayedInOrder, Each
<1> QED BY <1>2, <1>3 DEF AudioInitOf, AudioInv, AudioCalls, RecordsByThreshold

\* What is known of a call under way.
LEMMA CallIs ==
  ASSUME AudioInv, audioCall # NoCall
  PROVE  /\ audioCall \in [op : {"read", "write"}, channel : Channels, len : Nat, count : Nat,
                           space : Nat \cup {-1}, threshold : BOOLEAN]
         /\ audioCall.op = audioUse
         /\ audioCall.count <= audioCall.len
         /\ audioCall.space # -1 => audioCall.count < audioCall.len
BY DEF AudioInv, AudioCalls

\* A step of the codec moves words of one kind only, and a call under way has
\* no fewer to read and no less room.
LEMMA CallKept ==
  ASSUME AudioInv, UNCHANGED <<audioUse, audioCall>>, AudioTypes',
         \A c \in Channels : /\ Len(recordFifo'[c]) >= Len(recordFifo[c])
                             /\ Len(playFifo'[c]) <= Len(playFifo[c])
  PROVE  AudioCalls'
<1>1. CASE audioCall = NoCall  BY <1>1 DEF AudioCalls
<1>2. CASE audioCall # NoCall
  <2> DEFINE c == audioCall.channel
  <2>1. c \in Channels  BY <1>2, CallIs
  <2>2. /\ Len(recordFifo[c]) \in Nat /\ Len(recordFifo'[c]) \in Nat
        /\ Len(playFifo[c]) \in Nat /\ Len(playFifo'[c]) \in Nat
    BY <2>1, LenProperties DEF AudioInv, AudioTypes
  <2>3. Len(recordFifo'[c]) >= Len(recordFifo[c]) /\ Len(playFifo'[c]) <= Len(playFifo[c])
    BY <2>1
  <2>4. BufThreshold \in Nat /\ AudioDepth \in Nat  BY AudioSizes
  <2> QED BY <1>2, <2>1, <2>2, <2>3, <2>4 DEF AudioInv, AudioCalls
<1> QED BY <1>1, <1>2

LEMMA SamplesKeeps == AudioInv /\ CodecSamples => AudioInv'
<1> SUFFICES ASSUME AudioInv, CodecSamples PROVE AudioInv'  OBVIOUS
<1>1. /\ ~overrun /\ sampled' = AfterSample(sampled) /\ sampled \in Numbers
      /\ recordFifo' = [c \in Channels |-> IF Len(recordFifo[c]) = AudioDepth THEN recordFifo[c]
                                          ELSE Append(recordFifo[c], sampled)]
      /\ overrun' = \E c \in Channels : Len(recordFifo[c]) = AudioDepth
      /\ UNCHANGED <<audioUse, playFifo, audioControl, audioCall, stored, toPlay, sounded, lastRecord>>
  <2>1. "CR" \notin audioControl  BY DEF AudioInv, AudioTypes
  <2> QED BY <2>1 DEF CodecSamples, AudioInv, AudioTypes
<1>2. sampled' \in Numbers  BY <1>1, AfterIs
<1>3. ASSUME NEW c \in Channels
      PROVE  /\ recordFifo'[c] \in Seq(Numbers)
             /\ Len(recordFifo'[c]) \in Nat /\ Len(recordFifo[c]) \in Nat
             /\ Len(recordFifo'[c]) >= Len(recordFifo[c]) /\ Len(recordFifo'[c]) <= AudioDepth
             /\ ~overrun' => recordFifo'[c] = Append(recordFifo[c], sampled)
                             /\ Len(recordFifo[c]) < AudioDepth
  <2>1. /\ recordFifo[c] \in Seq(Numbers) /\ Len(recordFifo[c]) \in Nat
        /\ Len(recordFifo[c]) <= AudioDepth /\ AudioDepth \in Nat
    BY AudioSizes, LenProperties DEF AudioInv, AudioTypes
  <2>2. CASE Len(recordFifo[c]) = AudioDepth  BY <1>1, <2>1, <2>2
  <2>3. CASE Len(recordFifo[c]) # AudioDepth
    <3>1. recordFifo'[c] = Append(recordFifo[c], sampled)  BY <1>1, <2>3
    <3>2. Append(recordFifo[c], sampled) \in Seq(Numbers)
          /\ Len(Append(recordFifo[c], sampled)) = Len(recordFifo[c]) + 1
      BY <1>1, <2>1, AppendIs
    <3> QED BY <2>1, <2>3, <3>1, <3>2
  <2> QED BY <2>2, <2>3
<1>4. recordFifo' \in [Channels -> Seq(Numbers)]
  <2>1. recordFifo' = [c \in Channels |-> recordFifo'[c]]  BY <1>1
  <2> QED BY <1>3, <2>1
<1>5. AudioTypes'
  BY <1>1, <1>2, <1>3, <1>4 DEF AudioInv, AudioTypes
<1>6. AudioCalls'
  <2>1. \A c \in Channels : Len(playFifo'[c]) <= Len(playFifo[c])
    BY <1>1, LenProperties DEF AudioInv, AudioTypes
  <2> QED BY <1>1, <1>3, <1>5, <2>1, CallKept
<1>7. RecordedInOrder'
  <2> SUFFICES ASSUME ~overrun', NEW c \in Channels
               PROVE  recordFifo'[c] = Samples(stored'[c], sampled')
    BY DEF RecordedInOrder
  <2>1. recordFifo[c] = Samples(stored[c], sampled) /\ stored[c] \in Numbers
    BY <1>1 DEF AudioInv, AudioTypes, RecordedInOrder
  <2>2. CountFrom(stored[c], sampled) < AudioNumbers - 1
    <3>1. Len(recordFifo[c]) = CountFrom(stored[c], sampled)  BY <1>1, <2>1, SamplesAre
    <3> QED BY <1>3, <3>1, AudioSizes
  <2>3. Append(recordFifo[c], sampled) = Samples(stored[c], AfterSample(sampled))
    BY <1>1, <2>1, <2>2, OneMore
  <2> QED BY <1>1, <1>3, <2>3
<1>8. PlayedInOrder' /\ RecordsByThreshold'
  BY <1>1 DEF AudioInv, PlayedInOrder, RecordsByThreshold
<1> QED BY <1>5, <1>6, <1>7, <1>8 DEF AudioInv

LEMMA SoundsKeeps == AudioInv /\ CodecSounds => AudioInv'
<1> SUFFICES ASSUME AudioInv, CodecSounds PROVE AudioInv'  OBVIOUS
<1>1. /\ playFifo' = [c \in Channels |-> IF playFifo[c] = << >> THEN << >> ELSE Tail(playFifo[c])]
      /\ sounded' = [c \in Channels |-> IF playFifo[c] = << >> THEN sounded[c]
                                        ELSE AfterSample(Head(playFifo[c]))]
      /\ UNCHANGED <<audioUse, recordFifo, audioControl, audioCall, sampled, stored, toPlay,
                     overrun, lastRecord>>
  BY DEF CodecSounds
<1>2. ASSUME NEW c \in Channels
      PROVE  /\ playFifo'[c] \in Seq(Numbers) /\ Len(playFifo'[c]) \in Nat
             /\ Len(playFifo[c]) \in Nat /\ Len(playFifo'[c]) <= Len(playFifo[c])
             /\ Len(playFifo'[c]) <= AudioDepth
             /\ sounded'[c] \in Numbers
             /\ playFifo'[c] = Samples(sounded'[c], toPlay[c])
  <2>1. /\ playFifo[c] \in Seq(Numbers) /\ Len(playFifo[c]) \in Nat
        /\ Len(playFifo[c]) <= AudioDepth /\ AudioDepth \in Nat
        /\ sounded[c] \in Numbers /\ toPlay[c] \in Numbers
        /\ playFifo[c] = Samples(sounded[c], toPlay[c])
    BY AudioSizes, LenProperties DEF AudioInv, AudioTypes, PlayedInOrder
  <2>2. CASE playFifo[c] = << >>
    <3>1. playFifo'[c] = playFifo[c] /\ sounded'[c] = sounded[c]  BY <1>1, <2>2
    <3> QED BY <2>1, <3>1
  <2>3. CASE playFifo[c] # << >>
    <3>1. playFifo'[c] = Tail(playFifo[c]) /\ sounded'[c] = AfterSample(Head(playFifo[c]))
      BY <1>1, <2>3
    <3>2. Tail(playFifo[c]) \in Seq(Numbers) /\ Len(Tail(playFifo[c])) = Len(playFifo[c]) - 1
          /\ Len(playFifo[c]) >= 1
      BY <2>1, <2>3, TailIs
    <3>3. /\ Head(playFifo[c]) = sounded[c]
          /\ Tail(playFifo[c]) = Samples(AfterSample(sounded[c]), toPlay[c])
      BY <2>1, <2>3, OneLess
    <3>4. AfterSample(sounded[c]) \in Numbers  BY <2>1, AfterIs
    <3> QED BY <2>1, <3>1, <3>2, <3>3, <3>4
  <2> QED BY <2>2, <2>3
<1>3. playFifo' \in [Channels -> Seq(Numbers)] /\ sounded' \in [Channels -> Numbers]
  <2>1. /\ playFifo' = [c \in Channels |-> playFifo'[c]]
        /\ sounded' = [c \in Channels |-> sounded'[c]]
    BY <1>1
  <2> QED BY <1>2, <2>1
<1>4. AudioTypes'
  BY <1>1, <1>2, <1>3 DEF AudioInv, AudioTypes
<1>5. AudioCalls'
  <2>1. \A c \in Channels : Len(recordFifo'[c]) >= Len(recordFifo[c])
    BY <1>1, LenProperties DEF AudioInv, AudioTypes
  <2> QED BY <1>1, <1>2, <1>4, <2>1, CallKept
<1>6. PlayedInOrder'  BY <1>1, <1>2 DEF PlayedInOrder
<1>7. RecordedInOrder' /\ RecordsByThreshold'
  BY <1>1 DEF AudioInv, RecordedInOrder, RecordsByThreshold
<1> QED BY <1>4, <1>5, <1>6, <1>7 DEF AudioInv

\* A step of the driver that leaves the FIFOs and their words alone.
LEMMA AudioRests ==
  ASSUME AudioInv, UNCHANGED <<audioUse, fifoVars, wordVars>>,
         audioControl' \subseteq {"RE", "WE"}, AudioCalls', RecordsByThreshold'
  PROVE  AudioInv'
BY DEF AudioInv, AudioTypes, RecordedInOrder, PlayedInOrder, fifoVars, wordVars

\* No call is under way, or one with nothing looked at.
LEMMA BeginMovingKeeps ==
  ASSUME AudioInv, NEW c \in Channels, NEW len \in Nat, NEW threshold \in BOOLEAN,
         audioUse # "off", BeginMoving(audioUse, c, len, threshold)
  PROVE  AudioInv'
<1>1. audioCall' = [op |-> audioUse, channel |-> c, len |-> len, count |-> 0, space |-> -1,
                    threshold |-> threshold]
      /\ UNCHANGED <<audioUse, fifoVars, audioControl, wordVars, lastRecord>>
      /\ (threshold => ~TooFew(Avail(audioUse, c)))
  BY DEF BeginMoving
<1>2. audioUse \in {"read", "write"}  BY DEF AudioInv, AudioTypes
<1>3. Len(recordFifo[c]) \in Nat /\ BufThreshold \in Nat
  BY AudioSizes, LenProperties DEF AudioInv, AudioTypes
<1>4. audioUse = "read" /\ threshold => 0 + Len(recordFifo[c]) > BufThreshold
  BY <1>1, <1>3 DEF TooFew, Avail
<1>5. recordFifo' = recordFifo  BY <1>1 DEF fifoVars
<1>6. AudioCalls'
  BY <1>1, <1>2, <1>3, <1>4, <1>5 DEF AudioCalls
<1> QED BY <1>1, <1>6, AudioRests DEF AudioInv, AudioTypes, RecordsByThreshold

LEMMA LookKeeps == AudioInv /\ LookAtSpace => AudioInv'
<1> SUFFICES ASSUME AudioInv, LookAtSpace PROVE AudioInv'  OBVIOUS
<1> DEFINE c == audioCall.channel
<1>1. /\ audioCall # NoCall /\ audioCall.count < audioCall.len
      /\ audioCall' = [audioCall EXCEPT !.space = Avail(audioCall.op, audioCall.channel)]
      /\ UNCHANGED <<audioUse, fifoVars, audioControl, wordVars, lastRecord>>
  BY DEF LookAtSpace
<1>2. /\ audioCall \in [op : {"read", "write"}, channel : Channels, len : Nat, count : Nat,
                        space : Nat \cup {-1}, threshold : BOOLEAN]
      /\ audioCall.op = audioUse
  BY <1>1, CallIs
<1>3. /\ Len(recordFifo[c]) \in Nat /\ Len(playFifo[c]) \in Nat /\ Len(playFifo[c]) <= AudioDepth
      /\ AudioDepth \in Nat /\ BufThreshold \in Nat
  BY <1>2, AudioSizes, LenProperties DEF AudioInv, AudioTypes
<1>4. /\ audioCall.op = "read" => Avail(audioCall.op, c) = Len(recordFifo[c])
      /\ audioCall.op = "write" => Avail(audioCall.op, c) = AudioDepth - Len(playFifo[c])
      /\ Avail(audioCall.op, c) \in Nat
  <2>1. CASE audioCall.op = "read"  BY <2>1, <1>3 DEF Avail
  <2>2. CASE audioCall.op = "write"
    <3>1. Avail(audioCall.op, c) = AudioDepth - Len(playFifo[c])  BY <2>2 DEF Avail
    <3> QED BY <2>2, <3>1, <1>3
  <2> QED BY <2>1, <2>2, <1>2
<1>5. audioCall.op = "read" /\ audioCall.threshold =>
        audioCall.count + Len(recordFifo[c]) > BufThreshold
  BY <1>1 DEF AudioInv, AudioCalls
<1>6. recordFifo' = recordFifo /\ playFifo' = playFifo  BY <1>1 DEF fifoVars
<1> DEFINE n == Avail(audioCall.op, c)
<1>7. audioCall' = [op |-> audioCall.op, channel |-> c, len |-> audioCall.len,
                    count |-> audioCall.count, space |-> n, threshold |-> audioCall.threshold]
  BY <1>1, <1>2
<1>8. AudioCalls'
  <2> HIDE DEF n
  <2>1. /\ n \in Nat
        /\ audioCall.op = "read" => n = Len(recordFifo[c])
        /\ audioCall.op = "write" => n = AudioDepth - Len(playFifo[c])
    BY <1>4 DEF n
  <2>2. audioCall.op = "read" /\ audioCall.threshold /\ n = 0 => audioCall.count > BufThreshold
    BY <1>2, <1>3, <1>5, <2>1
  <2>3. audioCall.op = "write" /\ n > 0 => Len(playFifo[c]) < AudioDepth
    BY <1>3, <2>1
  <2> QED BY <1>1, <1>2, <1>3, <1>5, <1>6, <1>7, <2>1, <2>2, <2>3 DEF AudioCalls
<1> QED BY <1>1, <1>8, AudioRests DEF AudioInv, AudioTypes, RecordsByThreshold

LEMMA EndKeeps == AudioInv /\ EndMoving => AudioInv'
<1> SUFFICES ASSUME AudioInv, EndMoving PROVE AudioInv'  OBVIOUS
<1>1. audioCall' = NoCall /\ UNCHANGED <<audioUse, fifoVars, audioControl, wordVars>>
  BY DEF EndMoving
<1>2. /\ audioCall \in [op : {"read", "write"}, channel : Channels, len : Nat, count : Nat,
                        space : Nat \cup {-1}, threshold : BOOLEAN]
      /\ audioCall.count <= audioCall.len
  BY CallIs DEF EndMoving
<1>3. audioCall.count >= audioCall.len \/ audioCall.space = 0
  BY <1>2 DEF EndMoving, GoesOn
<1>4. RecordsByThreshold'
  <2>1. CASE audioCall.op = "read" /\ audioCall.threshold
    <3>1. lastRecord' = [len |-> audioCall.len, count |-> audioCall.count]
      BY <2>1 DEF EndMoving
    <3>2. audioCall.space = 0 => audioCall.count > BufThreshold
      BY <2>1 DEF EndMoving, AudioInv, AudioCalls
    <3>3. audioCall.count = audioCall.len \/ audioCall.count > BufThreshold
      BY <1>2, <1>3, <3>2
    <3> QED BY <3>1, <3>3 DEF RecordsByThreshold
  <2>2. CASE ~(audioCall.op = "read" /\ audioCall.threshold)
    <3>1. lastRecord' = lastRecord  BY <2>2 DEF EndMoving
    <3> QED BY <3>1 DEF AudioInv, RecordsByThreshold
  <2> QED BY <2>1, <2>2
<1> QED BY <1>1, <1>4, AudioRests DEF AudioInv, AudioTypes, AudioCalls

LEMMA MoveKeeps == AudioInv /\ MoveWord => AudioInv'
<1> SUFFICES ASSUME AudioInv, MoveWord PROVE AudioInv'  OBVIOUS
<1> DEFINE c == audioCall.channel
<1>1. /\ audioCall # NoCall /\ audioCall.space > 0
      /\ audioCall' = [audioCall EXCEPT !.space = -1, !.count = audioCall.count + 1]
      /\ UNCHANGED <<audioUse, audioControl, sampled, sounded, overrun, lastRecord>>
  BY DEF MoveWord, GoesOn
<1>2. /\ audioCall \in [op : {"read", "write"}, channel : Channels, len : Nat, count : Nat,
                        space : Nat \cup {-1}, threshold : BOOLEAN]
      /\ audioCall.op = audioUse /\ audioCall.count < audioCall.len
  BY <1>1, CallIs
<1>3. /\ recordFifo \in [Channels -> Seq(Numbers)] /\ playFifo \in [Channels -> Seq(Numbers)]
      /\ stored \in [Channels -> Numbers] /\ toPlay \in [Channels -> Numbers]
      /\ sounded \in [Channels -> Numbers] /\ sampled \in Numbers
      /\ Len(recordFifo[c]) \in Nat /\ Len(playFifo[c]) \in Nat
      /\ Len(recordFifo[c]) <= AudioDepth /\ Len(playFifo[c]) <= AudioDepth
      /\ AudioDepth \in Nat /\ BufThreshold \in Nat /\ c \in Channels
      /\ recordFifo[c] \in Seq(Numbers) /\ playFifo[c] \in Seq(Numbers)
  BY <1>2, AudioSizes, LenProperties DEF AudioInv, AudioTypes
<1>4. audioCall' = [op |-> audioCall.op, channel |-> c, len |-> audioCall.len,
                    count |-> audioCall.count + 1, space |-> -1, threshold |-> audioCall.threshold]
  BY <1>1, <1>2
<1>5. RecordsByThreshold'  BY <1>1 DEF AudioInv, RecordsByThreshold
<1>6. CASE audioCall.op = "read"
  <2>1. Len(recordFifo[c]) > 0 /\ recordFifo[c] # << >>
    BY <1>1, <1>3, <1>6, EmptySeq DEF AudioInv, AudioCalls
  <2>2. /\ recordFifo' = [recordFifo EXCEPT ![c] = Tail(recordFifo[c])]
        /\ stored' = [stored EXCEPT ![c] = AfterSample(Head(recordFifo[c]))]
        /\ UNCHANGED <<playFifo, toPlay>>
    BY <1>6, <2>1 DEF MoveWord, ReadWord
  <2>3. /\ Head(recordFifo[c]) \in Numbers /\ Tail(recordFifo[c]) \in Seq(Numbers)
        /\ Len(Tail(recordFifo[c])) = Len(recordFifo[c]) - 1
    BY <1>3, <2>1, TailIs
  <2>4. AfterSample(Head(recordFifo[c])) \in Numbers  BY <2>3, AfterIs
  <2>5. \A d \in Channels : recordFifo'[d] = IF d = c THEN Tail(recordFifo[c]) ELSE recordFifo[d]
    BY <1>3, <2>2
  <2>6. AudioTypes'
    <3>1. \A d \in Channels : Len(recordFifo'[d]) <= AudioDepth
      <4> SUFFICES ASSUME NEW d \in Channels PROVE Len(recordFifo'[d]) <= AudioDepth
        OBVIOUS
      <4>1. CASE d = c
        <5>1. recordFifo'[d] = Tail(recordFifo[c])  BY <4>1, <2>5
        <5>2. Len(recordFifo'[d]) = Len(recordFifo[c]) - 1  BY <5>1, <2>3
        <5> QED BY <5>2, <1>3
      <4>2. CASE d # c  BY <4>2, <2>5 DEF AudioInv, AudioTypes
      <4> QED BY <4>1, <4>2
    <3>2. recordFifo' \in [Channels -> Seq(Numbers)] /\ stored' \in [Channels -> Numbers]
      BY <1>3, <2>2, <2>3, <2>4
    <3> QED BY <1>1, <2>2, <3>1, <3>2 DEF AudioInv, AudioTypes
  <2>7. AudioCalls'
    <3>1. Len(recordFifo'[c]) = Len(recordFifo[c]) - 1  BY <1>3, <2>3, <2>5
    <3>2. audioCall.threshold =>
            audioCall.count + Len(recordFifo[c]) > BufThreshold
      BY <1>1, <1>6 DEF AudioInv, AudioCalls
    <3>3. audioCall.threshold => (audioCall.count + 1) + Len(recordFifo'[c]) > BufThreshold
      BY <1>2, <1>3, <3>1, <3>2
    <3>4. audioCall.count + 1 <= audioCall.len /\ audioCall.count + 1 \in Nat  BY <1>2
    <3> QED BY <1>1, <1>2, <1>4, <1>6, <3>3, <3>4 DEF AudioCalls
  <2>8. RecordedInOrder'
    <3> SUFFICES ASSUME ~overrun, NEW d \in Channels
                 PROVE  recordFifo'[d] = Samples(stored'[d], sampled)
      BY <1>1 DEF RecordedInOrder
    <3>1. recordFifo[d] = Samples(stored[d], sampled)  BY DEF AudioInv, RecordedInOrder
    <3>2. CASE d # c  BY <1>3, <2>2, <3>1, <3>2
    <3>3. CASE d = c
      <4>1. /\ Head(recordFifo[c]) = stored[c]
            /\ Tail(recordFifo[c]) = Samples(AfterSample(stored[c]), sampled)
        BY <1>3, <2>1, <3>1, <3>3, OneLess
      <4> QED BY <1>3, <2>2, <3>3, <4>1
    <3> QED BY <3>2, <3>3
  <2>9. PlayedInOrder'  BY <1>1, <2>2 DEF AudioInv, PlayedInOrder
  <2> QED BY <1>5, <2>6, <2>7, <2>8, <2>9 DEF AudioInv
<1>7. CASE audioCall.op = "write"
  <2>1. Len(playFifo[c]) < AudioDepth /\ "CW" \notin audioControl
    BY <1>1, <1>7 DEF AudioInv, AudioCalls, AudioTypes
  <2>2. /\ playFifo' = [playFifo EXCEPT ![c] = Append(playFifo[c], toPlay[c])]
        /\ toPlay' = [toPlay EXCEPT ![c] = AfterSample(toPlay[c])]
        /\ UNCHANGED <<recordFifo, stored>>
    <3>1. WriteWord(c)  BY <1>7 DEF MoveWord
    <3>2. ~(Len(playFifo[c]) = AudioDepth \/ "CW" \in audioControl)  BY <1>3, <2>1
    <3> QED BY <3>1, <3>2 DEF WriteWord
  <2>3. toPlay[c] \in Numbers /\ sounded[c] \in Numbers  BY <1>3
  <2>4. /\ Append(playFifo[c], toPlay[c]) \in Seq(Numbers)
        /\ Len(Append(playFifo[c], toPlay[c])) = Len(playFifo[c]) + 1
    BY <1>3, <2>3, AppendIs
  <2>5. AfterSample(toPlay[c]) \in Numbers  BY <2>3, AfterIs
  <2>6. \A d \in Channels :
          playFifo'[d] = IF d = c THEN Append(playFifo[c], toPlay[c]) ELSE playFifo[d]
    BY <1>3, <2>2
  <2>7. AudioTypes'
    <3>1. \A d \in Channels : Len(playFifo'[d]) <= AudioDepth
      <4> SUFFICES ASSUME NEW d \in Channels PROVE Len(playFifo'[d]) <= AudioDepth
        OBVIOUS
      <4>1. CASE d = c
        <5>1. playFifo'[d] = Append(playFifo[c], toPlay[c])  BY <4>1, <2>6
        <5>2. Len(playFifo'[d]) = Len(playFifo[c]) + 1  BY <5>1, <2>4
        <5> QED BY <5>2, <1>3, <2>1
      <4>2. CASE d # c  BY <4>2, <2>6 DEF AudioInv, AudioTypes
      <4> QED BY <4>1, <4>2
    <3>2. playFifo' \in [Channels -> Seq(Numbers)] /\ toPlay' \in [Channels -> Numbers]
      BY <1>3, <2>2, <2>4, <2>5
    <3> QED BY <1>1, <2>2, <3>1, <3>2 DEF AudioInv, AudioTypes
  <2>8. AudioCalls'
    <3>1. audioCall.count + 1 <= audioCall.len /\ audioCall.count + 1 \in Nat  BY <1>2
    <3> QED BY <1>1, <1>2, <1>4, <1>7, <3>1 DEF AudioCalls
  <2>9. PlayedInOrder'
    <3> SUFFICES ASSUME NEW d \in Channels
                 PROVE  playFifo'[d] = Samples(sounded[d], toPlay'[d])
      BY <1>1 DEF PlayedInOrder
    <3>1. playFifo[d] = Samples(sounded[d], toPlay[d])  BY DEF AudioInv, PlayedInOrder
    <3>2. CASE d # c  BY <1>3, <2>2, <3>1, <3>2
    <3>3. CASE d = c
      <4>1. CountFrom(sounded[c], toPlay[c]) < AudioNumbers - 1
        <5>1. Len(playFifo[c]) = CountFrom(sounded[c], toPlay[c])
          BY <2>3, <3>1, <3>3, SamplesAre
        <5> QED BY <2>1, <5>1, <1>3, AudioSizes
      <4>2. Append(playFifo[c], toPlay[c]) = Samples(sounded[c], AfterSample(toPlay[c]))
        BY <2>3, <3>1, <3>3, <4>1, OneMore
      <4> QED BY <1>3, <2>2, <3>3, <4>2
    <3> QED BY <3>2, <3>3
  <2>10. RecordedInOrder'  BY <1>1, <2>2 DEF AudioInv, RecordedInOrder
  <2> QED BY <1>5, <2>7, <2>8, <2>9, <2>10 DEF AudioInv
<1> QED BY <1>2, <1>6, <1>7

LEMMA ResetKeeps == AudioInv /\ ResetAudioCore => AudioInv'
<1> SUFFICES ASSUME AudioInv, ResetAudioCore PROVE AudioInv'  OBVIOUS
<1>1. /\ recordFifo' = [c \in Channels |-> << >>] /\ playFifo' = [c \in Channels |-> << >>]
      /\ stored' = [c \in Channels |-> sampled] /\ sounded' = toPlay /\ overrun' = FALSE
      /\ UNCHANGED <<audioUse, audioCall, sampled, toPlay, lastRecord>>
      /\ audioCall = NoCall /\ audioControl' \subseteq {"RE", "WE"}
  BY DEF ResetAudioCore, Each, AfterReset, AudioInv, AudioTypes
<1>2. sampled \in Numbers /\ toPlay \in [Channels -> Numbers]  BY DEF AudioInv, AudioTypes
<1>3. AudioTypes'
  <2>1. \A c \in Channels : /\ recordFifo'[c] = << >> /\ playFifo'[c] = << >>
                             /\ Len(recordFifo'[c]) <= AudioDepth /\ Len(playFifo'[c]) <= AudioDepth
    BY <1>1, AudioSizes, EmptySeq
  <2>2. /\ recordFifo' \in [Channels -> Seq(Numbers)] /\ playFifo' \in [Channels -> Seq(Numbers)]
        /\ stored' \in [Channels -> Numbers] /\ sounded' \in [Channels -> Numbers]
    BY <1>1, <1>2, EmptySeq
  <2> QED BY <1>1, <2>1, <2>2 DEF AudioInv, AudioTypes
<1>4. AudioCalls'  BY <1>1 DEF AudioCalls
<1>5. RecordedInOrder' /\ PlayedInOrder'
  BY <1>1, <1>2, NoSamples DEF RecordedInOrder, PlayedInOrder
<1>6. RecordsByThreshold'  BY <1>1 DEF AudioInv, RecordsByThreshold
<1> QED BY <1>3, <1>4, <1>5, <1>6 DEF AudioInv

LEMMA AudioKeeps == AudioInv /\ [AudioNext]_audioVars => AudioInv'
<1> SUFFICES ASSUME AudioInv, [AudioNext]_audioVars PROVE AudioInv'  OBVIOUS
<1>1. CASE UNCHANGED audioVars
  BY <1>1 DEF audioVars, AudioInv, AudioTypes, AudioCalls, RecordedInOrder, PlayedInOrder,
              RecordsByThreshold
<1>2. ASSUME NEW c \in Channels, NEW len \in AudioLengths, RecordNothing(c, len)
      PROVE  AudioInv'
  <2>1. AudioCalls'  BY <1>2 DEF RecordNothing, AudioCalls
  <2> QED BY <1>2, <2>1, AudioRests DEF RecordNothing, AudioInv, AudioTypes, RecordsByThreshold
<1>3. ASSUME NEW c \in Channels, NEW len \in AudioLengths, NEW threshold \in BOOLEAN,
             audioUse # "off", BeginMoving(audioUse, c, len, threshold)
      PROVE  AudioInv'
  <2>1. len \in Nat  BY AudioAssumption
  <2> QED BY <1>3, <2>1, BeginMovingKeeps
<1>4. ASSUME NEW bit \in {"RE", "WE"}, NEW on \in BOOLEAN, SwitchInterrupt(bit, on)
      PROVE  AudioInv'
  <2>1. audioControl' \subseteq {"RE", "WE"}
    BY <1>4 DEF SwitchInterrupt, AudioInv, AudioTypes
  <2>2. AudioCalls' /\ RecordsByThreshold'
    BY <1>4 DEF SwitchInterrupt, AudioInv, AudioCalls, RecordsByThreshold
  <2> QED BY <1>4, <2>1, <2>2, AudioRests DEF SwitchInterrupt
<1> QED BY <1>1, <1>2, <1>3, <1>4, SamplesKeeps, SoundsKeeps, LookKeeps, MoveKeeps, EndKeeps,
          ResetKeeps DEF AudioNext


---------------------------------------------------------------------------
(* The keyboard's tables *)

LEMMA TableSizes == SCAN_CODE_NUM = 102  BY DEF SCAN_CODE_NUM, single_byte_make_code

\* No code stands for two keys, and every key has one.
LEMMA ShortCodesDiffer ==
  \A i, j \in 1 .. 102 :
    single_byte_make_code[i] = single_byte_make_code[j] /\ single_byte_make_code[i] # 0 => i = j
BY DEF single_byte_make_code

LEMMA LongCodesDiffer ==
  \A i, j \in 1 .. 102 :
    multi_byte_make_code[i] = multi_byte_make_code[j] /\ multi_byte_make_code[i] # 0 => i = j
BY DEF multi_byte_make_code

LEMMA EveryKeyHasCode ==
  \A i \in 1 .. 102 : single_byte_make_code[i] = 0 => multi_byte_make_code[i] # 0
BY DEF single_byte_make_code, multi_byte_make_code

LEMMA PlaceIsKey ==
  ASSUME NEW table, NEW i \in 1 .. 102, \A j \in 1 .. 102 : table[j] = table[i] => j = i
  PROVE  PlaceIn(table, table[i]) = i - 1
<1> DEFINE places == {k \in 1 .. SCAN_CODE_NUM : table[k] = table[i]}
<1>1. places = {i}  BY TableSizes
<1>2. places # {} /\ PlaceIn(table, table[i]) = Min(places) - 1
  <2>1. places # {}  BY <1>1
  <2> QED BY <2>1 DEF PlaceIn
<1>3. Min(places) = i
  <2>1. Min({i}) = i  BY DEF Min
  <2> QED BY <1>1, <2>1
<1> HIDE DEF places
<1> QED BY <1>2, <1>3

NamesInv == NamedAsPressed /\ CharacterOfKey

LEMMA NamesBegin == KeyInit => NamesInv
BY DEF KeyInit, NamesInv, NamedAsPressed, CharacterOfKey, NoScan

LEMMA PressedIsNamed ==
  ASSUME NEW k \in 0 .. SCAN_CODE_NUM - 1, NEW break \in BOOLEAN, Key(k, break)
  PROVE  NamesInv'
<1> DEFINE short == single_byte_make_code[k + 1]
           long == multi_byte_make_code[k + 1]
           made == IF short # 0 THEN short ELSE long
           s == [key |-> k, code |-> made, long |-> short = 0, break |-> break]
           idx == PlaceIn(single_byte_make_code, made)
<1>1. k \in Int /\ k + 1 \in 1 .. 102 /\ (k + 1) - 1 = k  BY TableSizes
<1>2. Scanned(s)  BY DEF Key
<1>3. /\ s.key = k /\ s.code = made /\ s.long = (short = 0) /\ s.break = break  OBVIOUS
<1>4. short # 0 => idx = k
  <2> SUFFICES ASSUME short # 0 PROVE PlaceIn(single_byte_make_code, short) = k  OBVIOUS
  <2>1. \A j \in 1 .. 102 : single_byte_make_code[j] = single_byte_make_code[k + 1] => j = k + 1
    BY <1>1, ShortCodesDiffer
  <2> QED BY <1>1, <2>1, PlaceIsKey
<1>5. short = 0 => PlaceIn(multi_byte_make_code, made) = k
  <2> SUFFICES ASSUME short = 0 PROVE PlaceIn(multi_byte_make_code, long) = k  OBVIOUS
  <2>1. long # 0  BY <1>1, EveryKeyHasCode
  <2>2. \A j \in 1 .. 102 : multi_byte_make_code[j] = multi_byte_make_code[k + 1] => j = k + 1
    BY <1>1, <2>1, LongCodesDiffer
  <2> QED BY <1>1, <2>2, PlaceIsKey
<1> HIDE DEF s, short, made, idx
<1>6. scan' = s /\ Decode(s) /\ Translate(mode', s.code)  BY <1>2 DEF Scanned
<1>7. NamedAsPressed'
  <2> SUFFICES ASSUME ~break PROVE str' = k
    BY <1>3, <1>6 DEF NamedAsPressed
  <2>1. CASE short = 0
    <3>1. mode' = "LONG_BINARY"  BY <1>3, <1>6, <2>1 DEF Decode
    <3> QED BY <1>3, <1>5, <1>6, <2>1, <3>1 DEF Translate, TableOf
  <2>2. CASE short # 0
    <3>1. mode' = "ASCII" \/ mode' = "BINARY"  BY <1>3, <1>6, <2>2 DEF Decode
    <3> QED BY <1>3, <1>4, <1>6, <2>2, <3>1 DEF Translate, TableOf, idx
  <2> QED BY <2>1, <2>2
<1>8. CharacterOfKey'
  <2> SUFFICES ASSUME mode' = "ASCII" PROVE ascii' = k /\ k \in ascii_codes \cup {39}
    BY <1>3, <1>6 DEF CharacterOfKey
  <2>1. short # 0 /\ HasCharacter(idx) /\ ascii' = idx
    BY <1>3, <1>6 DEF Decode, idx
  <2>2. (k < 40 \/ k = 68 \/ k > 79) /\ k # 102  BY <1>4, <2>1, TableSizes DEF HasCharacter
  <2>3. k \in 0 .. 39 \/ k = 68 \/ k \in 80 .. 101  BY <1>1, <2>2
  <2> QED BY <1>4, <2>1, <2>3 DEF ascii_codes
<1> QED BY <1>7, <1>8 DEF NamesInv

LEMMA NamesKeeps == NamesInv /\ [KeyNext]_keyVars => NamesInv'
<1> SUFFICES ASSUME NamesInv, [KeyNext]_keyVars PROVE NamesInv'  OBVIOUS
<1>1. ASSUME NEW k \in 0 .. SCAN_CODE_NUM - 1, NEW break \in BOOLEAN, Key(k, break)
      PROVE  NamesInv'
  BY <1>1, PressedIsNamed
<1>2. ASSUME NEW made, NEW long,
             Scanned([key |-> -1, code |-> made, long |-> long, break |-> FALSE])
      PROVE  NamesInv'
  BY <1>2 DEF Scanned, NamesInv, NamedAsPressed, CharacterOfKey
<1>3. CASE UNCHANGED keyVars
  BY <1>3 DEF keyVars, NamesInv, NamedAsPressed, CharacterOfKey
<1> QED BY <1>1, <1>2, <1>3 DEF KeyNext

---------------------------------------------------------------------------
(* Sequences *)

LEMMA Joined ==
  ASSUME NEW S, NEW s \in Seq(S), NEW t \in Seq(S)
  PROVE  /\ s \o t \in Seq(S) /\ Len(s \o t) = Len(s) + Len(t)
         /\ \A n \in Nat : 1 <= n /\ n <= Len(s) => (s \o t)[n] = s[n]
         /\ \A n \in Nat : 1 <= n /\ n <= Len(t) => (s \o t)[n + Len(s)] = t[n]
<1>1. \A i \in 1 .. Len(s) + Len(t) :
        (s \o t)[i] = IF i <= Len(s) THEN s[i] ELSE t[i - Len(s)]
  BY ConcatProperties
<1> QED BY <1>1, ConcatProperties, LenProperties


---------------------------------------------------------------------------
(* Scan codes on their way *)

DecoderStates == {"INIT", "LONG_CODE", "BREAK_CODE", "LONG_BREAK_CODE"}
AllBytes == Keys \cup PrefixBytes \cup {ACK, PASSED, MOUSE_ID}
IsAnswer(byte) == byte \in {ACK, PASSED}

\* The decoder is in this state when it has read a part of the code of e, or
\* nothing of it.
HasRead(e, st) ==
  \/ st = "INIT"
  \/ st = "LONG_CODE" /\ e.long
  \/ st = "BREAK_CODE" /\ ~e.long /\ e.break
  \/ st = "LONG_BREAK_CODE" /\ e.long /\ e.break

\* The byte that it reads next.
ByteOf(e, st) ==
  IF st = "INIT" /\ e.long THEN "E0"
  ELSE IF st \in {"INIT", "LONG_CODE"} /\ e.break THEN "F0" ELSE e.key

LEMMA BytesDiffer ==
  /\ \A k \in Keys : k # "E0" /\ k # "F0" /\ k # ACK /\ k # PASSED /\ k # MOUSE_ID
  /\ PrefixBytes = {"E0", "F0"} /\ ACK = "FA" /\ PASSED = "AA" /\ MOUSE_ID = "00"
BY Ps2Assumption DEF PrefixBytes, ACK, PASSED, MOUSE_ID

\* What the decoder makes of it.
LEMMA ByteOfIs ==
  ASSUME NEW e \in KeyEvents, NEW st \in DecoderStates, HasRead(e, st)
  PROVE  /\ ByteOf(e, st) \in AllBytes /\ ~IsAnswer(ByteOf(e, st)) /\ ByteOf(e, st) # MOUSE_ID
         /\ ByteOf(e, st) \in PrefixBytes =>
              /\ NextState(st, ByteOf(e, st)) \in DecoderStates
              /\ NextState(st, ByteOf(e, st)) # "INIT"
              /\ HasRead(e, NextState(st, ByteOf(e, st)))
         /\ ByteOf(e, st) \notin PrefixBytes => Decoded(st, ByteOf(e, st)) = e
<1> DEFINE b == ByteOf(e, st)
<1>1. e.key \in Keys /\ e.long \in BOOLEAN /\ e.break \in BOOLEAN
      /\ e = [key |-> e.key, long |-> e.long, break |-> e.break]
  BY DEF KeyEvents
<1>2. CASE b = e.key
  <2>1. b \in Keys /\ b \notin PrefixBytes  BY <1>1, <1>2, BytesDiffer
  <2>2. e.long = (st \in {"LONG_CODE", "LONG_BREAK_CODE"})
        /\ e.break = (st \in {"BREAK_CODE", "LONG_BREAK_CODE"})
    BY <1>1, <1>2, BytesDiffer DEF ByteOf, HasRead, DecoderStates
  <2>3. Decoded(st, b) = e  BY <1>1, <1>2, <2>2 DEF Decoded
  <2> QED BY <2>1, <2>3, BytesDiffer DEF AllBytes, IsAnswer
<1>3. CASE b # e.key
  <2>1. b \in PrefixBytes  BY <1>3, BytesDiffer DEF ByteOf
  <2>2. b \in AllBytes /\ ~IsAnswer(b) /\ b # MOUSE_ID
    BY <2>1, BytesDiffer DEF AllBytes, IsAnswer
  <2>3. \/ st = "INIT" /\ e.long /\ b = "E0" /\ NextState(st, b) = "LONG_CODE"
        \/ st = "INIT" /\ ~e.long /\ e.break /\ b = "F0" /\ NextState(st, b) = "BREAK_CODE"
        \/ st = "LONG_CODE" /\ e.long /\ e.break /\ b = "F0" /\ NextState(st, b) = "LONG_BREAK_CODE"
    BY <1>1, <1>3, BytesDiffer DEF ByteOf, HasRead, NextState
  <2> QED BY <2>1, <2>2, <2>3 DEF HasRead, DecoderStates
<1> QED BY <1>2, <1>3

\* Each byte with the doing it tells of, by its place, and the state in which
\* the decoder reads it.
Tags == [at : Nat, st : DecoderStates]
Tells(tag, byte, todo) ==
  /\ tag.at >= 1 /\ tag.at <= Len(todo)
  /\ HasRead(todo[tag.at], tag.st) /\ byte = ByteOf(todo[tag.at], tag.st)

\* The codes are whole but for what has been read of the first one, and come in
\* the order of the doings.
Tagged(t, s, todo) ==
  /\ t \in Seq(Tags) /\ s \in Seq(AllBytes) /\ Len(t) = Len(s)
  /\ \A i \in 1 .. Len(s) : IF IsAnswer(s[i]) THEN t[i].st = "INIT" ELSE Tells(t[i], s[i], todo)
  /\ \A i \in 1 .. Len(s) :
       s[i] \in PrefixBytes =>
         i + 1 <= Len(s) /\ t[i + 1].at = t[i].at /\ t[i + 1].st = NextState(t[i].st, s[i])
  /\ \A i \in 1 .. Len(s) : s[i] \notin PrefixBytes /\ i < Len(s) => t[i + 1].st = "INIT"
  /\ \A i, j \in 1 .. Len(s) :
       i < j /\ ~IsAnswer(s[i]) /\ ~IsAnswer(s[j]) =>
         /\ t[i].at <= t[j].at
         /\ s[i] \notin PrefixBytes => t[i].at < t[j].at

LEMMA NothingTagged ==
  ASSUME NEW todo
  PROVE  Tagged(<< >>, << >>, todo)
<1>1. << >> \in Seq(Tags) /\ << >> \in Seq(AllBytes) /\ Len(<< >>) = 0  OBVIOUS
<1>2. \A i \in 1 .. 0 : FALSE  OBVIOUS
<1> QED BY <1>1, <1>2 DEF Tagged

\* A byte is read.
LEMMA TailTagged ==
  ASSUME NEW t, NEW s, NEW todo, Tagged(t, s, todo), s # << >>
  PROVE  /\ Tagged(Tail(t), Tail(s), todo)
         /\ Tail(s) # << >> /\ s[1] \notin PrefixBytes => Tail(t)[1].st = "INIT"
         /\ s[1] \in PrefixBytes => Tail(s) # << >> /\ Tail(t)[1].st = NextState(t[1].st, s[1])
         /\ ~IsAnswer(s[1]) /\ s[1] \notin PrefixBytes =>
              \A i \in 1 .. Len(Tail(s)) : ~IsAnswer(Tail(s)[i]) => t[1].at < Tail(t)[i].at
<1> DEFINE n == Len(s)
           u == Tail(t)
           r == Tail(s)
<1>1. t \in Seq(Tags) /\ s \in Seq(AllBytes) /\ Len(t) = n  BY DEF Tagged
<1>2. /\ r \in Seq(AllBytes) /\ n \in Nat /\ n >= 1 /\ Len(r) = n - 1
      /\ \A i \in 1 .. n - 1 : r[i] = s[i + 1]
  BY <1>1, TailIs, LenProperties
<1>3. t # << >>  BY <1>1, <1>2, EmptySeq
<1>4. u \in Seq(Tags) /\ Len(u) = n - 1 /\ \A i \in 1 .. n - 1 : u[i] = t[i + 1]
  BY <1>1, <1>3, TailIs
<1>5. ASSUME NEW i \in 1 .. n - 1
      PROVE  i + 1 \in 1 .. n /\ i \in Nat /\ r[i] = s[i + 1] /\ u[i] = t[i + 1]
  BY <1>2, <1>4
<1> HIDE DEF n, u, r
<1>6. Tagged(u, r, todo)
  <2>1. \A i \in 1 .. n - 1 : IF IsAnswer(r[i]) THEN u[i].st = "INIT" ELSE Tells(u[i], r[i], todo)
    BY <1>5 DEF Tagged, n
  <2>2. ASSUME NEW i \in 1 .. n - 1, r[i] \in PrefixBytes
        PROVE  i + 1 <= n - 1 /\ u[i + 1].at = u[i].at /\ u[i + 1].st = NextState(u[i].st, r[i])
    <3>1. s[i + 1] \in PrefixBytes /\ i + 1 \in 1 .. n  BY <1>5, <2>2
    <3>2. (i + 1) + 1 <= n /\ t[(i + 1) + 1].at = t[i + 1].at
          /\ t[(i + 1) + 1].st = NextState(t[i + 1].st, s[i + 1])
      BY <3>1 DEF Tagged, n
    <3>3. i + 1 \in 1 .. n - 1  BY <1>2, <3>2
    <3> QED BY <1>5, <3>2, <3>3
  <2>3. ASSUME NEW i \in 1 .. n - 1, r[i] \notin PrefixBytes, i < n - 1
        PROVE  u[i + 1].st = "INIT"
    <3>1. i + 1 \in 1 .. n - 1 /\ i + 1 \in 1 .. n /\ i + 1 < n  BY <1>2, <2>3
    <3>2. t[(i + 1) + 1].st = "INIT"  BY <1>5, <2>3, <3>1 DEF Tagged, n
    <3> QED BY <1>5, <3>1, <3>2
  <2>4. ASSUME NEW i \in 1 .. n - 1, NEW j \in 1 .. n - 1, i < j, ~IsAnswer(r[i]), ~IsAnswer(r[j])
        PROVE  u[i].at <= u[j].at /\ (r[i] \notin PrefixBytes => u[i].at < u[j].at)
    <3>1. i + 1 \in 1 .. n /\ j + 1 \in 1 .. n /\ i + 1 < j + 1  BY <1>5, <2>4
    <3>2. t[i + 1].at <= t[j + 1].at /\ (s[i + 1] \notin PrefixBytes => t[i + 1].at < t[j + 1].at)
      BY <1>5, <2>4, <3>1 DEF Tagged, n
    <3> QED BY <1>5, <3>2
  <2> QED BY <1>2, <1>4, <2>1, <2>2, <2>3, <2>4 DEF Tagged
<1>7. 1 \in 1 .. n  BY <1>2
<1>8. ASSUME r # << >>, s[1] \notin PrefixBytes
      PROVE  u[1].st = "INIT"
  <2>1. 1 < n /\ 1 \in 1 .. n - 1  BY <1>2, <1>8, EmptySeq
  <2>2. t[1 + 1].st = "INIT"  BY <1>7, <1>8, <2>1 DEF Tagged, n
  <2> QED BY <1>5, <2>1, <2>2
<1>9. ASSUME s[1] \in PrefixBytes
      PROVE  r # << >> /\ u[1].st = NextState(t[1].st, s[1])
  <2>1. 1 + 1 <= n /\ t[1 + 1].st = NextState(t[1].st, s[1])  BY <1>7, <1>9 DEF Tagged, n
  <2>2. 1 \in 1 .. n - 1  BY <1>2, <2>1
  <2>3. r # << >>  BY <1>2, <2>1
  <2> QED BY <1>5, <2>1, <2>2, <2>3
<1>10. ASSUME ~IsAnswer(s[1]), s[1] \notin PrefixBytes, NEW i \in 1 .. Len(r), ~IsAnswer(r[i])
       PROVE  t[1].at < u[i].at
  <2>1. i \in 1 .. n - 1 /\ i + 1 \in 1 .. n /\ 1 < i + 1  BY <1>2, <1>10
  <2>2. t[1].at < t[i + 1].at  BY <1>5, <1>7, <1>10, <2>1 DEF Tagged, n
  <2> QED BY <1>5, <2>1, <2>2
<1> QED BY <1>6, <1>8, <1>9, <1>10 DEF u, r

LEMMA JoinTagged ==
  ASSUME NEW t, NEW s, NEW u, NEW r, NEW todo, Tagged(t, s, todo), Tagged(u, r, todo),
         r # << >> => u[1].st = "INIT",
         \A i \in 1 .. Len(s), j \in 1 .. Len(r) :
           ~IsAnswer(s[i]) /\ ~IsAnswer(r[j]) => t[i].at < u[j].at
  PROVE  Tagged(t \o u, s \o r, todo)
<1> DEFINE n == Len(s)
           m == Len(r)
           tu == t \o u
           sr == s \o r
<1>1. /\ t \in Seq(Tags) /\ u \in Seq(Tags) /\ s \in Seq(AllBytes) /\ r \in Seq(AllBytes)
      /\ Len(t) = n /\ Len(u) = m /\ n \in Nat /\ m \in Nat
  BY LenProperties DEF Tagged
<1>2. /\ tu \in Seq(Tags) /\ Len(tu) = n + m
      /\ \A i \in Nat : 1 <= i /\ i <= n => tu[i] = t[i]
      /\ \A i \in Nat : 1 <= i /\ i <= m => tu[i + n] = u[i]
  <2>1. t \in Seq(Tags) /\ u \in Seq(Tags)  BY <1>1
  <2>2. /\ t \o u \in Seq(Tags) /\ Len(t \o u) = Len(t) + Len(u)
        /\ \A i \in Nat : 1 <= i /\ i <= Len(t) => (t \o u)[i] = t[i]
        /\ \A i \in Nat : 1 <= i /\ i <= Len(u) => (t \o u)[i + Len(t)] = u[i]
    BY <2>1, Joined
  <2> QED BY <1>1, <2>2
<1>3. /\ sr \in Seq(AllBytes) /\ Len(sr) = n + m
      /\ \A i \in Nat : 1 <= i /\ i <= n => sr[i] = s[i]
      /\ \A i \in Nat : 1 <= i /\ i <= m => sr[i + n] = r[i]
  <2>1. s \in Seq(AllBytes) /\ r \in Seq(AllBytes)  BY <1>1
  <2> QED BY <2>1, Joined
<1> HIDE DEF n, m, tu, sr
<1>4. ASSUME NEW i \in 1 .. n + m
      PROVE  \/ i \in 1 .. n /\ sr[i] = s[i] /\ tu[i] = t[i]
             \/ i > n /\ i - n \in 1 .. m /\ sr[i] = r[i - n] /\ tu[i] = u[i - n]
  <2>1. CASE i <= n
    <3>1. i \in Nat /\ 1 <= i  BY <1>1
    <3> QED BY <1>1, <1>2, <1>3, <2>1, <3>1
  <2>2. CASE ~(i <= n)
    <3>1. i - n \in Nat /\ 1 <= i - n /\ i - n <= m /\ (i - n) + n = i  BY <1>1, <2>2
    <3>2. sr[(i - n) + n] = r[i - n] /\ tu[(i - n) + n] = u[i - n]  BY <1>2, <1>3, <3>1
    <3> QED BY <1>1, <2>2, <3>1, <3>2
  <2> QED BY <2>1, <2>2
<1>5. ASSUME NEW i \in 1 .. n + m
      PROVE  IF IsAnswer(sr[i]) THEN tu[i].st = "INIT" ELSE Tells(tu[i], sr[i], todo)
  <2>1. CASE i \in 1 .. n /\ sr[i] = s[i] /\ tu[i] = t[i]  BY <2>1 DEF Tagged, n
  <2>2. CASE i > n /\ i - n \in 1 .. m /\ sr[i] = r[i - n] /\ tu[i] = u[i - n]
    BY <2>2 DEF Tagged, m
  <2> QED BY <1>4, <2>1, <2>2
<1>6. ASSUME NEW i \in 1 .. n + m, sr[i] \in PrefixBytes
      PROVE  i + 1 <= n + m /\ tu[i + 1].at = tu[i].at /\ tu[i + 1].st = NextState(tu[i].st, sr[i])
  <2>1. CASE i \in 1 .. n /\ sr[i] = s[i] /\ tu[i] = t[i]
    <3>1. i + 1 <= n /\ t[i + 1].at = t[i].at /\ t[i + 1].st = NextState(t[i].st, s[i])
      BY <1>6, <2>1 DEF Tagged, n
    <3>2. i + 1 \in 1 .. n + m /\ ~(i + 1 > n)  BY <1>1, <2>1, <3>1
    <3>3. tu[i + 1] = t[i + 1]  BY <1>4, <3>2
    <3> QED BY <1>1, <2>1, <3>1, <3>2, <3>3
  <2>2. CASE i > n /\ i - n \in 1 .. m /\ sr[i] = r[i - n] /\ tu[i] = u[i - n]
    <3> DEFINE k == i - n
    <3>1. k \in 1 .. m /\ r[k] \in PrefixBytes  BY <1>6, <2>2
    <3>2. k + 1 <= m /\ u[k + 1].at = u[k].at /\ u[k + 1].st = NextState(u[k].st, r[k])
      BY <3>1 DEF Tagged, m
    <3>3. i + 1 \in 1 .. n + m /\ i + 1 > n /\ (i + 1) - n = k + 1  BY <1>1, <2>2, <3>2
    <3>4. tu[i + 1] = u[(i + 1) - n]  BY <1>1, <1>4, <3>3
    <3> QED BY <2>2, <3>2, <3>3, <3>4
  <2> QED BY <1>4, <2>1, <2>2
<1>7. ASSUME NEW i \in 1 .. n + m, sr[i] \notin PrefixBytes, i < n + m
      PROVE  tu[i + 1].st = "INIT"
  <2>0. i + 1 \in 1 .. n + m  BY <1>1, <1>7
  <2>1. CASE i < n
    <3>1. i \in 1 .. n /\ sr[i] = s[i]  BY <1>1, <1>4, <2>1
    <3>2. t[i + 1].st = "INIT"  BY <1>7, <2>1, <3>1 DEF Tagged, n
    <3>3. ~(i + 1 > n)  BY <1>1, <2>1
    <3> QED BY <1>4, <2>0, <3>2, <3>3
  <2>2. CASE i = n
    <3>1. m >= 1 /\ r # << >>
      <4>1. m >= 1  BY <1>1, <1>7, <2>2
      <4> QED BY <4>1 DEF m
    <3>2. u[1].st = "INIT"  BY <3>1
    <3>3. ~(i + 1 \in 1 .. n) /\ (i + 1) - n = 1  BY <1>1, <2>2
    <3>4. tu[i + 1] = u[(i + 1) - n]  BY <1>4, <2>0, <3>3
    <3> QED BY <3>2, <3>3, <3>4
  <2>3. CASE i > n
    <3> DEFINE k == i - n
    <3>1. ~(i \in 1 .. n)  BY <1>1, <2>3
    <3>2. k \in 1 .. m /\ sr[i] = r[k] /\ k < m  BY <1>1, <1>4, <1>7, <3>1
    <3>3. u[k + 1].st = "INIT"  BY <1>7, <3>2 DEF Tagged, m
    <3>4. ~(i + 1 \in 1 .. n) /\ (i + 1) - n = k + 1  BY <1>1, <2>3
    <3>5. tu[i + 1] = u[(i + 1) - n]  BY <1>4, <2>0, <3>4
    <3> QED BY <3>3, <3>4, <3>5
  <2> QED BY <1>1, <2>1, <2>2, <2>3
<1>8. ASSUME NEW i \in 1 .. n + m, NEW j \in 1 .. n + m, i < j, ~IsAnswer(sr[i]), ~IsAnswer(sr[j])
      PROVE  tu[i].at <= tu[j].at /\ (sr[i] \notin PrefixBytes => tu[i].at < tu[j].at)
  <2>1. CASE j \in 1 .. n /\ sr[j] = s[j] /\ tu[j] = t[j]
    <3>1. i \in 1 .. n /\ sr[i] = s[i] /\ tu[i] = t[i]
      <4>1. ~(i > n)  BY <1>1, <1>8, <2>1
      <4> QED BY <1>4, <4>1
    <3> QED BY <1>8, <2>1, <3>1 DEF Tagged, n
  <2>2. CASE j > n /\ j - n \in 1 .. m /\ sr[j] = r[j - n] /\ tu[j] = u[j - n]
    <3>1. CASE i \in 1 .. n /\ sr[i] = s[i] /\ tu[i] = t[i]
      <4>1. t[i].at < u[j - n].at  BY <1>8, <2>2, <3>1 DEF n, m
      <4>2. t[i] \in Tags /\ u[j - n] \in Tags  BY <1>1, <2>2, <3>1, ElementOfSeq DEF n, m
      <4> QED BY <2>2, <3>1, <4>1, <4>2 DEF Tags
    <3>2. CASE i > n /\ i - n \in 1 .. m /\ sr[i] = r[i - n] /\ tu[i] = u[i - n]
      <4>1. i - n < j - n  BY <1>1, <1>8
      <4> QED BY <1>8, <2>2, <3>2, <4>1 DEF Tagged, m
    <3> QED BY <1>4, <3>1, <3>2
  <2> QED BY <1>4, <2>1, <2>2
<1> QED BY <1>2, <1>3, <1>5, <1>6, <1>7, <1>8 DEF Tagged, tu, sr

\* Answers stand between the codes.
LEMMA AnswersTagged ==
  ASSUME NEW s \in Seq({ACK, PASSED}), NEW todo
  PROVE  Tagged([i \in 1 .. Len(s) |-> [at |-> 0, st |-> "INIT"]], s, todo)
<1> DEFINE t == [i \in 1 .. Len(s) |-> [at |-> 0, st |-> "INIT"]]
<1>1. Len(s) \in Nat  BY LenProperties
<1>2. [at |-> 0, st |-> "INIT"] \in Tags  BY DEF Tags, DecoderStates
<1>3. t \in Seq(Tags) /\ Len(t) = Len(s)  BY <1>1, <1>2, SeqDef, LenProperties
<1>4. \A i \in 1 .. Len(s) : s[i] \in {ACK, PASSED}  BY ElementOfSeq
<1>5. s \in Seq(AllBytes)
  <2>1. \A i \in 1 .. Len(s) : s[i] \in AllBytes  BY <1>4 DEF AllBytes
  <2> QED BY <1>1, <2>1, SeqDef
<1>6. \A i \in 1 .. Len(s) : IsAnswer(s[i]) /\ s[i] \notin PrefixBytes
  BY <1>4, BytesDiffer DEF IsAnswer
<1>7. \A i \in 1 .. Len(s) : t[i].st = "INIT"  OBVIOUS
<1> HIDE DEF t
<1>8. \A i \in 1 .. Len(s) : i < Len(s) => t[i + 1].st = "INIT"  BY <1>1, <1>7
<1>9. Tagged(t, s, todo)  BY <1>3, <1>5, <1>6, <1>7, <1>8 DEF Tagged
<1> QED BY <1>9 DEF t

LEMMA OneCodeTagged ==
  ASSUME NEW t \in Seq(Tags), NEW s \in Seq(AllBytes), NEW todo, NEW n \in Nat,
         n >= 1, n <= Len(todo), Len(t) = Len(s),
         \A i \in 1 .. Len(s) :
           /\ ~IsAnswer(s[i]) /\ t[i].at = n
           /\ HasRead(todo[n], t[i].st) /\ s[i] = ByteOf(todo[n], t[i].st)
           /\ s[i] \in PrefixBytes <=> i < Len(s)
           /\ i < Len(s) => t[i + 1].st = NextState(t[i].st, s[i])
  PROVE  Tagged(t, s, todo)
<1>1. Len(s) \in Nat  BY LenProperties
<1>2. \A i \in 1 .. Len(s) : Tells(t[i], s[i], todo)  BY DEF Tells
<1>3. ASSUME NEW i \in 1 .. Len(s), s[i] \in PrefixBytes
      PROVE  i + 1 <= Len(s) /\ t[i + 1].at = t[i].at /\ t[i + 1].st = NextState(t[i].st, s[i])
  <2>1. i < Len(s)  BY <1>3
  <2>2. i + 1 \in 1 .. Len(s)  BY <1>1, <2>1
  <2> QED BY <1>1, <2>1, <2>2
<1>4. ASSUME NEW i \in 1 .. Len(s), NEW j \in 1 .. Len(s), i < j
      PROVE  t[i].at <= t[j].at /\ s[i] \in PrefixBytes
  BY <1>1, <1>4
<1> QED BY <1>2, <1>3, <1>4 DEF Tagged

LEMMA ShortSequences ==
  ASSUME NEW a, NEW b, NEW c
  PROVE  /\ <<a>> \o << >> = <<a>> /\ << >> \o <<a>> = <<a>>
         /\ <<a>> \o <<b>> = <<a, b>> /\ <<a, b>> \o <<c>> = <<a, b, c>>
<1>1. <<a>> \in Seq({a, b, c}) /\ <<b>> \in Seq({a, b, c}) /\ <<a, b>> \in Seq({a, b, c})
      /\ <<c>> \in Seq({a, b, c})
  OBVIOUS
<1>2. <<a>> \o << >> = <<a>> /\ << >> \o <<a>> = <<a>>  BY <1>1, ConcatEmptySeq
<1>3. <<a>> \o <<b>> = Append(<<a>>, b) /\ <<a, b>> \o <<c>> = Append(<<a, b>>, c)
  BY <1>1, AppendIsConcat
<1>4. Append(<<a>>, b) = <<a, b>>
  <2>1. /\ Append(<<a>>, b) \in Seq({a, b, c}) /\ Len(Append(<<a>>, b)) = 2
        /\ Append(<<a>>, b)[1] = a /\ Append(<<a>>, b)[2] = b
    BY <1>1, AppendProperties
  <2>2. <<a, b>> \in Seq({a, b, c}) /\ Len(<<a, b>>) = 2 /\ <<a, b>>[1] = a /\ <<a, b>>[2] = b
    OBVIOUS
  <2>3. \A i \in 1 .. 2 : Append(<<a>>, b)[i] = <<a, b>>[i]  BY <2>1, <2>2
  <2> QED BY <2>1, <2>2, <2>3, SeqEqual
<1>5. Append(<<a, b>>, c) = <<a, b, c>>
  <2>1. /\ Append(<<a, b>>, c) \in Seq({a, b, c}) /\ Len(Append(<<a, b>>, c)) = 3
        /\ Append(<<a, b>>, c)[1] = a /\ Append(<<a, b>>, c)[2] = b /\ Append(<<a, b>>, c)[3] = c
    BY <1>1, AppendProperties
  <2>2. /\ <<a, b, c>> \in Seq({a, b, c}) /\ Len(<<a, b, c>>) = 3
        /\ <<a, b, c>>[1] = a /\ <<a, b, c>>[2] = b /\ <<a, b, c>>[3] = c
    OBVIOUS
  <2>3. \A i \in 1 .. 3 : Append(<<a, b>>, c)[i] = <<a, b, c>>[i]  BY <2>1, <2>2
  <2> QED BY <2>1, <2>2, <2>3, SeqEqual
<1> QED BY <1>2, <1>3, <1>4, <1>5

\* A key's doing.
LEMMA CodeTagged ==
  ASSUME NEW todo \in Seq(KeyEvents), NEW n \in 1 .. Len(todo)
  PROVE  \E u : /\ Tagged(u, Scancode(todo[n]), todo) /\ u[1].st = "INIT"
                /\ \A i \in 1 .. Len(Scancode(todo[n])) :
                     u[i].at = n /\ ~IsAnswer(Scancode(todo[n])[i]) /\ Scancode(todo[n])[i] # MOUSE_ID
<1> DEFINE e == todo[n]
           tag(st) == [at |-> n, st |-> st]
           s == Scancode(e)
<1>1. /\ e \in KeyEvents /\ n \in Nat /\ n >= 1 /\ n <= Len(todo)
      /\ e.key \in Keys /\ e.long \in BOOLEAN /\ e.break \in BOOLEAN
  <2>1. e \in KeyEvents  BY ElementOfSeq
  <2> HIDE DEF e
  <2> QED BY <2>1 DEF KeyEvents
<1>2. \A st \in DecoderStates : tag(st) \in Tags /\ tag(st).at = n /\ tag(st).st = st
  BY <1>1 DEF Tags
<1>3. /\ e.key \in AllBytes /\ "E0" \in AllBytes /\ "F0" \in AllBytes
      /\ e.key \notin PrefixBytes /\ "E0" \in PrefixBytes /\ "F0" \in PrefixBytes
  BY <1>1, BytesDiffer DEF AllBytes
<1>4. ASSUME NEW st \in DecoderStates, HasRead(e, st)
      PROVE  ~IsAnswer(ByteOf(e, st)) /\ ByteOf(e, st) # MOUSE_ID /\ ByteOf(e, st) \in AllBytes
  BY <1>1, <1>4, ByteOfIs
<1>5. /\ "INIT" \in DecoderStates /\ "LONG_CODE" \in DecoderStates
      /\ "BREAK_CODE" \in DecoderStates /\ "LONG_BREAK_CODE" \in DecoderStates
  BY DEF DecoderStates
<1> HIDE DEF e
<1>6. SUFFICES ASSUME NEW u \in Seq(Tags), s \in Seq(AllBytes), Len(u) = Len(s), Len(s) >= 1,
                      u[1].st = "INIT",
                      \A i \in 1 .. Len(s) :
                        /\ u[i].at = n /\ u[i].st \in DecoderStates
                        /\ HasRead(e, u[i].st) /\ s[i] = ByteOf(e, u[i].st)
                        /\ s[i] \in PrefixBytes <=> i < Len(s)
                        /\ i < Len(s) => u[i + 1].st = NextState(u[i].st, s[i])
               PROVE  Tagged(u, s, todo)
  <2> DEFINE Good(u) ==
        /\ u \in Seq(Tags) /\ s \in Seq(AllBytes) /\ Len(u) = Len(s) /\ Len(s) >= 1 /\ u[1].st = "INIT"
        /\ \A i \in 1 .. Len(s) :
             /\ u[i].at = n /\ u[i].st \in DecoderStates
             /\ HasRead(e, u[i].st) /\ s[i] = ByteOf(e, u[i].st)
             /\ s[i] \in PrefixBytes <=> i < Len(s)
             /\ i < Len(s) => u[i + 1].st = NextState(u[i].st, s[i])
  <2>1. \E u : Good(u)
    <3>1. CASE ~e.long /\ ~e.break
      <4>1. s = <<e.key>>  BY <3>1 DEF Scancode
      <4>2. e.key = ByteOf(e, "INIT") /\ HasRead(e, "INIT")  BY <3>1 DEF ByteOf, HasRead
      <4>3. Good(<<tag("INIT")>>)  BY <1>2, <1>3, <1>5, <4>1, <4>2
      <4> QED BY <4>3
    <3>2. CASE e.long /\ ~e.break
      <4>1. s = <<"E0", e.key>>  BY <3>2, ShortSequences DEF Scancode
      <4>2. /\ "E0" = ByteOf(e, "INIT") /\ HasRead(e, "INIT")
            /\ e.key = ByteOf(e, "LONG_CODE") /\ HasRead(e, "LONG_CODE")
            /\ NextState("INIT", "E0") = "LONG_CODE"
        BY <3>2 DEF ByteOf, HasRead, NextState
      <4>3. Good(<<tag("INIT"), tag("LONG_CODE")>>)  BY <1>2, <1>3, <1>5, <4>1, <4>2
      <4> QED BY <4>3
    <3>3. CASE ~e.long /\ e.break
      <4>1. s = <<"F0", e.key>>  BY <3>3, ShortSequences DEF Scancode
      <4>2. /\ "F0" = ByteOf(e, "INIT") /\ HasRead(e, "INIT")
            /\ e.key = ByteOf(e, "BREAK_CODE") /\ HasRead(e, "BREAK_CODE")
            /\ NextState("INIT", "F0") = "BREAK_CODE"
        BY <3>3 DEF ByteOf, HasRead, NextState
      <4>3. Good(<<tag("INIT"), tag("BREAK_CODE")>>)  BY <1>2, <1>3, <1>5, <4>1, <4>2
      <4> QED BY <4>3
    <3>4. CASE e.long /\ e.break
      <4>1. s = <<"E0", "F0", e.key>>  BY <3>4, ShortSequences DEF Scancode
      <4>2. /\ "E0" = ByteOf(e, "INIT") /\ HasRead(e, "INIT")
            /\ "F0" = ByteOf(e, "LONG_CODE") /\ HasRead(e, "LONG_CODE")
            /\ e.key = ByteOf(e, "LONG_BREAK_CODE") /\ HasRead(e, "LONG_BREAK_CODE")
            /\ NextState("INIT", "E0") = "LONG_CODE" /\ NextState("LONG_CODE", "F0") = "LONG_BREAK_CODE"
        BY <3>4, BytesDiffer DEF ByteOf, HasRead, NextState
      <4>3. Good(<<tag("INIT"), tag("LONG_CODE"), tag("LONG_BREAK_CODE")>>)
        BY <1>2, <1>3, <1>5, <4>1, <4>2
      <4> QED BY <4>3
    <3> QED BY <1>1, <3>1, <3>2, <3>3, <3>4
  <2>2. PICK u : Good(u)  BY <2>1
  <2>3. Tagged(u, s, todo)  BY <2>2
  <2>4. \A i \in 1 .. Len(s) : u[i].at = n /\ ~IsAnswer(s[i]) /\ s[i] # MOUSE_ID  BY <1>4, <2>2
  <2> QED BY <2>2, <2>3, <2>4 DEF e
<1>7. \A i \in 1 .. Len(s) : ~IsAnswer(s[i])  BY <1>4, <1>6
<1> HIDE DEF s
<1> QED BY <1>1, <1>6, <1>7, OneCodeTagged DEF e

\* More is done, and what was done first is known.
LEMMA MoreTagged ==
  ASSUME NEW t, NEW s, NEW todo \in Seq(KeyEvents), NEW e \in KeyEvents, Tagged(t, s, todo)
  PROVE  Tagged(t, s, Append(todo, e))
<1>1. Len(Append(todo, e)) = Len(todo) + 1 /\ \A k \in 1 .. Len(todo) : Append(todo, e)[k] = todo[k]
  BY AppendProperties
<1>2. Len(todo) \in Nat  BY LenProperties
<1>3. ASSUME NEW i \in 1 .. Len(s), Tells(t[i], s[i], todo)
      PROVE  Tells(t[i], s[i], Append(todo, e))
  <2>1. t[i] \in Tags
    <3>1. t \in Seq(Tags) /\ Len(t) = Len(s)  BY DEF Tagged
    <3> QED BY <3>1, ElementOfSeq
  <2>2. t[i].at \in 1 .. Len(todo)  BY <1>3, <2>1 DEF Tells, Tags
  <2> QED BY <1>1, <1>2, <1>3, <2>2 DEF Tells
<1> QED BY <1>3 DEF Tagged

LEMMA LessTagged ==
  ASSUME NEW t, NEW s, NEW todo \in Seq(KeyEvents), NEW m \in 1 .. Len(todo), Tagged(t, s, todo),
         \A i \in 1 .. Len(s) : ~IsAnswer(s[i]) => t[i].at > m
  PROVE  \E u : /\ Tagged(u, s, SubSeq(todo, m + 1, Len(todo)))
                /\ \A i \in 1 .. Len(s) : u[i].st = t[i].st
<1> DEFINE rest == SubSeq(todo, m + 1, Len(todo))
           u == [i \in 1 .. Len(s) |-> [at |-> IF t[i].at > m THEN t[i].at - m ELSE 0, st |-> t[i].st]]
<1>1. t \in Seq(Tags) /\ s \in Seq(AllBytes) /\ Len(t) = Len(s) /\ Len(s) \in Nat /\ Len(todo) \in Nat
      /\ m \in Nat
  BY LenProperties DEF Tagged
<1>2. \A i \in 1 .. Len(s) : t[i] \in Tags  BY <1>1, ElementOfSeq
<1>3. \A i \in 1 .. Len(s) :
        /\ t[i].at \in Nat /\ t[i].st \in DecoderStates
        /\ u[i].at = (IF t[i].at > m THEN t[i].at - m ELSE 0) /\ u[i].st = t[i].st /\ u[i] \in Tags
  BY <1>1, <1>2 DEF Tags
<1>4. u \in Seq(Tags) /\ Len(u) = Len(s)
  <2>1. u \in [1 .. Len(s) -> Tags]  BY <1>3
  <2> QED BY <1>1, <2>1, SeqDef, LenProperties
<1> HIDE DEF u
<1>5. Len(rest) = Len(todo) - m /\ \A k \in 1 .. Len(todo) - m : rest[k] = todo[m + k]
  <2>1. m + 1 \in 1 .. Len(todo) + 1  BY <1>1
  <2> QED BY <1>1, <2>1, SubSeqProperties
<1> HIDE DEF rest
<1>6. ASSUME NEW i \in 1 .. Len(s), ~IsAnswer(s[i])
      PROVE  Tells(u[i], s[i], rest) /\ u[i].at = t[i].at - m
  <2>1. t[i].at > m /\ Tells(t[i], s[i], todo)  BY <1>6 DEF Tagged
  <2>2. u[i].at = t[i].at - m /\ u[i].at \in 1 .. Len(todo) - m /\ m + u[i].at = t[i].at
    BY <1>1, <1>3, <2>1 DEF Tells
  <2>3. rest[u[i].at] = todo[t[i].at]  BY <1>5, <2>2
  <2> QED BY <1>1, <1>3, <1>5, <2>1, <2>2, <2>3 DEF Tells
<1>7. ASSUME NEW i \in 1 .. Len(s), s[i] \in PrefixBytes
      PROVE  i + 1 <= Len(s) /\ u[i + 1].at = u[i].at /\ u[i + 1].st = NextState(u[i].st, s[i])
  <2>1. i + 1 <= Len(s) /\ t[i + 1].at = t[i].at /\ t[i + 1].st = NextState(t[i].st, s[i])
    BY <1>7 DEF Tagged
  <2>2. i + 1 \in 1 .. Len(s)  BY <1>1, <2>1
  <2> QED BY <1>3, <2>1, <2>2
<1>8. ASSUME NEW i \in 1 .. Len(s), s[i] \notin PrefixBytes, i < Len(s)
      PROVE  u[i + 1].st = "INIT"
  <2>1. t[i + 1].st = "INIT" /\ i + 1 \in 1 .. Len(s)  BY <1>1, <1>8 DEF Tagged
  <2> QED BY <1>3, <2>1
<1>9. ASSUME NEW i \in 1 .. Len(s), NEW j \in 1 .. Len(s), i < j, ~IsAnswer(s[i]), ~IsAnswer(s[j])
      PROVE  u[i].at <= u[j].at /\ (s[i] \notin PrefixBytes => u[i].at < u[j].at)
  <2>1. t[i].at <= t[j].at /\ (s[i] \notin PrefixBytes => t[i].at < t[j].at)  BY <1>9 DEF Tagged
  <2> QED BY <1>1, <1>3, <1>6, <1>9, <2>1
<1>10. \A i \in 1 .. Len(s) : IF IsAnswer(s[i]) THEN u[i].st = "INIT" ELSE Tells(u[i], s[i], rest)
  BY <1>3, <1>6 DEF Tagged
<1>11. Tagged(u, s, rest)  BY <1>1, <1>4, <1>7, <1>8, <1>9, <1>10 DEF Tagged
<1> QED BY <1>3, <1>11 DEF rest

---------------------------------------------------------------------------
(* Answers on their way *)

NoAnswersIn(s) == \A i \in 1 .. Len(s) : ~IsAnswer(s[i])
OneAnswer(s) == \E a \in 1 .. Len(s) : s[a] = ACK /\ \A i \in 1 .. Len(s) : IsAnswer(s[i]) => i = a
TwoAnswers(s) ==
  \E a \in 1 .. Len(s) :
    /\ a + 1 <= Len(s) /\ s[a] = ACK /\ s[a + 1] = PASSED
    /\ \A i \in 1 .. Len(s) : IsAnswer(s[i]) => i = a \/ i = a + 1
PassedNext(s) == Len(s) >= 1 /\ s[1] = PASSED /\ \A i \in 1 .. Len(s) : IsAnswer(s[i]) => i = 1
NoMouse(s) == \A i \in 1 .. Len(s) : s[i] # MOUSE_ID

AnswersDue(phase, s) ==
  /\ phase \in {"start", "idle", "decode", "id", "stuck"} => NoAnswersIn(s)
  /\ phase \in {"rate", "rate2"} => OneAnswer(s)
  /\ phase \in {"ack", "reset"} => TwoAnswers(s)
  /\ phase \in {"bat", "result"} => PassedNext(s)

LEMMA TailAnswers ==
  ASSUME NEW s \in Seq(AllBytes), s # << >>
  PROVE  /\ NoMouse(s) => NoMouse(Tail(s))
         /\ NoAnswersIn(s) => NoAnswersIn(Tail(s)) /\ ~IsAnswer(s[1])
         /\ OneAnswer(s) => IF s[1] = ACK THEN NoAnswersIn(Tail(s)) ELSE OneAnswer(Tail(s))
         /\ TwoAnswers(s) => IF s[1] = ACK THEN PassedNext(Tail(s)) ELSE TwoAnswers(Tail(s))
         /\ PassedNext(s) => NoAnswersIn(Tail(s)) /\ s[1] = PASSED
<1> DEFINE n == Len(s)
           r == Tail(s)
<1>1. n \in Nat /\ n >= 1 /\ Len(r) = n - 1 /\ \A i \in 1 .. n - 1 : r[i] = s[i + 1]
  BY TailIs, LenProperties
<1>2. ASSUME NEW i \in 1 .. n - 1
      PROVE  i \in Nat /\ i >= 1 /\ i + 1 \in 1 .. n /\ r[i] = s[i + 1]
  BY <1>1
<1>3. 1 \in 1 .. n /\ IsAnswer(ACK) /\ IsAnswer(PASSED)  BY <1>1 DEF IsAnswer
<1>4. ASSUME NEW a \in 1 .. n, a # 1
      PROVE  a - 1 \in 1 .. n - 1 /\ r[a - 1] = s[a]
  <2>1. a - 1 \in 1 .. n - 1 /\ (a - 1) + 1 = a  BY <1>1, <1>4
  <2> QED BY <1>1, <2>1
<1> HIDE DEF n, r
<1>5. NoMouse(s) => NoMouse(r)  BY <1>1, <1>2 DEF NoMouse, n
<1>6. NoAnswersIn(s) => NoAnswersIn(r) /\ ~IsAnswer(s[1])  BY <1>1, <1>2, <1>3 DEF NoAnswersIn, n
<1>7. ASSUME OneAnswer(s) PROVE IF s[1] = ACK THEN NoAnswersIn(r) ELSE OneAnswer(r)
  <2>1. PICK a \in 1 .. n : s[a] = ACK /\ \A i \in 1 .. n : IsAnswer(s[i]) => i = a
    BY <1>7 DEF OneAnswer, n
  <2>2. CASE s[1] = ACK
    <3>1. a = 1  BY <1>3, <2>1, <2>2
    <3>2. \A i \in 1 .. n - 1 : ~IsAnswer(r[i])  BY <1>2, <2>1, <3>1
    <3> QED BY <1>1, <2>2, <3>2 DEF NoAnswersIn
  <2>3. CASE s[1] # ACK
    <3>1. a - 1 \in 1 .. n - 1 /\ r[a - 1] = ACK  BY <1>4, <2>1, <2>3
    <3>2. \A i \in 1 .. n - 1 : IsAnswer(r[i]) => i = a - 1  BY <1>2, <2>1
    <3> QED BY <1>1, <2>3, <3>1, <3>2 DEF OneAnswer
  <2> QED BY <2>2, <2>3
<1>8. ASSUME TwoAnswers(s) PROVE IF s[1] = ACK THEN PassedNext(r) ELSE TwoAnswers(r)
  <2>1. PICK a \in 1 .. n :
          /\ a + 1 <= n /\ s[a] = ACK /\ s[a + 1] = PASSED
          /\ \A i \in 1 .. n : IsAnswer(s[i]) => i = a \/ i = a + 1
    BY <1>8 DEF TwoAnswers, n
  <2>2. CASE s[1] = ACK
    <3>1. a = 1  BY <1>1, <1>3, <2>1, <2>2
    <3>2. n - 1 >= 1 /\ 1 \in 1 .. n - 1  BY <1>1, <2>1, <3>1
    <3>3. r[1] = PASSED  BY <1>2, <2>1, <3>1, <3>2
    <3>4. \A i \in 1 .. n - 1 : IsAnswer(r[i]) => i = 1  BY <1>2, <2>1, <3>1
    <3> QED BY <1>1, <2>2, <3>2, <3>3, <3>4 DEF PassedNext
  <2>3. CASE s[1] # ACK
    <3>1. a - 1 \in 1 .. n - 1 /\ r[a - 1] = ACK  BY <1>4, <2>1, <2>3
    <3>2. a + 1 \in 1 .. n /\ a + 1 # 1 /\ (a + 1) - 1 = (a - 1) + 1 /\ (a - 1) + 1 <= n - 1
      BY <1>1, <2>1
    <3>3. r[(a - 1) + 1] = PASSED  BY <1>4, <2>1, <3>2
    <3>4. \A i \in 1 .. n - 1 : IsAnswer(r[i]) => i = a - 1 \/ i = (a - 1) + 1  BY <1>2, <2>1
    <3> QED BY <1>1, <2>3, <3>1, <3>2, <3>3, <3>4 DEF TwoAnswers
  <2> QED BY <2>2, <2>3
<1>9. ASSUME PassedNext(s) PROVE NoAnswersIn(r) /\ s[1] = PASSED
  <2>1. \A i \in 1 .. n - 1 : ~IsAnswer(r[i])  BY <1>2, <1>9 DEF PassedNext, n
  <2> QED BY <1>1, <1>9, <2>1 DEF NoAnswersIn, PassedNext
<1> QED BY <1>5, <1>6, <1>7, <1>8, <1>9 DEF r

\* What comes behind, a code or answers.
LEMMA JoinAnswers ==
  ASSUME NEW s \in Seq(AllBytes), NEW r \in Seq(AllBytes)
  PROVE  /\ NoMouse(s) /\ NoMouse(r) => NoMouse(s \o r)
         /\ \A phase : NoAnswersIn(r) /\ AnswersDue(phase, s) => AnswersDue(phase, s \o r)
         /\ NoAnswersIn(s) /\ Len(r) = 1 /\ r[1] = ACK => OneAnswer(s \o r)
         /\ NoAnswersIn(s) /\ Len(r) = 2 /\ r[1] = ACK /\ r[2] = PASSED => TwoAnswers(s \o r)
<1> DEFINE n == Len(s)
           m == Len(r)
           sr == s \o r
<1>1. /\ n \in Nat /\ m \in Nat /\ Len(sr) = n + m
      /\ \A i \in Nat : 1 <= i /\ i <= n => sr[i] = s[i]
      /\ \A i \in Nat : 1 <= i /\ i <= m => sr[i + n] = r[i]
  BY Joined, LenProperties
<1> HIDE DEF n, m, sr
<1>2. ASSUME NEW i \in 1 .. n PROVE i \in 1 .. n + m /\ sr[i] = s[i]
  <2>1. i \in Nat /\ 1 <= i /\ i <= n  BY <1>1
  <2> QED BY <1>1, <2>1
<1>3. ASSUME NEW i \in 1 .. n + m
      PROVE  (i \in 1 .. n /\ sr[i] = s[i]) \/ (i > n /\ i - n \in 1 .. m /\ sr[i] = r[i - n])
  <2>1. CASE i <= n  BY <1>1, <1>2, <2>1
  <2>2. CASE ~(i <= n)
    <3>1. i - n \in Nat /\ 1 <= i - n /\ i - n <= m /\ (i - n) + n = i  BY <1>1, <2>2
    <3> QED BY <1>1, <2>2, <3>1
  <2> QED BY <2>1, <2>2
<1>4. NoMouse(s) /\ NoMouse(r) => NoMouse(sr)  BY <1>1, <1>3 DEF NoMouse, n, m
<1>5. ASSUME NoAnswersIn(r), NEW i \in 1 .. n + m, IsAnswer(sr[i]) PROVE i \in 1 .. n /\ sr[i] = s[i]
  BY <1>3, <1>5 DEF NoAnswersIn, m
<1>6. ASSUME NEW phase, NoAnswersIn(r), AnswersDue(phase, s) PROVE AnswersDue(phase, sr)
  <2>1. NoAnswersIn(s) => NoAnswersIn(sr)  BY <1>1, <1>5, <1>6 DEF NoAnswersIn, n
  <2>2. OneAnswer(s) => OneAnswer(sr)
    <3> SUFFICES ASSUME OneAnswer(s) PROVE OneAnswer(sr)  OBVIOUS
    <3>1. PICK a \in 1 .. n : s[a] = ACK /\ \A i \in 1 .. n : IsAnswer(s[i]) => i = a
      BY DEF OneAnswer, n
    <3>2. a \in 1 .. n + m /\ sr[a] = ACK  BY <1>2, <3>1
    <3>3. \A i \in 1 .. n + m : IsAnswer(sr[i]) => i = a  BY <1>5, <1>6, <3>1
    <3> QED BY <1>1, <3>2, <3>3 DEF OneAnswer
  <2>3. TwoAnswers(s) => TwoAnswers(sr)
    <3> SUFFICES ASSUME TwoAnswers(s) PROVE TwoAnswers(sr)  OBVIOUS
    <3>1. PICK a \in 1 .. n :
            /\ a + 1 <= n /\ s[a] = ACK /\ s[a + 1] = PASSED
            /\ \A i \in 1 .. n : IsAnswer(s[i]) => i = a \/ i = a + 1
      BY DEF TwoAnswers, n
    <3>2. a \in 1 .. n + m /\ sr[a] = ACK  BY <1>2, <3>1
    <3>3. a + 1 \in 1 .. n /\ a + 1 <= n + m  BY <1>1, <3>1
    <3>4. sr[a + 1] = PASSED  BY <1>2, <3>1, <3>3
    <3>5. \A i \in 1 .. n + m : IsAnswer(sr[i]) => i = a \/ i = a + 1  BY <1>5, <1>6, <3>1
    <3> QED BY <1>1, <3>2, <3>3, <3>4, <3>5 DEF TwoAnswers
  <2>4. PassedNext(s) => PassedNext(sr)
    <3> SUFFICES ASSUME PassedNext(s) PROVE PassedNext(sr)  OBVIOUS
    <3>1. n >= 1 /\ s[1] = PASSED /\ \A i \in 1 .. n : IsAnswer(s[i]) => i = 1
      BY DEF PassedNext, n
    <3>2. n + m >= 1 /\ sr[1] = PASSED  BY <1>1, <1>2, <3>1
    <3>3. \A i \in 1 .. n + m : IsAnswer(sr[i]) => i = 1  BY <1>5, <1>6, <3>1
    <3> QED BY <1>1, <3>2, <3>3 DEF PassedNext
  <2> QED BY <1>6, <2>1, <2>2, <2>3, <2>4 DEF AnswersDue
<1>7. ASSUME NoAnswersIn(s), m = 1, r[1] = ACK PROVE OneAnswer(sr)
  <2>1. n + 1 \in 1 .. n + m /\ sr[n + 1] = ACK
    <3>1. sr[1 + n] = r[1] /\ 1 + n = n + 1  BY <1>1, <1>7
    <3> QED BY <1>1, <1>7, <3>1
  <2>2. \A i \in 1 .. n + m : IsAnswer(sr[i]) => i = n + 1
    <3> SUFFICES ASSUME NEW i \in 1 .. n + m, i # n + 1 PROVE ~IsAnswer(sr[i])  OBVIOUS
    <3>1. ~(i > n)  BY <1>1, <1>7
    <3> QED BY <1>3, <1>7, <3>1 DEF NoAnswersIn, n
  <2> QED BY <1>1, <2>1, <2>2 DEF OneAnswer
<1>8. ASSUME NoAnswersIn(s), m = 2, r[1] = ACK, r[2] = PASSED PROVE TwoAnswers(sr)
  <2>1. n + 1 \in 1 .. n + m /\ (n + 1) + 1 <= n + m /\ sr[n + 1] = ACK /\ sr[(n + 1) + 1] = PASSED
    <3>1. sr[1 + n] = r[1] /\ 1 + n = n + 1 /\ sr[2 + n] = r[2] /\ 2 + n = (n + 1) + 1  BY <1>1, <1>8
    <3> QED BY <1>1, <1>8, <3>1
  <2>2. \A i \in 1 .. n + m : IsAnswer(sr[i]) => i = n + 1 \/ i = (n + 1) + 1
    <3> SUFFICES ASSUME NEW i \in 1 .. n + m, i # n + 1, i # (n + 1) + 1 PROVE ~IsAnswer(sr[i])
      OBVIOUS
    <3>1. ~(i > n)  BY <1>1, <1>8
    <3> QED BY <1>3, <1>8, <3>1 DEF NoAnswersIn, n
  <2> QED BY <1>1, <2>1, <2>2 DEF TwoAnswers
<1> QED BY <1>4, <1>6, <1>7, <1>8 DEF sr, m

---------------------------------------------------------------------------
(* The PS/2 driver *)

AckWaits == {"ack", "rate", "rate2", "reset", "mreset", "mode"}
Coming == psFifo \o psWire

Ps2Types ==
  /\ attached \in {"keyboard", "mouse", "none"} /\ device_type \in {"unknown", "keyboard", "mouse"}
  /\ psWire \in Seq(AllBytes) /\ psFifo \in Seq(AllBytes)
  /\ psPc \in AckWaits \cup {"start", "bat", "id", "idle", "decode", "result", "mresult", "mid", "stuck"}
  /\ state \in DecoderStates /\ (state # "INIT" => psPc = "decode")
  /\ typed \in Seq(KeyEvents)

\* What is attached is found, as its answers are read in their order.
DeviceInv ==
  /\ device_type \in {"unknown", attached}
  /\ attached # "keyboard" => psPc # "decode" /\ ~ghost
  /\ attached = "none" => psPc \in {"start", "idle", "stuck"}
  /\ attached = "mouse" =>
       /\ psPc = "start" => psFifo = << >> /\ psWire = << >>
       /\ psPc = "ack" => Coming = <<ACK, PASSED, MOUSE_ID>>
       /\ psPc = "bat" => Coming = <<PASSED, MOUSE_ID>>
       /\ psPc = "id" => Coming = <<MOUSE_ID>>
  /\ attached = "keyboard" => NoMouse(Coming) /\ psPc \notin {"mreset", "mode", "mresult", "mid"}

\* What comes is what the keys did and has not been decoded, in whole codes but
\* for the part that the decoder has read, or a wait has dropped.
KeysDue(t) ==
  /\ Tagged(t, Coming, typed)
  /\ psPc \notin AckWaits /\ Coming # << >> => t[1].st = state
KeysInv ==
  /\ ~ghost
  /\ \E t : KeysDue(t)
  /\ state # "INIT" => Coming # << >>
  /\ AnswersDue(psPc, Coming)

Ps2Inv ==
  /\ Ps2Types
  /\ ~late => DeviceInv
  /\ attached = "keyboard" /\ ~late /\ ~split => KeysInv

LEMMA AckWaitsAre == DOMAIN AfterAck = AckWaits
                  /\ AfterAck["ack"] = "bat" /\ AfterAck["rate"] = "rate2" /\ AfterAck["rate2"] = "idle"
                  /\ AfterAck["reset"] = "result" /\ AfterAck["mreset"] = "mresult"
                  /\ AfterAck["mode"] = "idle"
BY DEF AfterAck, AckWaits

LEMMA Ps2Begins == Ps2Init \/ Ps2Idle => Ps2Inv
<1> SUFFICES ASSUME Ps2Init \/ Ps2Idle PROVE Ps2Inv  OBVIOUS
<1> USE DEF Ps2Init, Ps2Idle, Ps2InitOf
<1>1. psFifo = << >> /\ psWire = << >> /\ Len(<< >>) = 0 /\ typed = << >>  OBVIOUS
<1>2. Coming = << >>
  <2>1. << >> \in Seq(AllBytes)  OBVIOUS
  <2> QED BY <1>1, <2>1, ConcatEmptySeq DEF Coming
<1>3. Ps2Types  BY <1>1 DEF Ps2Types, DecoderStates
<1>4. DeviceInv  BY <1>1, <1>2 DEF DeviceInv, NoMouse
<1>5. KeysInv
  <2>1. KeysDue(<< >>)  BY <1>2, NothingTagged DEF KeysDue
  <2>2. AnswersDue(psPc, Coming)  BY <1>1, <1>2 DEF AnswersDue, NoAnswersIn
  <2> QED BY <2>1, <2>2 DEF KeysInv
<1> QED BY <1>3, <1>4, <1>5 DEF Ps2Inv

\* The FIFO and the wire hold one stream of bytes.
LEMMA ComingIs ==
  ASSUME Ps2Types
  PROVE  Coming \in Seq(AllBytes)
BY Joined DEF Ps2Types, Coming

LEMMA ByteIsRead ==
  ASSUME Ps2Types, psFifo # << >>
  PROVE  /\ Tail(psFifo) \in Seq(AllBytes) /\ ByteRead \in AllBytes
         /\ Coming # << >> /\ Coming[1] = ByteRead /\ Tail(psFifo) \o psWire = Tail(Coming)
<1> DEFINE f == psFifo
           w == psWire
           n == Len(f)
<1>1. f \in Seq(AllBytes) /\ w \in Seq(AllBytes) /\ Coming = f \o w /\ f # << >>
  BY DEF Ps2Types, Coming
<1> HIDE DEF f, w
<1>2. /\ Tail(f) \in Seq(AllBytes) /\ Head(f) \in AllBytes /\ Head(f) = f[1]
      /\ n \in Nat /\ n >= 1 /\ Len(Tail(f)) = n - 1 /\ \A i \in 1 .. n - 1 : Tail(f)[i] = f[i + 1]
  BY <1>1, TailIs, LenProperties
<1>3. /\ f \o w \in Seq(AllBytes) /\ Len(f \o w) = n + Len(w) /\ Len(w) \in Nat
      /\ \A i \in 1 .. n + Len(w) : (f \o w)[i] = IF i <= n THEN f[i] ELSE w[i - n]
  BY <1>1, ConcatProperties, LenProperties
<1>4. f \o w # << >>
  <2>1. Len(f \o w) # 0  BY <1>2, <1>3
  <2> QED BY <2>1
<1>5. 1 \in 1 .. n + Len(w) /\ (f \o w)[1] = f[1]  BY <1>2, <1>3
<1>6. Tail(f) \o w = Tail(f \o w)
  <2>1. /\ Tail(f) \o w \in Seq(AllBytes) /\ Len(Tail(f) \o w) = (n - 1) + Len(w)
        /\ \A i \in 1 .. (n - 1) + Len(w) :
             (Tail(f) \o w)[i] = IF i <= n - 1 THEN Tail(f)[i] ELSE w[i - (n - 1)]
    BY <1>1, <1>2, ConcatProperties
  <2>2. /\ Tail(f \o w) \in Seq(AllBytes) /\ Len(Tail(f \o w)) = (n + Len(w)) - 1
        /\ \A i \in 1 .. (n + Len(w)) - 1 : Tail(f \o w)[i] = (f \o w)[i + 1]
    BY <1>3, <1>4, TailIs
  <2>3. ASSUME NEW i \in 1 .. (n - 1) + Len(w)
        PROVE  (Tail(f) \o w)[i] = Tail(f \o w)[i]
    <3>1. /\ i + 1 \in 1 .. n + Len(w) /\ i \in 1 .. (n + Len(w)) - 1
          /\ (i + 1) - n = i - (n - 1) /\ (i <= n - 1 <=> i + 1 <= n)
      BY <1>2, <1>3
    <3>2. Tail(f \o w)[i] = IF i + 1 <= n THEN f[i + 1] ELSE w[(i + 1) - n]  BY <1>3, <2>2, <3>1
    <3>3. i <= n - 1 => Tail(f)[i] = f[i + 1]  BY <1>2
    <3> QED BY <2>1, <3>1, <3>2, <3>3
  <2>4. Len(Tail(f) \o w) = Len(Tail(f \o w))  BY <1>2, <1>3, <2>1, <2>2
  <2> QED BY <2>1, <2>2, <2>3, <2>4, SeqEqual
<1> QED BY <1>1, <1>2, <1>4, <1>5, <1>6 DEF f, w, ByteRead

LEMMA BytesAreSent ==
  ASSUME Ps2Types, NEW r \in Seq(AllBytes)
  PROVE  psFifo \o (psWire \o r) = Coming \o r /\ psWire \o r \in Seq(AllBytes)
<1>1. psFifo \in Seq(AllBytes) /\ psWire \in Seq(AllBytes)  BY DEF Ps2Types
<1>2. psFifo \o (psWire \o r) = (psFifo \o psWire) \o r  BY <1>1, ConcatAssociative
<1> QED BY <1>1, <1>2, Joined DEF Coming

LEMMA AnswersAre ==
  /\ <<ACK>> \in Seq(AllBytes) /\ <<ACK, PASSED>> \in Seq(AllBytes)
  /\ <<ACK>> \in Seq({ACK, PASSED}) /\ <<ACK, PASSED>> \in Seq({ACK, PASSED})
  /\ <<MOUSE_ID>> \in Seq(AllBytes) /\ <<ACK, PASSED, MOUSE_ID>> \in Seq(AllBytes)
  /\ NoMouse(<<ACK>>) /\ NoMouse(<<ACK, PASSED>>)
<1>1. ACK \in AllBytes /\ PASSED \in AllBytes /\ MOUSE_ID \in AllBytes  BY DEF AllBytes
<1>2. ACK # MOUSE_ID /\ PASSED # MOUSE_ID  BY BytesDiffer
<1> QED BY <1>1, <1>2 DEF NoMouse

LEMMA KeysRead ==
  ASSUME Ps2Types, NEW t, KeysDue(t), psFifo # << >>
  PROVE  /\ Tagged(Tail(t), Tail(Coming), typed)
         /\ Tail(Coming) # << >> /\ ByteRead \notin PrefixBytes => Tail(t)[1].st = "INIT"
BY ByteIsRead, TailTagged DEF KeysDue

LEMMA KeysSent ==
  ASSUME NEW t, NEW s, NEW todo, Tagged(t, s, todo), NEW r \in Seq({ACK, PASSED})
  PROVE  \E u : /\ Tagged(u, s \o r, todo)
                /\ s # << >> => u[1] = t[1]
                /\ s = << >> /\ s \o r # << >> => u[1].st = "INIT"
<1> DEFINE a == [i \in 1 .. Len(r) |-> [at |-> 0, st |-> "INIT"]]
<1>1. Tagged(a, r, todo)  BY AnswersTagged
<1>2. Len(r) \in Nat /\ \A i \in 1 .. Len(r) : r[i] \in {ACK, PASSED}  BY LenProperties, ElementOfSeq
<1>3. \A i \in 1 .. Len(r) : IsAnswer(r[i]) /\ a[i].st = "INIT"  BY <1>2 DEF IsAnswer
<1>4. r # << >> => 1 \in 1 .. Len(r)
  <2>1. r # << >> => Len(r) # 0  BY EmptySeq
  <2> QED BY <1>2, <2>1
<1> HIDE DEF a
<1>5. Tagged(t \o a, s \o r, todo)  BY <1>1, <1>3, <1>4, JoinTagged
<1>6. /\ t \in Seq(Tags) /\ a \in Seq(Tags) /\ s \in Seq(AllBytes) /\ r \in Seq(AllBytes)
      /\ Len(t) = Len(s) /\ Len(a) = Len(r)
  BY <1>1 DEF Tagged
<1>7. s # << >> => (t \o a)[1] = t[1]
  <2> SUFFICES ASSUME s # << >> PROVE (t \o a)[1] = t[1]  OBVIOUS
  <2>1. Len(t) >= 1 /\ 1 \in Nat  BY <1>6, TailIs
  <2>2. \A n \in Nat : 1 <= n /\ n <= Len(t) => (t \o a)[n] = t[n]  BY <1>6, Joined
  <2> QED BY <2>1, <2>2
<1>8. s = << >> /\ s \o r # << >> => (t \o a)[1].st = "INIT"
  <2> SUFFICES ASSUME s = << >>, s \o r # << >> PROVE (t \o a)[1].st = "INIT"  OBVIOUS
  <2>1. s \o r = r  BY <1>6, ConcatEmptySeq
  <2>2. t = << >>  BY <1>6, EmptySeq
  <2>3. t \o a = a  BY <1>6, <2>2, ConcatEmptySeq
  <2> QED BY <1>3, <1>4, <2>1, <2>3
<1> QED BY <1>5, <1>7, <1>8

\* The driver waits or goes on, and the stream is as it was.
LEMMA StreamStays ==
  ASSUME Ps2Types, KeysInv, Coming' = Coming, typed' = typed, state' = state,
         ghost' = ghost, psPc' \in AckWaits \/ psPc \notin AckWaits, AnswersDue(psPc', Coming)
  PROVE  KeysInv'
<1>1. PICK t : KeysDue(t)  BY DEF KeysInv
<1>2. KeysDue(t)'  BY <1>1 DEF KeysDue
<1> QED BY <1>2 DEF KeysInv

\* A byte that is no prefix is read outside the decoder.
LEMMA StreamRead ==
  ASSUME Ps2Types, KeysInv, psFifo # << >>, psPc # "decode", psFifo' = Tail(psFifo), psWire' = psWire,
         typed' = typed, state' = state, ghost' = ghost,
         psPc' \in AckWaits \/ ByteRead \notin PrefixBytes, AnswersDue(psPc', Tail(Coming))
  PROVE  KeysInv'
<1>1. PICK t : KeysDue(t)  BY DEF KeysInv
<1>2. Coming' = Tail(Coming)  BY ByteIsRead DEF Coming
<1>3. state = "INIT"  BY DEF Ps2Types
<1>4. KeysDue(Tail(t))'  BY <1>1, <1>2, <1>3, KeysRead DEF KeysDue
<1> QED BY <1>2, <1>3, <1>4 DEF KeysInv

\* A command is sent, and its answers are due.
LEMMA StreamSent ==
  ASSUME Ps2Types, KeysInv, NEW r \in Seq({ACK, PASSED}), r \in Seq(AllBytes),
         psPc # "decode", psFifo' = psFifo, psWire' = psWire \o r,
         typed' = typed, state' = state, ghost' = ghost,
         psPc' \in AckWaits, AnswersDue(psPc', Coming \o r)
  PROVE  KeysInv'
<1>1. PICK t : KeysDue(t)  BY DEF KeysInv
<1>2. Coming' = Coming \o r  BY BytesAreSent DEF Coming
<1>3. state = "INIT"  BY DEF Ps2Types
<1>4. PICK u : Tagged(u, Coming \o r, typed)  BY <1>1, KeysSent DEF KeysDue
<1>5. KeysDue(u)'  BY <1>2, <1>4 DEF KeysDue
<1> QED BY <1>2, <1>3, <1>5 DEF KeysInv

LEMMA KeyMovesKeeps ==
  ASSUME Ps2Inv, NEW e \in KeyEvents, KeyMoves(e)
  PROVE  Ps2Inv'
<1> USE DEF KeyMoves
<1> DEFINE todo == Append(typed, e)
           n == Len(typed) + 1
           made == Scancode(e)
<1>1. Ps2Types /\ (~late => DeviceInv)  BY DEF Ps2Inv
<1>2. /\ typed \in Seq(KeyEvents) /\ todo \in Seq(KeyEvents) /\ Len(typed) \in Nat
      /\ Len(todo) = n /\ todo[n] = e /\ n \in 1 .. Len(todo)
  <2>1. typed \in Seq(KeyEvents)  BY <1>1 DEF Ps2Types
  <2>2. /\ todo \in Seq(KeyEvents) /\ Len(todo) = n /\ todo[n] = e /\ Len(typed) \in Nat
    BY <2>1, AppendProperties, LenProperties
  <2> QED BY <2>1, <2>2
<1>3. typed' = todo /\ psWire' = psWire \o made  OBVIOUS
<1> HIDE DEF todo
<1>4. PICK u : /\ Tagged(u, made, todo) /\ u[1].st = "INIT"
               /\ \A i \in 1 .. Len(made) : u[i].at = n /\ ~IsAnswer(made[i]) /\ made[i] # MOUSE_ID
  <2>1. \E u : /\ Tagged(u, Scancode(todo[n]), todo) /\ u[1].st = "INIT"
                /\ \A i \in 1 .. Len(Scancode(todo[n])) :
                     u[i].at = n /\ ~IsAnswer(Scancode(todo[n])[i]) /\ Scancode(todo[n])[i] # MOUSE_ID
    <3>1. todo \in Seq(KeyEvents) /\ n \in 1 .. Len(todo)  BY <1>2
    <3> HIDE DEF n
    <3> QED BY <3>1, CodeTagged
  <2>2. Scancode(todo[n]) = made  BY <1>2
  <2> QED BY <2>1, <2>2
<1> HIDE DEF made
<1>5. made \in Seq(AllBytes) /\ NoAnswersIn(made) /\ NoMouse(made)  BY <1>4 DEF Tagged, NoAnswersIn, NoMouse
<1>6. Coming' = Coming \o made /\ psWire' \in Seq(AllBytes)  BY <1>1, <1>3, <1>5, BytesAreSent DEF Coming
<1>7. Ps2Types'  BY <1>1, <1>2, <1>3, <1>6 DEF Ps2Types
<1>8. Coming \in Seq(AllBytes)  BY <1>1, ComingIs
<1>9. ~late => DeviceInv'
  BY <1>1, <1>5, <1>6, <1>8, JoinAnswers DEF DeviceInv
<1>10. ASSUME KeysInv PROVE KeysInv'
  <2>1. PICK t : KeysDue(t)  BY <1>10 DEF KeysInv
  <2>2. Tagged(t, Coming, typed)  BY <2>1 DEF KeysDue
  <2>3. Tagged(t, Coming, todo)  BY <1>2, <2>2, MoreTagged DEF todo
  <2>4. ASSUME NEW i \in 1 .. Len(Coming), NEW j \in 1 .. Len(made), ~IsAnswer(Coming[i])
        PROVE  t[i].at < u[j].at
    <3>1. t[i].at <= Len(typed)  BY <2>2, <2>4 DEF Tagged, Tells
    <3>2. t[i] \in Tags
      <4>1. t \in Seq(Tags) /\ Len(t) = Len(Coming)  BY <2>2 DEF Tagged
      <4> QED BY <4>1, ElementOfSeq
    <3>3. u[j].at = n  BY <1>4
    <3> QED BY <1>2, <3>1, <3>2, <3>3 DEF Tags
  <2>5. Tagged(t \o u, Coming \o made, todo)  BY <1>4, <2>3, <2>4, JoinTagged
  <2>6. /\ t \in Seq(Tags) /\ u \in Seq(Tags) /\ Len(t) = Len(Coming) /\ Len(u) = Len(made)
    BY <1>4, <2>2 DEF Tagged
  <2>7. psPc \notin AckWaits /\ Coming' # << >> => (t \o u)[1].st = state
    <3> SUFFICES ASSUME psPc \notin AckWaits PROVE (t \o u)[1].st = state  OBVIOUS
    <3>1. CASE Coming # << >>
      <4>1. Len(t) >= 1 /\ 1 \in Nat  BY <1>8, <2>6, <3>1, TailIs
      <4>2. \A k \in Nat : 1 <= k /\ k <= Len(t) => (t \o u)[k] = t[k]  BY <2>6, Joined
      <4>3. (t \o u)[1] = t[1]  BY <4>1, <4>2
      <4> QED BY <2>1, <3>1, <4>3 DEF KeysDue
    <3>2. CASE Coming = << >>
      <4>1. t = << >>  BY <2>6, <3>2, EmptySeq
      <4>2. t \o u = u  BY <2>6, <4>1, ConcatEmptySeq
      <4>3. state = "INIT"  BY <1>10, <3>2 DEF KeysInv
      <4> QED BY <1>4, <4>2, <4>3
    <3> QED BY <3>1, <3>2
  <2>8. KeysDue(t \o u)'  BY <1>3, <1>6, <2>5, <2>7 DEF KeysDue
  <2>9. AnswersDue(psPc, Coming')
    <3>1. \A phase : NoAnswersIn(made) /\ AnswersDue(phase, Coming) => AnswersDue(phase, Coming \o made)
      BY <1>5, <1>8, JoinAnswers
    <3> QED BY <1>5, <1>6, <1>10, <3>1 DEF KeysInv
  <2>10. state # "INIT" => Coming' # << >>
    <3> SUFFICES ASSUME Coming # << >> PROVE Coming' # << >>  BY <1>10 DEF KeysInv
    <3>1. Len(Coming) >= 1  BY <1>8, TailIs
    <3>2. Len(Coming') = Len(Coming) + Len(made) /\ Len(made) \in Nat /\ Len(Coming) \in Nat
      BY <1>5, <1>6, <1>8, ConcatProperties, LenProperties
    <3>3. Len(Coming') # 0  BY <3>1, <3>2
    <3> QED BY <3>3
  <2> QED BY <1>10, <2>8, <2>9, <2>10 DEF KeysInv
<1> QED BY <1>7, <1>9, <1>10 DEF Ps2Inv

LEMMA ArriveKeeps == Ps2Inv /\ Ps2Arrive => Ps2Inv'
<1> SUFFICES ASSUME Ps2Inv, Ps2Arrive PROVE Ps2Inv'  OBVIOUS
<1> USE DEF Ps2Arrive
<1> DEFINE one == <<Head(psWire)>>
<1>1. Ps2Types /\ (~late => DeviceInv)  BY DEF Ps2Inv
<1>2. psWire \in Seq(AllBytes) /\ psFifo \in Seq(AllBytes) /\ psWire # << >>  BY <1>1 DEF Ps2Types
<1>3. Head(psWire) \in AllBytes /\ Tail(psWire) \in Seq(AllBytes)  BY <1>2, TailIs
<1>4. one \in Seq(AllBytes) /\ one \o Tail(psWire) = psWire
  <2>1. one \in Seq(AllBytes)  BY <1>3
  <2>2. one \o Tail(psWire) = psWire
    <3>1. /\ one \o Tail(psWire) \in Seq(AllBytes) /\ Len(one \o Tail(psWire)) = 1 + Len(Tail(psWire))
          /\ \A i \in 1 .. 1 + Len(Tail(psWire)) :
               (one \o Tail(psWire))[i] = IF i <= 1 THEN one[i] ELSE Tail(psWire)[i - 1]
      BY <1>3, <2>1, ConcatProperties
    <3>2. /\ Head(psWire) = psWire[1] /\ Len(psWire) >= 1 /\ Len(Tail(psWire)) = Len(psWire) - 1
          /\ \A i \in 1 .. Len(psWire) - 1 : Tail(psWire)[i] = psWire[i + 1]
          /\ Len(psWire) \in Nat
      BY <1>2, TailIs, LenProperties
    <3>3. ASSUME NEW i \in 1 .. Len(psWire)
          PROVE  (one \o Tail(psWire))[i] = psWire[i]
      <4>1. CASE i = 1  BY <3>1, <3>2, <4>1
      <4>2. CASE i # 1
        <5>1. i - 1 \in 1 .. Len(psWire) - 1 /\ (i - 1) + 1 = i /\ ~(i <= 1)  BY <3>2, <4>2
        <5>2. Tail(psWire)[i - 1] = psWire[i]  BY <3>2, <5>1
        <5>3. i \in 1 .. 1 + Len(Tail(psWire))  BY <3>2
        <5>4. (one \o Tail(psWire))[i] = Tail(psWire)[i - 1]  BY <3>1, <5>1, <5>3
        <5> QED BY <5>2, <5>4
      <4> QED BY <4>1, <4>2
    <3>4. Len(one \o Tail(psWire)) = Len(psWire)  BY <3>1, <3>2
    <3> QED BY <1>2, <3>1, <3>3, <3>4, SeqEqual
  <2> QED BY <2>1, <2>2
<1>5. psFifo' = psFifo \o one /\ psWire' = Tail(psWire)
  BY <1>2, <1>3, AppendIsConcat
<1> HIDE DEF one
<1>6. psFifo' \in Seq(AllBytes) /\ psWire' \in Seq(AllBytes)  BY <1>2, <1>3, <1>4, <1>5, ConcatProperties
<1>7. Coming' = Coming
  <2>1. (psFifo \o one) \o Tail(psWire) = psFifo \o (one \o Tail(psWire))
    <3>1. psFifo \in Seq(AllBytes) /\ one \in Seq(AllBytes) /\ Tail(psWire) \in Seq(AllBytes)
      BY <1>2, <1>3, <1>4
    <3> QED BY <3>1, ConcatAssociative
  <2> QED BY <1>4, <1>5, <2>1 DEF Coming
<1>8. Ps2Types'  BY <1>1, <1>6 DEF Ps2Types
<1>9. ~late => DeviceInv'  BY <1>1, <1>2, <1>7 DEF DeviceInv
<1>10. KeysInv => KeysInv'  BY <1>1, <1>7, StreamStays DEF KeysInv
<1> QED BY <1>8, <1>9, <1>10 DEF Ps2Inv

LEMMA SendResetKeeps == Ps2Inv /\ SendReset => Ps2Inv'
<1> SUFFICES ASSUME Ps2Inv, SendReset PROVE Ps2Inv'  OBVIOUS
<1> USE DEF SendReset
<1>1. Ps2Types /\ (~late => DeviceInv)  BY DEF Ps2Inv
<1>2. CASE CommandError
  <2>1. attached = "none" /\ psPc' = "idle" /\ psWire' = psWire /\ Coming' = Coming
    BY <1>2 DEF CommandError, Coming
  <2>2. Ps2Types'  BY <1>1, <2>1 DEF Ps2Types
  <2>3. ~late => DeviceInv'  BY <1>1, <2>1 DEF DeviceInv
  <2> QED BY <2>1, <2>2, <2>3 DEF Ps2Inv
<1>3. CASE ~CommandError
  <2> DEFINE id == IF attached = "mouse" THEN <<MOUSE_ID>> ELSE << >>
             r == <<ACK, PASSED>> \o id
  <2>1. /\ psWire' = (psWire \o <<ACK, PASSED>>) \o id /\ psPc' = "ack" /\ psPc = "start"
        /\ attached # "none"
    BY <1>3 DEF CommandError
  <2>2. id \in Seq(AllBytes)
    <3>1. << >> \in Seq(AllBytes)  OBVIOUS
    <3> QED BY <3>1, AnswersAre
  <2>3. /\ attached = "mouse" => r = <<ACK, PASSED, MOUSE_ID>>
        /\ attached # "mouse" => r = <<ACK, PASSED>>
    BY AnswersAre, ShortSequences, ConcatEmptySeq
  <2> HIDE DEF id
  <2>4. r \in Seq(AllBytes) /\ psWire' = psWire \o r
    <3>1. psWire \in Seq(AllBytes) /\ <<ACK, PASSED>> \in Seq(AllBytes) /\ id \in Seq(AllBytes)
      BY <1>1, <2>2, AnswersAre DEF Ps2Types
    <3>2. (psWire \o <<ACK, PASSED>>) \o id = psWire \o (<<ACK, PASSED>> \o id)
      BY <3>1, ConcatAssociative
    <3> QED BY <2>1, <3>1, <3>2, ConcatProperties
  <2> HIDE DEF r
  <2>5. Coming' = Coming \o r /\ psWire' \in Seq(AllBytes)  BY <1>1, <2>4, BytesAreSent DEF Coming
  <2>6. Ps2Types'  BY <1>1, <2>1, <2>5 DEF Ps2Types, AckWaits
  <2>7. Coming \in Seq(AllBytes)  BY <1>1, ComingIs
  <2>8. ~late => DeviceInv'
    <3> SUFFICES ASSUME ~late PROVE DeviceInv'  OBVIOUS
    <3>1. attached = "mouse" => Coming' = <<ACK, PASSED, MOUSE_ID>>
      <4> SUFFICES ASSUME attached = "mouse" PROVE Coming' = <<ACK, PASSED, MOUSE_ID>>  OBVIOUS
      <4>1. psFifo = << >> /\ psWire = << >>  BY <1>1, <2>1 DEF DeviceInv
      <4>2. Coming = << >>
        <5>1. << >> \in Seq(AllBytes)  OBVIOUS
        <5> QED BY <4>1, <5>1, ConcatEmptySeq DEF Coming
      <4>3. << >> \o r = r  BY <2>4, ConcatEmptySeq
      <4> QED BY <2>3, <2>5, <4>2, <4>3
    <3>2. attached = "keyboard" => NoMouse(Coming')
      <4> SUFFICES ASSUME attached = "keyboard" PROVE NoMouse(Coming \o r)  BY <2>5
      <4>1. NoMouse(Coming) /\ NoMouse(r)  BY <1>1, <2>3, AnswersAre DEF DeviceInv
      <4> QED BY <2>4, <2>7, <4>1, JoinAnswers
    <3> QED BY <1>1, <2>1, <3>1, <3>2 DEF DeviceInv
  <2>9. attached = "keyboard" /\ KeysInv => KeysInv'
    <3> SUFFICES ASSUME attached = "keyboard", KeysInv PROVE KeysInv'  OBVIOUS
    <3>1. r = <<ACK, PASSED>> /\ r \in Seq({ACK, PASSED})  BY <2>3, AnswersAre
    <3>2. NoAnswersIn(Coming)  BY <2>1 DEF KeysInv, AnswersDue
    <3>3. TwoAnswers(Coming \o r)
      <4>1. Len(r) = 2 /\ r[1] = ACK /\ r[2] = PASSED  BY <3>1
      <4> QED BY <2>4, <2>7, <3>2, <4>1, JoinAnswers
    <3>4. AnswersDue(psPc', Coming \o r)  BY <2>1, <3>3 DEF AnswersDue
    <3>5. psPc' \in AckWaits /\ psPc # "decode"  BY <2>1 DEF AckWaits
    <3> QED BY <1>1, <2>4, <3>1, <3>4, <3>5, StreamSent
  <2> QED BY <2>6, <2>8, <2>9 DEF Ps2Inv
<1> QED BY <1>2, <1>3

LEMMA WaitForAckKeeps == Ps2Inv /\ WaitForAck => Ps2Inv'
<1> SUFFICES ASSUME Ps2Inv, WaitForAck PROVE Ps2Inv'  OBVIOUS
<1> USE DEF WaitForAck
<1> DEFINE later == IF ByteRead # ACK THEN psPc ELSE AfterAck[psPc]
<1>1. Ps2Types /\ (~late => DeviceInv)  BY DEF Ps2Inv
<1>2. /\ psPc \in AckWaits /\ psFifo # << >> /\ psFifo' = Tail(psFifo) /\ psPc' = later
      /\ psWire' = IF later # psPc /\ psPc = "rate" THEN Append(psWire, ACK) ELSE psWire
  BY AckWaitsAre DEF ReadByteIn, Valid
<1>3. /\ Tail(psFifo) \in Seq(AllBytes) /\ ByteRead \in AllBytes
      /\ Coming # << >> /\ Coming[1] = ByteRead /\ Tail(psFifo) \o psWire = Tail(Coming)
  BY <1>1, <1>2, ByteIsRead
<1>4. psWire \in Seq(AllBytes) /\ Append(psWire, ACK) = psWire \o <<ACK>>
      /\ Append(psWire, ACK) \in Seq(AllBytes)
  <2>1. psWire \in Seq(AllBytes) /\ ACK \in AllBytes  BY <1>1 DEF Ps2Types, AllBytes
  <2> QED BY <2>1, AppendIsConcat, AppendProperties
<1>5. /\ later \in AckWaits \cup {"bat", "result", "mresult", "idle"}
      /\ later # psPc => ByteRead = ACK
      /\ psPc # "ack" => later \notin {"ack", "bat"}
      /\ psPc \notin {"mreset", "mode"} => later \notin {"mreset", "mode", "mresult"}
  BY <1>2, AckWaitsAre DEF AckWaits
<1>6. psPc = "ack" /\ ByteRead = ACK => later = "bat"  BY AckWaitsAre
<1>7. state = "INIT" /\ psPc # "decode"  BY <1>1, <1>2 DEF Ps2Types, AckWaits
<1>8. ByteRead = ACK => later = AfterAck[psPc]  OBVIOUS
<1>9. ByteRead # ACK => later = psPc  OBVIOUS
<1> HIDE DEF later
<1>10. Ps2Types'
  <2>1. psWire' \in Seq(AllBytes) /\ psFifo' \in Seq(AllBytes)  BY <1>2, <1>3, <1>4
  <2>2. psPc' \in AckWaits \cup {"start", "bat", "id", "idle", "decode", "result", "mresult", "mid", "stuck"}
    BY <1>2, <1>5
  <2> QED BY <1>1, <1>7, <2>1, <2>2 DEF Ps2Types
<1>11. Coming \in Seq(AllBytes) /\ Tail(Coming) \in Seq(AllBytes)  BY <1>1, <1>3, ComingIs, TailIs
\* But for the second byte of a rate, the stream is read and nothing is sent.
<1>12. CASE ~(later # psPc /\ psPc = "rate")
  <2>1. psWire' = psWire /\ Coming' = Tail(Coming)  BY <1>2, <1>3, <1>12 DEF Coming
  <2>2. ~late => DeviceInv'
    <3> SUFFICES ASSUME ~late PROVE DeviceInv'  OBVIOUS
    <3>1. DeviceInv  BY <1>1
    <3>2. attached = "keyboard" => NoMouse(Coming')
      BY <1>3, <1>11, <2>1, <3>1, TailAnswers DEF DeviceInv
    <3>3. attached = "mouse" /\ psPc = "ack" => later = "bat" /\ Coming' = <<PASSED, MOUSE_ID>>
      <4> SUFFICES ASSUME attached = "mouse", psPc = "ack"
                   PROVE  later = "bat" /\ Coming' = <<PASSED, MOUSE_ID>>
        OBVIOUS
      <4>1. Coming = <<ACK, PASSED, MOUSE_ID>>  BY <3>1 DEF DeviceInv
      <4>2. ByteRead = ACK  BY <1>3, <4>1
      <4> QED BY <1>6, <2>1, <4>1, <4>2
    <3>4. /\ psPc' = later /\ attached # "none" /\ psPc' # "start" /\ psPc' # "id" /\ psPc' # "decode"
          /\ psPc' \notin {"mid"}
      BY <1>2, <1>5, <3>1 DEF DeviceInv, AckWaits
    <3>5. attached = "keyboard" => psPc' \notin {"mreset", "mode", "mresult"}
      BY <1>5, <3>1, <3>4 DEF DeviceInv
    <3>6. attached = "mouse" /\ psPc # "ack" => psPc' \notin {"ack", "bat"}  BY <1>5, <3>4
    <3> QED BY <3>1, <3>2, <3>3, <3>4, <3>5, <3>6 DEF DeviceInv
  <2>3. attached = "keyboard" /\ ~late /\ KeysInv => KeysInv'
    <3> SUFFICES ASSUME attached = "keyboard", ~late, KeysInv PROVE KeysInv'  OBVIOUS
    <3>1. psPc \in {"ack", "rate", "rate2", "reset"}  BY <1>1, <1>2 DEF DeviceInv, AckWaits
    <3>2. psPc' \in AckWaits \/ ByteRead \notin PrefixBytes  BY <1>2, <1>5, BytesDiffer
    <3>3. AnswersDue(psPc', Tail(Coming))
      <4>1. CASE ByteRead # ACK
        BY <1>2, <1>3, <1>9, <1>11, <3>1, <4>1, TailAnswers DEF KeysInv, AnswersDue
      <4>2. CASE ByteRead = ACK
        <5>1. psPc # "rate"  BY <1>2, <1>8, <1>12, <4>2, AckWaitsAre
        <5> QED BY <1>2, <1>3, <1>8, <1>11, <3>1, <4>2, <5>1, TailAnswers, AckWaitsAre
               DEF KeysInv, AnswersDue
      <4> QED BY <4>1, <4>2
    <3> QED BY <1>1, <1>2, <1>7, <2>1, <3>2, <3>3, StreamRead
  <2> QED BY <1>10, <2>2, <2>3 DEF Ps2Inv
<1>13. CASE later # psPc /\ psPc = "rate"
  <2>1. ByteRead = ACK /\ later = "rate2" /\ psPc' = "rate2"  BY <1>2, <1>5, <1>8, <1>13, AckWaitsAre
  <2>2. psWire' = psWire \o <<ACK>> /\ Coming' = Tail(Coming) \o <<ACK>>
    <3>1. psWire' = psWire \o <<ACK>>  BY <1>2, <1>4, <1>13
    <3>2. Tail(psFifo) \in Seq(AllBytes) /\ psWire \in Seq(AllBytes) /\ <<ACK>> \in Seq(AllBytes)
      BY <1>3, <1>4, AnswersAre
    <3>3. Tail(psFifo) \o (psWire \o <<ACK>>) = (Tail(psFifo) \o psWire) \o <<ACK>>
      BY <3>2, ConcatAssociative
    <3> QED BY <1>2, <1>3, <3>1, <3>3 DEF Coming
  <2>3. ~late => DeviceInv'
    <3> SUFFICES ASSUME ~late PROVE DeviceInv'  OBVIOUS
    <3>1. DeviceInv  BY <1>1
    <3>2. attached = "keyboard" => NoMouse(Coming')
      <4> SUFFICES ASSUME attached = "keyboard" PROVE NoMouse(Tail(Coming) \o <<ACK>>)  BY <2>2
      <4>1. NoMouse(Tail(Coming))  BY <1>3, <1>11, <3>1, TailAnswers DEF DeviceInv
      <4> QED BY <1>11, <4>1, AnswersAre, JoinAnswers
    <3> QED BY <1>13, <2>1, <3>1, <3>2 DEF DeviceInv
  <2>4. KeysInv => KeysInv'
    <3> SUFFICES ASSUME KeysInv PROVE KeysInv'  OBVIOUS
    <3>1. PICK t : KeysDue(t)  BY DEF KeysInv
    <3>2. Tagged(Tail(t), Tail(Coming), typed)  BY <1>1, <1>2, <3>1, KeysRead
    <3>3. PICK u : Tagged(u, Tail(Coming) \o <<ACK>>, typed)  BY <3>2, KeysSent, AnswersAre
    <3>4. KeysDue(u)'
      <4>1. psPc' \in AckWaits  BY <2>1 DEF AckWaits
      <4> QED BY <2>2, <3>3, <4>1 DEF KeysDue
    <3>5. AnswersDue(psPc', Tail(Coming) \o <<ACK>>)
      <4>1. OneAnswer(Coming)  BY <1>13 DEF KeysInv, AnswersDue
      <4>2. NoAnswersIn(Tail(Coming))  BY <1>3, <1>11, <2>1, <4>1, TailAnswers
      <4>3. Len(<<ACK>>) = 1 /\ <<ACK>>[1] = ACK  OBVIOUS
      <4>4. OneAnswer(Tail(Coming) \o <<ACK>>)  BY <1>11, <4>2, <4>3, AnswersAre, JoinAnswers
      <4> QED BY <2>1, <4>4 DEF AnswersDue
    <3> QED BY <1>7, <2>2, <3>4, <3>5 DEF KeysInv
  <2> QED BY <1>10, <2>3, <2>4 DEF Ps2Inv
<1> QED BY <1>12, <1>13

LEMMA ReadBatKeeps == Ps2Inv /\ ReadBat => Ps2Inv'
<1> SUFFICES ASSUME Ps2Inv, ReadBat PROVE Ps2Inv'  OBVIOUS
<1> USE DEF ReadBat
<1>1. Ps2Types /\ (~late => DeviceInv)  BY DEF Ps2Inv
<1>2. psPc = "bat" /\ psFifo # << >> /\ psFifo' = Tail(psFifo) /\ psWire' = psWire
  BY DEF ReadByteIn, Valid
<1>3. /\ Tail(psFifo) \in Seq(AllBytes) /\ ByteRead \in AllBytes
      /\ Coming # << >> /\ Coming[1] = ByteRead /\ Coming' = Tail(Coming)
  BY <1>1, <1>2, ByteIsRead DEF Coming
<1>4. Ps2Types'  BY <1>1, <1>2, <1>3 DEF Ps2Types
<1>5. Coming \in Seq(AllBytes)  BY <1>1, ComingIs
<1>6. ~late => DeviceInv'
  <2> SUFFICES ASSUME ~late PROVE DeviceInv'  OBVIOUS
  <2>1. DeviceInv /\ (psPc' = "id" \/ psPc' = "idle")  BY <1>1
  <2>2. attached = "keyboard" => NoMouse(Coming')  BY <1>3, <1>5, <2>1, TailAnswers DEF DeviceInv
  <2>3. attached = "mouse" => Coming' = <<MOUSE_ID>>
    <3> SUFFICES ASSUME attached = "mouse" PROVE Coming' = <<MOUSE_ID>>  OBVIOUS
    <3>1. Coming = <<PASSED, MOUSE_ID>>  BY <1>2, <2>1 DEF DeviceInv
    <3> QED BY <1>3, <3>1
  <2> QED BY <1>2, <2>1, <2>2, <2>3 DEF DeviceInv
<1>7. ~split' /\ KeysInv => KeysInv'
  <2> SUFFICES ASSUME ~split', KeysInv PROVE KeysInv'  OBVIOUS
  <2>1. ByteRead = PASSED /\ psPc' = "id" /\ ByteRead \notin PrefixBytes  BY BytesDiffer
  <2>2. AnswersDue(psPc', Tail(Coming))
    BY <1>2, <1>3, <1>5, <2>1, TailAnswers DEF KeysInv, AnswersDue
  <2> QED BY <1>1, <1>2, <2>1, <2>2, StreamRead
<1> QED BY <1>4, <1>6, <1>7 DEF Ps2Inv

LEMMA ReadIdKeeps == Ps2Inv /\ ReadId => Ps2Inv'
<1> SUFFICES ASSUME Ps2Inv, ReadId PROVE Ps2Inv'  OBVIOUS
<1> USE DEF ReadId
<1>1. Ps2Types /\ (~late => DeviceInv)  BY DEF Ps2Inv
<1>2. psPc = "id" /\ psFifo # << >> /\ psFifo' = Tail(psFifo) /\ psPc' = "idle"
  BY DEF ReadByteIn, Valid
<1>3. /\ Tail(psFifo) \in Seq(AllBytes) /\ ByteRead \in AllBytes
      /\ Coming # << >> /\ Coming[1] = ByteRead /\ Tail(psFifo) \o psWire = Tail(Coming)
  BY <1>1, <1>2, ByteIsRead
<1>4. psWire' \in Seq(AllBytes)
  <2>1. psWire \in Seq(AllBytes) /\ ACK \in AllBytes  BY <1>1 DEF Ps2Types, AllBytes
  <2> QED BY <2>1, AppendProperties
<1>5. Ps2Types'  BY <1>1, <1>2, <1>3, <1>4 DEF Ps2Types
<1>6. Coming \in Seq(AllBytes) /\ 1 \in 1 .. Len(Coming)
  <2>1. Coming \in Seq(AllBytes)  BY <1>1, ComingIs
  <2>2. Len(Coming) >= 1 /\ Len(Coming) \in Nat  BY <1>3, <2>1, TailIs, LenProperties
  <2> QED BY <2>1, <2>2
<1>7. attached = "keyboard" /\ ~late => ByteRead # MOUSE_ID
  BY <1>1, <1>3, <1>6 DEF DeviceInv, NoMouse
<1>8. ~late => DeviceInv'
  <2> SUFFICES ASSUME ~late PROVE DeviceInv'  OBVIOUS
  <2>1. DeviceInv  BY <1>1
  <2>2. attached = "keyboard" => NoMouse(Coming') /\ device_type' = device_type
    <3> SUFFICES ASSUME attached = "keyboard" PROVE NoMouse(Coming') /\ device_type' = device_type
      OBVIOUS
    <3>1. psWire' = psWire /\ device_type' = device_type  BY <1>7 DEF IsMouse
    <3>2. NoMouse(Tail(Coming))  BY <1>3, <1>6, <2>1, TailAnswers DEF DeviceInv
    <3> QED BY <1>2, <1>3, <3>1, <3>2 DEF Coming
  <2>3. attached = "mouse" => device_type' = "mouse"
    <3>1. attached = "mouse" => Coming = <<MOUSE_ID>>  BY <1>2, <2>1 DEF DeviceInv
    <3>2. attached = "mouse" => ByteRead = MOUSE_ID  BY <1>3, <3>1
    <3> QED BY <3>2 DEF IsMouse
  <2>4. attached = "keyboard" \/ attached = "mouse"  BY <1>1, <1>2, <2>1 DEF Ps2Types, DeviceInv
  <2> QED BY <1>2, <2>1, <2>2, <2>3, <2>4 DEF DeviceInv
<1>9. attached = "keyboard" /\ ~late => split'  BY <1>7
<1> QED BY <1>5, <1>8, <1>9 DEF Ps2Inv

LEMMA TimeOutKeeps == Ps2Inv /\ TimeOut => Ps2Inv'
<1> SUFFICES ASSUME Ps2Inv, TimeOut PROVE Ps2Inv'  OBVIOUS
<1> USE DEF TimeOut
<1>1. Ps2Types /\ (~late => DeviceInv)  BY DEF Ps2Inv
<1>2. psPc \in AckWaits \cup {"bat", "id"} /\ psFifo = << >> /\ psPc' = "idle"  BY AckWaitsAre
<1>3. state = "INIT"  BY <1>1, <1>2 DEF Ps2Types, AckWaits
<1>4. Ps2Types'  BY <1>1, <1>2, <1>3 DEF Ps2Types
<1>5. ~late' => ~late /\ Coming = << >> /\ Coming' = << >>
  <2> SUFFICES ASSUME ~late' PROVE ~late /\ Coming = << >> /\ Coming' = << >>  OBVIOUS
  <2>1. ~late /\ psWire = << >>  OBVIOUS
  <2>2. << >> \o << >> = << >>
    <3>1. << >> \in Seq(AllBytes)  OBVIOUS
    <3> QED BY <3>1, ConcatEmptySeq
  <2> QED BY <1>2, <2>1, <2>2 DEF Coming
<1>6. ~late' => DeviceInv'
  <2> SUFFICES ASSUME ~late' PROVE DeviceInv'  OBVIOUS
  <2>1. DeviceInv /\ Coming = << >> /\ Coming' = << >>  BY <1>1, <1>5
  <2>2. attached = "mouse" => psPc # "id"
    <3> SUFFICES ASSUME attached = "mouse", psPc = "id" PROVE FALSE  OBVIOUS
    <3>1. Coming = <<MOUSE_ID>>  BY <2>1 DEF DeviceInv
    <3> QED BY <2>1, <3>1
  <2>3. attached # "none"  BY <1>2, <2>1 DEF DeviceInv, AckWaits
  <2>4. attached = "keyboard" => NoMouse(Coming')  BY <2>1 DEF DeviceInv
  <2> QED BY <1>1, <1>2, <2>1, <2>2, <2>3, <2>4 DEF DeviceInv, Ps2Types
<1>7. ~late' /\ KeysInv => KeysInv'
  <2> SUFFICES ASSUME ~late', KeysInv PROVE KeysInv'  OBVIOUS
  <2>1. Coming' = << >>  BY <1>5
  <2>2. KeysDue(<< >>)'  BY <2>1, NothingTagged DEF KeysDue
  <2>3. Len(<< >>) = 0 /\ AnswersDue(psPc', << >>)  BY <1>2 DEF AnswersDue, NoAnswersIn
  <2> QED BY <1>3, <2>1, <2>2, <2>3 DEF KeysInv
<1> QED BY <1>4, <1>5, <1>6, <1>7 DEF Ps2Inv

\* A command to a device that was found.
LEMMA CommandKeeps ==
  ASSUME Ps2Inv, NEW type \in {"keyboard", "mouse"}, NEW place \in AckWaits, place # "ack",
         NEW said \in Seq(AllBytes), Command(type, place, said),
         type = "keyboard" =>
           /\ place \in {"rate", "reset"} /\ said \in Seq({ACK, PASSED}) /\ NoMouse(said)
           /\ place = "rate" => said = <<ACK>>
           /\ place = "reset" => said = <<ACK, PASSED>>
  PROVE  Ps2Inv'
<1> USE DEF Command
<1>1. Ps2Types /\ (~late => DeviceInv)  BY DEF Ps2Inv
<1>2. psWire' = psWire \o said /\ psPc = "idle" /\ psPc' = place /\ device_type = type  OBVIOUS
<1>3. Coming' = Coming \o said /\ psWire' \in Seq(AllBytes)  BY <1>1, <1>2, BytesAreSent DEF Coming
<1>4. state = "INIT"  BY <1>1, <1>2 DEF Ps2Types
<1>5. Ps2Types'  BY <1>1, <1>2, <1>3, <1>4 DEF Ps2Types
<1>6. Coming \in Seq(AllBytes)  BY <1>1, ComingIs
<1>7. ~late => attached = type  BY <1>1, <1>2 DEF DeviceInv
<1>8. ~late => DeviceInv'
  <2> SUFFICES ASSUME ~late PROVE DeviceInv'  OBVIOUS
  <2>1. DeviceInv /\ attached = type  BY <1>1, <1>7
  <2>2. attached = "keyboard" => NoMouse(Coming')
    BY <1>3, <1>6, <2>1, JoinAnswers DEF DeviceInv
  <2> QED BY <1>2, <2>1, <2>2 DEF DeviceInv, AckWaits
<1>9. attached = "keyboard" /\ ~late /\ KeysInv => KeysInv'
  <2> SUFFICES ASSUME attached = "keyboard", ~late, KeysInv PROVE KeysInv'  OBVIOUS
  <2>1. type = "keyboard"  BY <1>7
  <2>2. NoAnswersIn(Coming)  BY <1>2 DEF KeysInv, AnswersDue
  <2>3. AnswersDue(place, Coming \o said)
    <3>1. CASE place = "rate"
      <4>1. Len(said) = 1 /\ said[1] = ACK  BY <2>1, <3>1
      <4>2. OneAnswer(Coming \o said)  BY <1>6, <2>2, <4>1, JoinAnswers
      <4> QED BY <3>1, <4>2 DEF AnswersDue
    <3>2. CASE place = "reset"
      <4>1. Len(said) = 2 /\ said[1] = ACK /\ said[2] = PASSED  BY <2>1, <3>2
      <4>2. TwoAnswers(Coming \o said)  BY <1>6, <2>2, <4>1, JoinAnswers
      <4> QED BY <3>2, <4>2 DEF AnswersDue
    <3> QED BY <2>1, <3>1, <3>2
  <2> QED BY <1>1, <1>2, <2>1, <2>3, StreamSent
<1> QED BY <1>5, <1>8, <1>9 DEF Ps2Inv

LEMMA CommandsKeep ==
  Ps2Inv /\ (SetRate \/ ResetKeyboard \/ ResetMouse \/ SetMouseMode) => Ps2Inv'
<1> SUFFICES ASSUME Ps2Inv PROVE SetRate \/ ResetKeyboard \/ ResetMouse \/ SetMouseMode => Ps2Inv'
  OBVIOUS
<1>1. /\ "rate" \in AckWaits /\ "reset" \in AckWaits /\ "mreset" \in AckWaits /\ "mode" \in AckWaits
  BY DEF AckWaits
<1>2. /\ <<ACK>> \in Seq(AllBytes) /\ <<ACK, PASSED>> \in Seq(AllBytes)
      /\ <<ACK, PASSED, MOUSE_ID>> \in Seq(AllBytes)
  BY AnswersAre
<1>3. SetRate => Ps2Inv'
  <2>1. SetRate => Command("keyboard", "rate", <<ACK>>)  BY DEF SetRate
  <2> QED BY <1>1, <1>2, <2>1, AnswersAre, CommandKeeps
<1>4. ResetKeyboard => Ps2Inv'
  <2>1. ResetKeyboard => Command("keyboard", "reset", <<ACK, PASSED>>)  BY DEF ResetKeyboard
  <2> QED BY <1>1, <1>2, <2>1, AnswersAre, CommandKeeps
<1>5. ResetMouse => Ps2Inv'
  <2>1. ResetMouse => Command("mouse", "mreset", <<ACK, PASSED, MOUSE_ID>>)  BY DEF ResetMouse
  <2> QED BY <1>1, <1>2, <2>1, CommandKeeps
<1>6. SetMouseMode => Ps2Inv'
  <2>1. SetMouseMode => Command("mouse", "mode", <<ACK>>)  BY DEF SetMouseMode
  <2> QED BY <1>1, <1>2, <2>1, CommandKeeps
<1> QED BY <1>3, <1>4, <1>5, <1>6

LEMMA ReadResultKeeps == Ps2Inv /\ ReadResult => Ps2Inv'
<1> SUFFICES ASSUME Ps2Inv, ReadResult PROVE Ps2Inv'  OBVIOUS
<1> USE DEF ReadResult, Valid
<1>1. Ps2Types /\ (~late => DeviceInv)  BY DEF Ps2Inv
<1>2. state = "INIT" /\ psPc = "result" /\ psPc' = "idle"  BY <1>1 DEF Ps2Types
<1>3. Ps2Types'
  <2>1. psFifo' \in Seq(AllBytes)  BY <1>1, ByteIsRead DEF Ps2Types
  <2> QED BY <1>1, <1>2, <2>1 DEF Ps2Types
<1>4. ~late' => ~late /\ psFifo # << >> /\ ByteRead = PASSED /\ psFifo' = Tail(psFifo)  OBVIOUS
<1>5. ~late' => DeviceInv' /\ (KeysInv => KeysInv')
  <2> SUFFICES ASSUME ~late' PROVE DeviceInv' /\ (KeysInv => KeysInv')  OBVIOUS
  <2>1. DeviceInv /\ psFifo # << >> /\ ByteRead = PASSED /\ psFifo' = Tail(psFifo)  BY <1>1, <1>4
  <2>2. Coming # << >> /\ Coming[1] = PASSED /\ Coming' = Tail(Coming) /\ Coming \in Seq(AllBytes)
    BY <1>1, <2>1, ByteIsRead, ComingIs DEF Coming
  <2>3. attached = "keyboard" => NoMouse(Coming')  BY <2>1, <2>2, TailAnswers DEF DeviceInv
  <2>4. attached # "none"  BY <1>2, <2>1 DEF DeviceInv
  <2>5. DeviceInv'  BY <1>2, <2>1, <2>3, <2>4 DEF DeviceInv
  <2>6. ASSUME KeysInv PROVE KeysInv'
    <3>1. AnswersDue(psPc', Tail(Coming))  BY <1>2, <2>2, <2>6, TailAnswers DEF KeysInv, AnswersDue
    <3>2. ByteRead \notin PrefixBytes  BY <2>1, BytesDiffer
    <3> QED BY <1>1, <1>2, <2>1, <2>6, <3>1, <3>2, StreamRead
  <2> QED BY <2>5, <2>6
<1> QED BY <1>3, <1>4, <1>5 DEF Ps2Inv

LEMMA ReadMouseResultKeeps == Ps2Inv /\ ReadMouseResult => Ps2Inv'
<1> SUFFICES ASSUME Ps2Inv, ReadMouseResult PROVE Ps2Inv'  OBVIOUS
<1> USE DEF ReadMouseResult, Valid
<1>1. Ps2Types /\ (~late => DeviceInv)  BY DEF Ps2Inv
<1>2. /\ psPc \in {"mresult", "mid"} /\ psPc' \in {"mid", "idle"} /\ state = "INIT"
  BY <1>1 DEF Ps2Types
<1>3. Ps2Types'
  <2>1. psFifo' \in Seq(AllBytes)  BY <1>1, ByteIsRead DEF Ps2Types
  <2> QED BY <1>1, <1>2, <2>1 DEF Ps2Types
<1>4. ~late => attached = "mouse"  BY <1>1, <1>2 DEF DeviceInv, Ps2Types
<1>5. ~late' => ~late  OBVIOUS
<1>6. ~late => DeviceInv'  BY <1>1, <1>2, <1>4 DEF DeviceInv
<1> QED BY <1>3, <1>4, <1>5, <1>6 DEF Ps2Inv

\* read_fd, and the beginning and the end of a decoding that finds nothing.
LEMMA CallsKeep == Ps2Inv /\ (ReadPs2Fd \/ DecodeScancode \/ DecodeRunsDry) => Ps2Inv'
<1> SUFFICES ASSUME Ps2Inv, ReadPs2Fd \/ DecodeScancode \/ DecodeRunsDry PROVE Ps2Inv'  OBVIOUS
<1> USE DEF ReadPs2Fd, DecodeScancode, DecodeRunsDry
<1>1. Ps2Types /\ (~late => DeviceInv)  BY DEF Ps2Inv
<1>2. /\ psPc \in {"idle", "decode"} /\ psPc' \in {"idle", "decode", "stuck"} /\ state' \in DecoderStates
      /\ state' # "INIT" => psPc' = "decode"
      /\ psPc' = "decode" => device_type = "keyboard"
      /\ psPc = "decode" => psPc' = "idle"
  BY <1>1 DEF Ps2Types, DecoderStates
<1>3. UNCHANGED <<attached, device_type, psWire, psFifo, typed, ghost, late>> /\ Coming' = Coming
  BY DEF Coming
<1>4. Ps2Types'  BY <1>1, <1>2, <1>3 DEF Ps2Types
<1>5. ~late => DeviceInv'
  <2> SUFFICES ASSUME ~late PROVE DeviceInv'  OBVIOUS
  <2>1. DeviceInv  BY <1>1
  <2>2. attached # "keyboard" => psPc' # "decode"  BY <1>2, <2>1 DEF DeviceInv
  <2>3. attached = "none" => psPc' \in {"start", "idle", "stuck"}  BY <1>2, <2>2
  <2> QED BY <1>2, <1>3, <2>1, <2>2, <2>3 DEF DeviceInv
<1>6. ~split' => ~split /\ state' = state
  BY <1>1 DEF Ps2Types
<1>7. ~split' /\ KeysInv => KeysInv'
  <2> SUFFICES ASSUME ~split', KeysInv PROVE KeysInv'  OBVIOUS
  <2>1. AnswersDue(psPc', Coming)  BY <1>2 DEF KeysInv, AnswersDue
  <2>2. psPc \notin AckWaits  BY <1>2 DEF AckWaits
  <2> QED BY <1>1, <1>3, <1>6, <2>1, <2>2, StreamStays
<1> QED BY <1>3, <1>4, <1>5, <1>6, <1>7 DEF Ps2Inv

LEMMA ClearFifoKeeps == Ps2Inv /\ ClearFifo => Ps2Inv'
<1> SUFFICES ASSUME Ps2Inv, ClearFifo PROVE Ps2Inv'  OBVIOUS
<1> USE DEF ClearFifo
<1>1. Ps2Types /\ (~late => DeviceInv)  BY DEF Ps2Inv
<1>2. << >> \in Seq(AllBytes) /\ psWire \in Seq(AllBytes) /\ psFifo \in Seq(AllBytes)
  BY <1>1 DEF Ps2Types
<1>3. Ps2Types' /\ Coming' = psWire  BY <1>1, <1>2, ConcatEmptySeq DEF Ps2Types, Coming
<1>4. NoMouse(Coming) => NoMouse(psWire)
  <2> SUFFICES ASSUME NoMouse(Coming), NEW i \in 1 .. Len(psWire) PROVE psWire[i] # MOUSE_ID
    BY DEF NoMouse
  <2>1. /\ Len(Coming) = Len(psFifo) + Len(psWire) /\ Len(psFifo) \in Nat /\ Len(psWire) \in Nat
        /\ \A n \in Nat : 1 <= n /\ n <= Len(psWire) => Coming[n + Len(psFifo)] = psWire[n]
    BY <1>2, Joined, LenProperties DEF Coming
  <2>2. i \in Nat /\ 1 <= i /\ i <= Len(psWire) /\ i + Len(psFifo) \in 1 .. Len(Coming)  BY <2>1
  <2>3. Coming[i + Len(psFifo)] = psWire[i]  BY <2>1, <2>2
  <2> QED BY <2>2, <2>3 DEF NoMouse
<1>5. ~late => DeviceInv'  BY <1>1, <1>3, <1>4 DEF DeviceInv
<1>6. ~split' /\ KeysInv => KeysInv'
  <2> SUFFICES ASSUME ~split', KeysInv PROVE KeysInv'  OBVIOUS
  <2>1. Coming' = << >>  BY <1>3
  <2>2. KeysDue(<< >>)'  BY <2>1, NothingTagged DEF KeysDue
  <2>3. Len(<< >>) = 0 /\ AnswersDue(psPc', << >>)  BY DEF AnswersDue, NoAnswersIn
  <2>4. state = "INIT"  BY <1>1 DEF Ps2Types
  <2> QED BY <2>1, <2>2, <2>3, <2>4 DEF KeysInv
<1> QED BY <1>3, <1>5, <1>6 DEF Ps2Inv

LEMMA LeastNumber ==
  ASSUME NEW S \in SUBSET Nat, S # {}
  PROVE  \E m \in S : \A n \in S : m <= n
<1> DEFINE Below == {ss \in Nat \X Nat : ss[1] < ss[2]}
<1>1. IsWellFoundedOn(Below, Nat)
  BY NatLessThanWellFounded DEF OpToRel
<1>2. \E m \in S : \A n \in S : ~ (<<n, m>> \in Below)
  <2> HIDE DEF Below
  <2> QED BY <1>1, WFMin
<1>3. \A m, n \in S : ~ (<<n, m>> \in Below) => m <= n
  OBVIOUS
<1> QED BY <1>2, <1>3

LEMMA MinIs ==
  ASSUME NEW S \in SUBSET Nat, S # {}
  PROVE  Min(S) \in S /\ \A n \in S : Min(S) <= n
BY LeastNumber DEF Min

\* The decoder's next byte is that of the key's doing it is in.
LEMMA DecodeByteKeeps == Ps2Inv /\ DecodeByte => Ps2Inv'
<1> SUFFICES ASSUME Ps2Inv, DecodeByte PROVE Ps2Inv'  OBVIOUS
<1> USE DEF DecodeByte
<1> DEFINE byte == ByteRead
           event == Decoded(state, byte)
           fit == {k \in DOMAIN typed : typed[k] = event}
           m == Min(fit)
           rest == SubSeq(typed, m + 1, Len(typed))
<1>1. Ps2Types /\ (~late => DeviceInv)  BY DEF Ps2Inv
<1>2. psPc = "decode" /\ psFifo # << >> /\ psFifo' = Tail(psFifo) /\ psWire' = psWire
  BY DEF ReadByteIn, Valid
<1>3. /\ Tail(psFifo) \in Seq(AllBytes) /\ byte \in AllBytes
      /\ Coming # << >> /\ Coming[1] = byte /\ Coming' = Tail(Coming)
  BY <1>1, <1>2, ByteIsRead DEF Coming
<1>4. /\ byte \in PrefixBytes => state' = NextState(state, byte) /\ UNCHANGED <<psPc, typed, ghost>>
      /\ byte \notin PrefixBytes =>
           /\ psPc' = "idle" /\ state' = "INIT" /\ ghost' = (ghost \/ fit = {})
           /\ typed' = IF fit = {} THEN typed ELSE rest
  OBVIOUS
<1>5. /\ typed \in Seq(KeyEvents) /\ DOMAIN typed = 1 .. Len(typed) /\ Len(typed) \in Nat
      /\ fit \subseteq 1 .. Len(typed) /\ fit \in SUBSET Nat
  <2>1. typed \in Seq(KeyEvents)  BY <1>1 DEF Ps2Types
  <2>2. DOMAIN typed = 1 .. Len(typed) /\ Len(typed) \in Nat  BY <2>1, LenProperties
  <2> QED BY <2>1, <2>2
<1>6. fit # {} => m \in fit /\ m \in 1 .. Len(typed) /\ \A k \in fit : m <= k  BY <1>5, MinIs
<1> HIDE DEF byte, event, fit, m
<1>7. fit # {} => rest \in Seq(KeyEvents)
  <2> SUFFICES ASSUME fit # {} PROVE rest \in Seq(KeyEvents)  OBVIOUS
  <2>1. m + 1 \in 1 .. Len(typed) + 1 /\ Len(typed) \in (m + 1) - 1 .. Len(typed)  BY <1>5, <1>6
  <2> QED BY <1>5, <2>1, SubSeqProperties
<1> HIDE DEF rest
<1>8. state' \in DecoderStates /\ (state' # "INIT" => psPc' = "decode")
  <2>1. byte \in PrefixBytes => NextState(state, byte) \in DecoderStates
    BY <1>1 DEF NextState, DecoderStates, Ps2Types
  <2>2. "INIT" \in DecoderStates  BY DEF DecoderStates
  <2> QED BY <1>2, <1>4, <2>1, <2>2
<1>9. Ps2Types'
  <2>1. typed' \in Seq(KeyEvents)  BY <1>4, <1>5, <1>7
  <2>2. psPc' \in {"decode", "idle"}  BY <1>2, <1>4
  <2> QED BY <1>1, <1>2, <1>3, <1>8, <2>1, <2>2 DEF Ps2Types
<1>10. Coming \in Seq(AllBytes)  BY <1>1, ComingIs
<1>11. ~late => DeviceInv'
  <2> SUFFICES ASSUME ~late PROVE DeviceInv'  OBVIOUS
  <2>1. DeviceInv  BY <1>1
  <2>2. attached = "keyboard"  BY <1>2, <2>1 DEF DeviceInv
  <2>3. NoMouse(Coming')  BY <1>3, <1>10, <2>1, <2>2, TailAnswers DEF DeviceInv
  <2>4. psPc' \in {"decode", "idle"}  BY <1>2, <1>4
  <2> QED BY <2>1, <2>2, <2>3, <2>4 DEF DeviceInv
<1>12. ASSUME KeysInv PROVE KeysInv'
  <2>1. PICK t : KeysDue(t)  BY <1>12 DEF KeysInv
  <2>2. Tagged(t, Coming, typed) /\ t[1].st = state  BY <1>2, <1>3, <2>1 DEF KeysDue, AckWaits
  <2>3. NoAnswersIn(Coming) /\ NoAnswersIn(Tail(Coming)) /\ ~IsAnswer(byte)
    <3>1. NoAnswersIn(Coming)  BY <1>2, <1>12 DEF KeysInv, AnswersDue
    <3> QED BY <1>3, <1>10, <3>1, TailAnswers
  <2> DEFINE k == t[1].at
             e == typed[k]
  <2>4. /\ Tells(t[1], byte, typed) /\ t[1] \in Tags
    <3>1. t \in Seq(Tags) /\ Len(t) = Len(Coming)  BY <2>2 DEF Tagged
    <3>2. Len(Coming) >= 1 /\ Len(Coming) \in Nat  BY <1>3, <1>10, TailIs, LenProperties
    <3>3. 1 \in 1 .. Len(Coming)  BY <3>2
    <3>4. t[1] \in Tags  BY <3>1, <3>3, ElementOfSeq
    <3> QED BY <1>3, <2>2, <2>3, <3>3, <3>4 DEF Tagged
  <2>5. k \in 1 .. Len(typed) /\ HasRead(e, state) /\ byte = ByteOf(e, state)
    BY <1>5, <2>2, <2>4 DEF Tells, Tags
  <2>6. e \in KeyEvents /\ state \in DecoderStates
    BY <1>1, <1>5, <2>5, ElementOfSeq DEF Ps2Types
  <2>7. /\ byte \in PrefixBytes => NextState(state, byte) # "INIT"
        /\ byte \notin PrefixBytes => event = e
    BY <2>5, <2>6, ByteOfIs DEF event
  <2> DEFINE u == Tail(t)
             s == Tail(Coming)
  <2>8. /\ Tagged(u, s, typed)
        /\ s # << >> /\ byte \notin PrefixBytes => u[1].st = "INIT"
        /\ byte \in PrefixBytes => s # << >> /\ u[1].st = NextState(state, byte)
        /\ byte \notin PrefixBytes => \A i \in 1 .. Len(s) : ~IsAnswer(s[i]) => k < u[i].at
    BY <1>3, <2>2, <2>3, TailTagged
  <2> HIDE DEF k, e, u, s
  <2>9. CASE byte \in PrefixBytes
    <3>1. KeysDue(u)'  BY <1>3, <1>4, <2>8, <2>9 DEF KeysDue, s
    <3>2. AnswersDue(psPc', Coming')  BY <1>2, <1>3, <1>4, <2>3, <2>9 DEF AnswersDue
    <3>3. ~ghost' /\ Coming' # << >>  BY <1>3, <1>4, <1>12, <2>8, <2>9 DEF KeysInv, s
    <3> QED BY <3>1, <3>2, <3>3 DEF KeysInv
  <2>10. CASE byte \notin PrefixBytes
    <3>1. k \in fit  BY <1>5, <2>5, <2>7, <2>10 DEF fit, e
    <3>2. fit # {} /\ m \in 1 .. Len(typed) /\ m <= k /\ m \in Nat /\ k \in Nat  BY <1>5, <1>6, <3>1
    <3>3. ~ghost' /\ typed' = rest /\ psPc' = "idle" /\ state' = "INIT"
      BY <1>4, <1>12, <2>10, <3>2 DEF KeysInv
    <3>4. ASSUME NEW i \in 1 .. Len(s), ~IsAnswer(s[i]) PROVE u[i].at > m
      <4>1. k < u[i].at  BY <2>8, <2>10, <3>4
      <4>2. u[i] \in Tags
        <5>1. u \in Seq(Tags) /\ Len(u) = Len(s)  BY <2>8 DEF Tagged
        <5> QED BY <5>1, ElementOfSeq
      <4> QED BY <3>2, <4>1, <4>2 DEF Tags
    <3>5. \E v : Tagged(v, s, rest) /\ \A i \in 1 .. Len(s) : v[i].st = u[i].st
      <4>1. /\ typed \in Seq(KeyEvents) /\ m \in 1 .. Len(typed) /\ Tagged(u, s, typed)
            /\ \A i \in 1 .. Len(s) : ~IsAnswer(s[i]) => u[i].at > m
        BY <1>5, <2>8, <3>2, <3>4
      <4>2. \E v : /\ Tagged(v, s, SubSeq(typed, m + 1, Len(typed)))
                   /\ \A i \in 1 .. Len(s) : v[i].st = u[i].st
        BY <4>1, LessTagged
      <4> QED BY <4>2 DEF rest
    <3> PICK v : Tagged(v, s, rest) /\ \A i \in 1 .. Len(s) : v[i].st = u[i].st  BY <3>5
    <3>6. s # << >> => v[1].st = "INIT"
      <4> SUFFICES ASSUME s # << >> PROVE v[1].st = "INIT"  OBVIOUS
      <4>1. s \in Seq(AllBytes)  BY <2>8 DEF Tagged
      <4>2. Len(s) \in Nat \ {0}  BY <4>1, EmptySeq
      <4>3. 1 \in 1 .. Len(s)  BY <4>2
      <4> QED BY <2>8, <2>10, <4>3
    <3>7. KeysDue(v)'  BY <1>3, <3>3, <3>6 DEF KeysDue, s
    <3>8. AnswersDue(psPc', Coming')  BY <1>3, <2>3, <3>3 DEF AnswersDue
    <3> QED BY <3>3, <3>7, <3>8 DEF KeysInv
  <2> QED BY <2>9, <2>10
<1> QED BY <1>9, <1>11, <1>12 DEF Ps2Inv

LEMMA Ps2Keeps == Ps2Inv /\ [Ps2Next]_ps2Vars => Ps2Inv'
<1> SUFFICES ASSUME Ps2Inv, [Ps2Next]_ps2Vars PROVE Ps2Inv'  OBVIOUS
<1>1. ASSUME UNCHANGED ps2Vars PROVE Ps2Inv'
  <2> USE DEF ps2Vars
  <2>1. Ps2Types' /\ Coming' = Coming  BY <1>1 DEF Ps2Inv, Ps2Types, Coming
  <2>2. DeviceInv => DeviceInv'  BY <1>1, <2>1 DEF DeviceInv
  <2>3. KeysInv => KeysInv'
    <3> SUFFICES ASSUME KeysInv PROVE KeysInv'  OBVIOUS
    <3>1. PICK t : KeysDue(t)  BY DEF KeysInv
    <3>2. KeysDue(t)'  BY <1>1, <2>1, <3>1 DEF KeysDue
    <3> QED BY <1>1, <2>1, <3>2 DEF KeysInv
  <2> QED BY <1>1, <2>1, <2>2, <2>3 DEF Ps2Inv
<1>2. ASSUME NEW e \in KeyEvents, KeyMoves(e) PROVE Ps2Inv'  BY <1>2, KeyMovesKeeps
<1>3. Ps2Driver => Ps2Inv'
  BY SendResetKeeps, WaitForAckKeeps, ReadBatKeeps, ReadIdKeeps, TimeOutKeeps, CommandsKeep,
     ReadResultKeeps, ReadMouseResultKeeps, CallsKeep, DecodeByteKeeps, ClearFifoKeeps DEF Ps2Driver
<1> QED BY <1>1, <1>2, <1>3, ArriveKeeps DEF Ps2Next

LEMMA Ps2Holds == Ps2Inv => TypeFound /\ NoGhostKeys
BY DEF Ps2Inv, Ps2Types, DeviceInv, KeysInv, TypeFound, NoGhostKeys

---------------------------------------------------------------------------
(* The parts together *)

LEMMA PortsStep ==
  ASSUME [PartsNext]_<<part, calculated, peripherals, hal, processor, utilities>>
  PROVE  /\ [SerialNext]_serialVars /\ [CfgNext]_cfgVars /\ [AudioNext]_audioVars
         /\ [Ps2Next]_ps2Vars /\ [KeyNext]_keyVars
BY DEF PartsNext, calculated, peripherals, ports, hal, processor, utilities

LEMMA PortsStart == PartsInit => SerialInv /\ CfgInv /\ AudioInv /\ Ps2Inv /\ NamesInv
BY InitSerial, InitCfg, InitAudio, Ps2Begins, NamesBegin DEF PartsInit, Starts

\* Words and bytes pass the FIFOs once, in order, and register writes reach
\* the chip that is meant (altera_up_avalon_audio.c, altera_up_avalon_rs232.c,
\* altera_up_avalon_audio_and_video_config.c).
THEOREM PortsWholeAlways == PartsSpec => []PortsWhole
<1>1. PartsInit => SerialInv /\ CfgInv /\ AudioInv  BY PortsStart
<1>2. SerialInv /\ CfgInv /\ AudioInv
        /\ [PartsNext]_<<part, calculated, peripherals, hal, processor, utilities>>
        => (SerialInv /\ CfgInv /\ AudioInv)'
  BY PortsStep, SerialKeeps, CfgKeeps, AudioKeeps
<1>3. SerialInv /\ CfgInv /\ AudioInv => PortsWhole
  BY SerialHolds DEF CfgInv, AudioInv, PortsWhole, ReachesItsChip, SelectionKept
<1> QED BY <1>1, <1>2, <1>3, PTL DEF PartsSpec

\* The device is known and its keys are named as they were pressed
\* (altera_up_avalon_ps2.c, altera_up_ps2_keyboard.c).
THEOREM KeysKnownAlways == PartsSpec => []KeysKnown
<1>1. PartsInit => Ps2Inv /\ NamesInv  BY PortsStart
<1>2. Ps2Inv /\ NamesInv
        /\ [PartsNext]_<<part, calculated, peripherals, hal, processor, utilities>>
        => (Ps2Inv /\ NamesInv)'
  BY PortsStep, Ps2Keeps, NamesKeeps
<1>3. Ps2Inv /\ NamesInv => KeysKnown
  BY Ps2Holds DEF NamesInv, KeysKnown
<1> QED BY <1>1, <1>2, <1>3, PTL DEF PartsSpec
=============================================================================
