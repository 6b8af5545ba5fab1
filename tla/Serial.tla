------------------------------- MODULE Serial -------------------------------
(***************************************************************************)
(* The RS232 driver in both directions: the receive FIFO that reads empty, *)
(* the transmit FIFO, and one data register for both, which a write reads  *)
(* before it writes (altera_up_avalon_rs232.c, send_data of rs232.c).      *)
(*                                                                         *)
(* A byte is its number in the order of the line.                          *)
(***************************************************************************)
EXTENDS Integers, SequencesExt

CONSTANTS
  SerialDepth,     \* bytes each FIFO holds
  MessageSize,     \* bytes of a message: 7
  SpaceWanted,     \* free space send_data waits for: 50
  MaxLine          \* bound on the bytes each way

ASSUME SerialAssumption ==
  /\ SerialDepth \in Nat /\ MessageSize \in Nat \ {0} /\ SpaceWanted \in Nat /\ MaxLine \in Nat
  /\ SerialDepth > SpaceWanted /\ SpaceWanted + 1 >= MessageSize

VARIABLES
  rxFifo, txFifo,
  re,              \* CONTROL.RE, the read interrupt enabled
  serial,          \* the call under way: what it does, how much is left of it
  arrived, given,  \* bytes that came in, bytes handed to the driver
  toReader,        \* history: what read_fd returned
  eaten, missed,   \* history: bytes that writes took, that found no room
  onLine,          \* history: what was sent
  lostBy          \* history: calls that lost a byte to a full FIFO
serialVars == <<rxFifo, txFifo, re, serial, arrived, given, toReader, eaten, missed,
                onLine, lostBy>>

NoSerial == [does |-> "none", by |-> "none", left |-> 0]

SerialInit ==
  /\ rxFifo = << >> /\ txFifo = << >> /\ re = FALSE /\ serial = NoSerial
  /\ arrived = 0 /\ given = 0 /\ toReader = << >> /\ eaten = {} /\ missed = {}
  /\ onLine = << >> /\ lostBy = {}

---------------------------------------------------------------------------
(* The line *)

ByteComes ==
  /\ arrived < MaxLine /\ arrived' = arrived + 1
  /\ IF Len(rxFifo) < SerialDepth
     THEN rxFifo' = Append(rxFifo, arrived + 1) /\ missed' = missed
     ELSE rxFifo' = rxFifo /\ missed' = missed \cup {arrived + 1}
  /\ UNCHANGED <<txFifo, re, serial, given, toReader, eaten, onLine, lostBy>>

ByteGoes ==
  /\ txFifo # << >>
  /\ onLine' = Append(onLine, Head(txFifo)) /\ txFifo' = Tail(txFifo)
  /\ UNCHANGED <<rxFifo, re, serial, arrived, given, toReader, eaten, missed, lostBy>>

---------------------------------------------------------------------------
(* The driver *)

\* alt_up_rs232_get_used_space_in_read_FIFO
UsedSpace == Len(rxFifo)

\* alt_up_rs232_get_available_space_in_write_FIFO
AvailableSpace == SerialDepth - Len(txFifo)

\* alt_up_rs232_enable_read_interrupt, alt_up_rs232_disable_read_interrupt
EnableReadInterrupt ==
  /\ ~re /\ re' = TRUE
  /\ UNCHANGED <<rxFifo, txFifo, serial, arrived, given, toReader, eaten, missed, onLine, lostBy>>
DisableReadInterrupt ==
  /\ re /\ re' = FALSE
  /\ UNCHANGED <<rxFifo, txFifo, serial, arrived, given, toReader, eaten, missed, onLine, lostBy>>

BeginSerial(does, by, n) ==
  /\ serial.does = "none"
  /\ serial' = [does |-> does, by |-> by, left |-> n]
  /\ UNCHANGED <<rxFifo, txFifo, re, arrived, given, toReader, eaten, missed, onLine, lostBy>>

SendData == given + MessageSize <= MaxLine /\ BeginSerial("wait", "send_data", MessageSize)
WriteFd(n) == given + n <= MaxLine /\ BeginSerial("write", "write_fd", n)

ReadFd(n) == BeginSerial("read", "read_fd", n)

SpaceFound(space) == space > SpaceWanted

WaitForSpace ==
  /\ serial.does = "wait" /\ SpaceFound(AvailableSpace)
  /\ serial' = [serial EXCEPT !.does = "write"]
  /\ UNCHANGED <<rxFifo, txFifo, re, arrived, given, toReader, eaten, missed, onLine, lostBy>>

Remaining == IF serial.left = 1 THEN NoSerial ELSE [serial EXCEPT !.left = @ - 1]

\* alt_up_rs232_write_data: reading the data register takes a byte that has
\* come in, and nobody looks at it.
WriteData ==
  /\ serial.does = "write"
  /\ rxFifo' = IF rxFifo = << >> THEN << >> ELSE Tail(rxFifo)
  /\ eaten' = IF rxFifo = << >> THEN eaten ELSE eaten \cup {Head(rxFifo)}
  /\ given' = given + 1
  /\ IF AvailableSpace > 0
     THEN txFifo' = Append(txFifo, given + 1) /\ lostBy' = lostBy
     ELSE txFifo' = txFifo /\ lostBy' = lostBy \cup {serial.by}
  /\ serial' = Remaining
  /\ UNCHANGED <<re, arrived, toReader, missed, onLine>>

\* Seeded bug: the byte that fills the buffer is read again, and dropped.
KeptButLast(read, n) == IF n = 1 THEN read ELSE Append(read, Head(rxFifo))

Kept(read, n) == Append(read, Head(rxFifo))

\* alt_up_rs232_read_fd: it ends when nothing valid is read.
ReadByte ==
  /\ serial.does = "read"
  /\ IF rxFifo = << >>
     THEN serial' = NoSerial /\ UNCHANGED <<rxFifo, toReader>>
     ELSE /\ serial' = Remaining /\ rxFifo' = Tail(rxFifo)
          /\ toReader' = Kept(toReader, serial.left)
  /\ UNCHANGED <<txFifo, re, arrived, given, eaten, missed, onLine, lostBy>>

SerialNext ==
  \/ ByteComes \/ ByteGoes \/ EnableReadInterrupt \/ DisableReadInterrupt
  \/ SendData \/ WaitForSpace \/ WriteData \/ ReadByte
  \/ \E n \in 1 .. MessageSize : WriteFd(n) \/ ReadFd(n)

---------------------------------------------------------------------------
(* Properties *)

\* A message of send_data goes out whole and in order, whatever is still in the
\* FIFO: only write_fd, which never looks for space, loses bytes
\* (rs232.c:57-65, altera_up_avalon_rs232.c:118-133).
MessagesWhole ==
  /\ "send_data" \notin lostBy
  /\ lostBy = {} => onLine \o txFifo = [k \in 1 .. given |-> k]

\* Every byte that came in is still there, was given to a reader in its place,
\* was dropped by a full FIFO, or was taken by a write, one for each byte written
\* at most (altera_up_avalon_rs232.c:83-116).
ReadOrEaten ==
  /\ \A k \in 1 .. Len(toReader) - 1 : toReader[k] < toReader[k + 1]
  /\ Range(toReader) \cup Range(rxFifo) \cup eaten \cup missed = 1 .. arrived
  /\ Cardinality(eaten) <= given
=============================================================================
