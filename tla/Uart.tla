------------------------------- MODULE Uart -------------------------------
(***************************************************************************)
(* The RS232 link into the board: the sender's bytes, the receive FIFO of  *)
(* the UART core, and make_command (Nios/rs232.c), which cuts the byte     *)
(* stream into instructions of seven bytes by counting.                    *)
(*                                                                         *)
(* There is no frame marker and no checksum: an instruction starts at the  *)
(* first byte that happens to be a command letter.  A byte is a model      *)
(* value, a letter or not; the instruction has FrameLen of them.           *)
(***************************************************************************)
EXTENDS Integers, SequencesExt

CONSTANTS
  Letters,      \* the bytes make_command accepts as a first byte
  Others,       \* other bytes
  FrameLen,     \* 7
  FifoDepth     \* capacity of the UART core's receive FIFO

ASSUME UartAssumption ==
  /\ FrameLen \in Nat \ {0} /\ FifoDepth \in Nat /\ FifoDepth >= FrameLen
  /\ Letters \cap Others = {}

Bytes == Letters \cup Others

\* The instructions a sender writes: a letter, then any payload.
Frames == {f \in [1 .. FrameLen -> Bytes] : f[1] \in Letters}

VARIABLES
  noisy,        \* bytes may be lost on the line, and the sender may outrun the
                \* FIFO; or neither, for the whole of a behaviour
  wire,         \* bytes on the line, oldest first
  fifo,         \* the receive FIFO
  pc,           \* "idle", "wait" (while used < 7), "read" (the byte loop)
  buf,          \* instr[0 .. counter-1]
  command,      \* the instruction of the last call of make_command
  dry,          \* history: a byte was read from the empty FIFO
  damaged       \* history: bytes were lost or made up since the link was
                \* last at rest

vars == <<noisy, wire, fifo, pc, buf, command, dry, damaged>>

Init ==
  /\ noisy \in BOOLEAN
  /\ wire = << >> /\ fifo = << >>
  /\ pc = "idle" /\ buf = << >> /\ command = << >>
  /\ dry = FALSE /\ damaged = FALSE

---------------------------------------------------------------------------
(* The line and the core *)

InFlight == Len(wire) + Len(fifo)

\* The middleman writes an instruction: only if it is sure to fit the FIFO, or
\* whatever the FIFO holds (the line holds one frame).
Send(f) ==
  /\ IF noisy THEN Len(wire) = 0 ELSE InFlight + FrameLen <= FifoDepth
  /\ wire' = wire \o f
  /\ UNCHANGED <<noisy, fifo, pc, buf, command, dry, damaged>>

\* The core stores a byte, or drops it if the FIFO is full.
Arrive ==
  /\ wire # << >>
  /\ fifo' = IF Len(fifo) < FifoDepth THEN Append(fifo, Head(wire)) ELSE fifo
  /\ wire' = Tail(wire)
  /\ damaged' = (damaged \/ Len(fifo) = FifoDepth)
  /\ UNCHANGED <<noisy, pc, buf, command, dry>>

\* Noise on the line.
LoseByte ==
  /\ noisy /\ wire # << >>
  /\ wire' = Tail(wire)
  /\ damaged' = TRUE
  /\ UNCHANGED <<noisy, fifo, pc, buf, command, dry>>

---------------------------------------------------------------------------
(* make_command *)

\* Seeded bug: the byte loop starts as soon as one byte is there.
EnoughAtOne == Len(fifo) >= 1

Enough == Len(fifo) >= FrameLen

\* main() calls make_command only when the FIFO is not empty.
Call ==
  /\ pc = "idle" /\ fifo # << >>
  /\ pc' = "wait"
  /\ buf' = << >>
  /\ UNCHANGED <<noisy, wire, fifo, command, dry, damaged>>

WaitDone ==
  /\ pc = "wait" /\ Enough
  /\ pc' = "read"
  /\ UNCHANGED <<noisy, wire, fifo, buf, command, dry, damaged>>

\* alt_up_rs232_read_data: the head of the FIFO, or anything if it is empty
\* (the RVALID result is ignored).
ReadData(b) ==
  /\ pc = "read" /\ Len(buf) < FrameLen
  /\ b \in (IF fifo = << >> THEN Bytes ELSE {Head(fifo)})
  /\ dry' = (dry \/ fifo = << >>)
  /\ damaged' = (damaged \/ fifo = << >>)
  /\ fifo' = IF fifo = << >> THEN fifo ELSE Tail(fifo)
  /\ UNCHANGED <<noisy, wire, pc, command>>

\* Seeded bug: the search for a letter swallows the letter it finds.
KeptIfNotFirst(b) == buf # << >>

Kept(b) == buf # << >> \/ b \in Letters

\* At counter 0 bytes are skipped until a command letter; then every byte is
\* stored.
ReadByte(b) ==
  /\ ReadData(b)
  /\ buf' = IF Kept(b) THEN Append(buf, b) ELSE buf

Return ==
  /\ pc = "read" /\ Len(buf) = FrameLen
  /\ pc' = "idle"
  /\ command' = buf
  /\ buf' = << >>
  /\ damaged' = (damaged /\ InFlight > 0)
  /\ UNCHANGED <<noisy, wire, fifo, dry>>

Main == Call \/ WaitDone \/ Return \/ \E b \in Bytes : ReadByte(b)

Next == Main \/ Arrive \/ LoseByte \/ \E f \in Frames : Send(f)

Spec == Init /\ [][Next]_vars

---------------------------------------------------------------------------
(* Properties *)

TypeOK ==
  /\ noisy \in BOOLEAN
  /\ wire \in Seq(Bytes) /\ fifo \in Seq(Bytes) /\ buf \in Seq(Bytes)
  /\ Len(fifo) <= FifoDepth /\ Len(buf) <= FrameLen
  /\ pc \in {"idle", "wait", "read"}
  /\ command \in Frames \cup {<< >>}
  /\ dry \in BOOLEAN /\ damaged \in BOOLEAN

\* All bytes from make_command's buffer back to the sender.
Stream == buf \o fifo \o wire

\* The k-th instruction of a stream cut every FrameLen bytes.
Cut(s, k) == SubSeq(s, (k - 1) * FrameLen + 1, k * FrameLen)

\* The stream is a whole number of instructions, each starting with its letter,
\* so that counting cuts it right even when payload bytes look like letters.
Aligned ==
  /\ Len(Stream) % FrameLen = 0
  /\ \A k \in 1 .. Len(Stream) \div FrameLen : Cut(Stream, k) \in Frames

\* Without loss no byte is ever read from an empty FIFO (rs232.c:32, "return a string when
\* a command is completed").
NeverDry == ~noisy => ~dry

\* A loss-free link implements the channel: pending instructions are the
\* stream cut every FrameLen bytes.  A noisy one is mapped to a channel at rest.
Channel == INSTANCE CommandChannel WITH
  pending <- IF noisy THEN << >>
             ELSE [k \in 1 .. Len(Stream) \div FrameLen |-> Cut(Stream, k)],
  command <- IF noisy THEN << >> ELSE command

ImplementsChannel == Channel!Spec

\* main() is not in the wait for the seventh byte (rs232.c:39), unless bytes may
\* be lost.
Serves == noisy \/ pc = "idle"

\* Only a lost byte misaligns the stream, and once the damaged link has been
\* at rest (nothing buffered, nothing in flight) it cuts correctly again
\* (rs232.c:41-51).
AlignedUnlessDamaged == ~damaged => Aligned

\* What make_command holds and returns, at every moment.
FramesHold == TypeOK /\ NeverDry /\ AlignedUnlessDamaged

===========================================================================
