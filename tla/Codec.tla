------------------------------- MODULE Codec -------------------------------
(***************************************************************************)
(* The seven bytes of an instruction, as the phone writes and reads them   *)
(* (Instruction.java) and as the board reads and writes them               *)
(* (lib_instr.c).                                                          *)
(*                                                                         *)
(* Bytes are numbers 0..255, offsets 32-bit integers, colours 16-bit ones; *)
(* cmd is the letter itself.  Java's bytes are signed: SByte converts.     *)
(***************************************************************************)
EXTENDS Integers

CONSTANTS
  Cmds,          \* command letters
  ImageSize,          \* STD_W * STD_H
  Offsets,       \* the pixel fields instructions have
  Shades         \* the colour fields instructions have

None == "NONE"

B(n, w) == (n \div w) % 256         \* the byte of n with weight w
Low == 256
Mid == Low * Low
Hi == Low * Mid

Int32 == -127 * Hi - Hi .. 127 * Hi + (Hi - 1)
Colors16 == 0 .. 65535

ASSUME CodecAssumption ==
  ImageSize \in Nat /\ None \notin Cmds /\ Offsets \subseteq Int32 /\ Shades \subseteq Colors16

SByte(b) == IF b < 128 THEN b ELSE b - 256
UShort(n) == n % 65536

---------------------------------------------------------------------------
(* The phone: Instruction.java *)

\* toTransmit: big-endian pixel, big-endian colour.
ToTransmit(i) == << i.cmd, B(i.pixel, Hi), B(i.pixel, Mid), B(i.pixel, Low), B(i.pixel, 1),
                    B(i.color, Low), B(i.color, 1) >>

\* recieveInstruction: big-endian pixel; the colour adds the signed byte 5 to
\* byte 6 shifted up, and is cut to a short.
RecieveInstruction(s) ==
  [cmd |-> s[1],
   pixel |-> s[5] + Low * s[4] + Mid * s[3] + Hi * SByte(s[2]),
   color |-> UShort(SByte(s[6]) + Low * s[7])]

---------------------------------------------------------------------------
(* The board: lib_instr.c *)

\* The offset test of instr_make, lib_instr.c:20.  The field is unsigned: an
\* offset with its top bit set, here the negative number of the same bits,
\* compares above W*H.
OutOfRange(pixel) == pixel > ImageSize \/ pixel < 0

\* Seeded bug: the offset is read little-endian.
PixelOfSwapped(s) == s[2] + Low * s[3] + Mid * s[4] + Hi * SByte(s[5])

PixelOf(s) == s[5] + Low * s[4] + Mid * s[3] + Hi * SByte(s[2])

\* instr_make: the phone's byte order; an impossible offset makes it NONE.
InstrMake(s) ==
  [cmd |-> IF OutOfRange(PixelOf(s)) THEN None ELSE s[1],
   pixel |-> PixelOf(s),
   color |-> s[7] + Low * s[6]]

\* instr_send: little-endian pixel, little-endian colour.
InstrSend(i) == << i.cmd, B(i.pixel, 1), B(i.pixel, Low), B(i.pixel, Mid), B(i.pixel, Hi),
                   B(i.color, 1), B(i.color, Low) >>

---------------------------------------------------------------------------
(* One instruction under way: written by one side and read by the other *)

VARIABLES dir,       \* "down" to the board, "up" to the phone
          instr,     \* the instruction the sender holds
          string,    \* the bytes on the line, << >> before they are written
          seen       \* what the receiver makes of them, << >> before

vars == <<dir, instr, string, seen>>

Instrs == [cmd : Cmds, pixel : Offsets, color : Shades]

Init ==
  /\ dir \in {"down", "up"}
  /\ instr \in Instrs /\ string = << >> /\ seen = << >>

Writes(bytes) == string = << >> /\ string' = bytes /\ UNCHANGED <<dir, instr, seen>>
Reads(i) ==
  /\ string # << >> /\ seen = << >>
  /\ seen' = i /\ UNCHANGED <<dir, instr, string>>

PhoneWrites == dir = "down" /\ Writes(ToTransmit(instr))
BoardReads == dir = "down" /\ Reads(InstrMake(string))
BoardWrites == dir = "up" /\ Writes(InstrSend(instr))
PhoneReads == dir = "up" /\ Reads(RecieveInstruction(string))

Next == PhoneWrites \/ BoardReads \/ BoardWrites \/ PhoneReads

Spec == Init /\ [][Next]_vars

---------------------------------------------------------------------------
(* Properties *)

\* The board reads the instruction the phone wrote, if its offset is between
\* 0 and W*H, and NONE otherwise (lib_instr.c:11-22, Instruction.java:74-94).
DownAgrees ==
  dir = "down" /\ seen # << >> =>
    /\ seen.pixel = instr.pixel /\ seen.color = instr.color
    /\ seen.cmd = IF instr.pixel \in 0 .. ImageSize THEN instr.cmd ELSE None

\* The phone reads the command the board wrote, the bytes of its offset in the
\* opposite order, and the colour one step of the high byte too low when the
\* low byte has its sign bit set (lib_instr.c:30-36, Instruction.java:99-105).
Borrow(c) == IF B(c, 1) < 128 THEN 0 ELSE Low
UpReversed ==
  dir = "up" /\ seen # << >> =>
    /\ seen.cmd = instr.cmd
    /\ \A k \in 0 .. 3 : LET w == <<1, Low, Mid, Hi>>
                         IN B(seen.pixel, w[k + 1]) = B(instr.pixel, w[4 - k])
    /\ seen.color = UShort(instr.color - Borrow(instr.color))
===========================================================================
