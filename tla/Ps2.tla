-------------------------------- MODULE Ps2 --------------------------------
(***************************************************************************)
(* The PS/2 driver and its keyboard decoder: the reset that finds out what *)
(* is attached, the commands that wait for an acknowledgement, and scan    *)
(* codes of one to three bytes read while keys are pressed.                *)
(*                                                                         *)
(* A byte is its name, a key's own byte the key.  The driver's loops read  *)
(* a byte of the receive FIFO per step.  A wait times out, if it does,     *)
(* while the FIFO is empty.                                                *)
(***************************************************************************)
EXTENDS Integers, SequencesExt

CONSTANTS
  Keys,            \* the keys, by their byte
  Ps2Depth,        \* bound on the bytes on the way
  MaxKeys,         \* bound on the times a key is pressed or released
  MaxRates         \* bound on the commands sent

ACK == "FA"
PASSED == "AA"
MOUSE_ID == "00"
PrefixBytes == {"E0", "F0"}

\* A key's own byte is no answer and no prefix.
ASSUME Ps2Assumption == Keys \cap ({ACK, PASSED, MOUSE_ID} \cup PrefixBytes) = {}

\* What a key does, and the bytes that tell it.
KeyEvents == [key : Keys, long : BOOLEAN, break : BOOLEAN]
Scancode(e) ==
  (IF e.long THEN <<"E0">> ELSE << >>) \o (IF e.break THEN <<"F0">> ELSE << >>) \o <<e.key>>

VARIABLES
  attached,        \* "keyboard", "mouse" or "none"
  device_type,
  psWire, psFifo,  \* bytes the device has sent, bytes the core holds
  psPc,            \* "start", "ack", "bat", "id", "idle", "decode", "rate", "rate2",
                   \* "reset", "result", "mreset", "mresult", "mid", "stuck"
  state,           \* of the decoder, with the longness it knows
  typed,           \* history: what the keys did that was not decoded
  ghost,           \* history: something was decoded that no key did
  split,           \* history: a scan code was read in two parts
  late,            \* history: a wait timed out with the answer on its way
  psKeys, psRates
ps2Vars == <<attached, device_type, psWire, psFifo, psPc, state, typed, ghost, split, late,
             psKeys, psRates>>

Ps2InitOf(devices) ==
  /\ attached \in devices /\ device_type = "unknown"
  /\ psWire = << >> /\ psFifo = << >> /\ psPc = "start" /\ state = "INIT"
  /\ typed = << >> /\ ghost = FALSE /\ split = FALSE /\ late = FALSE
  /\ psKeys = 0 /\ psRates = 0
Ps2Init == Ps2InitOf({"keyboard", "mouse", "none"})
Ps2Idle == Ps2InitOf({"none"})

---------------------------------------------------------------------------
(* The device *)

KeyMoves(e) ==
  /\ attached = "keyboard" /\ psKeys < MaxKeys /\ psKeys' = psKeys + 1
  /\ Len(psWire) + Len(psFifo) + 3 <= Ps2Depth
  /\ psWire' = psWire \o Scancode(e)
  /\ typed' = Append(typed, e)
  /\ UNCHANGED <<attached, device_type, psFifo, psPc, state, ghost, split, late, psRates>>

Ps2Arrive ==
  /\ psWire # << >>
  /\ psFifo' = Append(psFifo, Head(psWire)) /\ psWire' = Tail(psWire)
  /\ UNCHANGED <<attached, device_type, psPc, state, typed, ghost, split, late, psKeys, psRates>>

---------------------------------------------------------------------------
(* alt_up_ps2_init *)

\* read_data_valid and read_data_byte, of a read of the data register.
Valid == psFifo # << >>
ByteRead == Head(psFifo)

\* read_CE_bit: the command could not be sent.
CommandError == attached = "none"

\* alt_up_ps2_write_data_byte: with nothing attached it is an error.
SendReset ==
  /\ psPc = "start"
  /\ IF CommandError THEN psPc' = "idle" /\ psWire' = psWire
     ELSE /\ psPc' = "ack"
          /\ psWire' = psWire \o <<ACK, PASSED>> \o
                       (IF attached = "mouse" THEN <<MOUSE_ID>> ELSE << >>)
  /\ UNCHANGED <<attached, device_type, psFifo, state, typed, ghost, split, late, psKeys, psRates>>

\* alt_up_ps2_read_data_byte_timeout, and what the caller does with the byte.
ReadByteIn(places) ==
  /\ psPc \in places /\ Valid
  /\ psFifo' = Tail(psFifo)

\* Where a command goes on after its acknowledgement.
AfterAck == [ack |-> "bat", rate |-> "rate2", rate2 |-> "idle", reset |-> "result",
             mreset |-> "mresult", mode |-> "idle"]

\* alt_up_ps2_wait_for_ack drops what is not the acknowledgement.  The second
\* byte of set_keyboard_rate is sent once the first is acknowledged.
WaitForAck ==
  /\ ReadByteIn(DOMAIN AfterAck)
  /\ psPc' = IF ByteRead # ACK THEN psPc ELSE AfterAck[psPc]
  /\ psWire' = IF psPc' # psPc /\ psPc = "rate" THEN Append(psWire, ACK) ELSE psWire
  /\ UNCHANGED <<attached, device_type, state, typed, ghost, split, late, psKeys, psRates>>

\* A byte that is not the expected one is lost, and may be part of a scan code.
ReadBat ==
  /\ ReadByteIn({"bat"})
  /\ psPc' = IF ByteRead = PASSED THEN "id" ELSE "idle"
  /\ split' = (split \/ ByteRead # PASSED)
  /\ UNCHANGED <<attached, device_type, psWire, state, typed, ghost, late, psKeys, psRates>>

IsMouse(byte) == byte = MOUSE_ID

\* A mouse is enabled; its acknowledgement stays in the FIFO.
ReadId ==
  /\ ReadByteIn({"id"})
  /\ psPc' = "idle"
  /\ device_type' = IF IsMouse(ByteRead) THEN "mouse" ELSE device_type
  /\ psWire' = IF IsMouse(ByteRead) THEN Append(psWire, ACK) ELSE psWire
  /\ split' = (split \/ ByteRead # MOUSE_ID)
  /\ UNCHANGED <<attached, state, typed, ghost, late, psKeys, psRates>>

\* No third byte means a keyboard.
TimeOut ==
  /\ psPc \in DOMAIN AfterAck \cup {"bat", "id"} /\ psFifo = << >>
  /\ psPc' = "idle"
  /\ device_type' = IF psPc = "id" THEN "keyboard" ELSE device_type
  /\ late' = (late \/ psWire # << >>)
  /\ UNCHANGED <<attached, psWire, psFifo, state, typed, ghost, split, psKeys, psRates>>

---------------------------------------------------------------------------
(* The keyboard *)

\* set_keyboard_rate and reset_keyboard send their command; the keyboard
\* answers a reset with two bytes.
Command(type, place, answer) ==
  /\ psPc = "idle" /\ device_type = type
  /\ psRates < MaxRates /\ psRates' = psRates + 1
  /\ Len(psWire) + Len(psFifo) + 2 <= Ps2Depth
  /\ psPc' = place /\ psWire' = psWire \o answer
  /\ UNCHANGED <<attached, device_type, psFifo, state, typed, ghost, split, late, psKeys>>
SetRate == Command("keyboard", "rate", <<ACK>>)
ResetKeyboard == Command("keyboard", "reset", <<ACK, PASSED>>)

\* reset_keyboard reads the result without waiting for it: a result on its way
\* stays to be read as a key.
ReadResult ==
  /\ psPc = "result" /\ psPc' = "idle"
  /\ psFifo' = IF psFifo = << >> THEN psFifo ELSE Tail(psFifo)
  /\ late' = (late \/ ~Valid \/ ByteRead # PASSED)
  /\ UNCHANGED <<attached, device_type, psWire, state, typed, ghost, split, psKeys, psRates>>

\* alt_up_ps2_mouse_reset and alt_up_ps2_mouse_set_mode, which do nothing unless
\* a mouse was found.
ResetMouse == Command("mouse", "mreset", <<ACK, PASSED, MOUSE_ID>>)
SetMouseMode == Command("mouse", "mode", <<ACK>>)

\* The reset's two answers are read without waiting, the second only if the
\* first was there: what comes later stays in the FIFO.
ReadMouseResult ==
  /\ psPc \in {"mresult", "mid"}
  /\ psPc' = IF psPc = "mresult" /\ Valid /\ ByteRead = PASSED THEN "mid" ELSE "idle"
  /\ psFifo' = IF Valid THEN Tail(psFifo) ELSE psFifo
  /\ late' = (late \/ ~Valid)
  /\ UNCHANGED <<attached, device_type, psWire, state, typed, ghost, split, psKeys, psRates>>

\* alt_up_ps2_read_fd of a byte or more: a semicolon makes its loop empty, and it
\* never ends.
ReadPs2Fd ==
  /\ psPc = "idle" /\ psPc' = "stuck"
  /\ UNCHANGED <<attached, device_type, psWire, psFifo, state, typed, ghost, split, late, psKeys,
                 psRates>>

DecodeScancode ==
  /\ psPc = "idle" /\ device_type = "keyboard"
  /\ psPc' = "decode" /\ state' = "INIT"
  /\ UNCHANGED <<attached, device_type, psWire, psFifo, typed, ghost, split, late, psKeys, psRates>>

\* Seeded bug: the code after a long prefix is taken for a short one.
NextStateShort(st, byte) ==
  CASE st = "INIT" /\ byte = "F0"                                -> "BREAK_CODE"
    [] st = "INIT" /\ byte # "F0"                                -> "INIT"
    [] st = "LONG_CODE" /\ byte \in PrefixBytes                     -> "LONG_BREAK_CODE"
    [] OTHER                                                     -> st

\* get_next_state, but for the byte that ends a code.
NextState(st, byte) ==
  CASE st = "INIT" /\ byte = "E0"            -> "LONG_CODE"
    [] st = "INIT" /\ byte = "F0"            -> "BREAK_CODE"
    [] st = "LONG_CODE" /\ byte \in PrefixBytes -> "LONG_BREAK_CODE"
    [] OTHER                                 -> st

Decoded(st, byte) ==
  [key |-> byte, long |-> st \in {"LONG_CODE", "LONG_BREAK_CODE"},
   break |-> st \in {"BREAK_CODE", "LONG_BREAK_CODE"}]

\* The first of the keys' doings that fits is the one meant.
DecodeByte ==
  /\ ReadByteIn({"decode"})
  /\ LET byte == ByteRead
         fit == {k \in DOMAIN typed : typed[k] = Decoded(state, byte)}
     IN IF byte \in PrefixBytes
        THEN state' = NextState(state, byte) /\ UNCHANGED <<psPc, typed, ghost>>
        ELSE /\ psPc' = "idle" /\ state' = "INIT"
             /\ ghost' = (ghost \/ fit = {})
             /\ typed' = IF fit = {} THEN typed ELSE SubSeq(typed, Min(fit) + 1, Len(typed))
  /\ UNCHANGED <<attached, device_type, psWire, split, late, psKeys, psRates>>

\* decode_scancode gives up when no byte is there, and begins anew when called
\* again.
DecodeRunsDry ==
  /\ psPc = "decode" /\ psFifo = << >>
  /\ psPc' = "idle" /\ state' = "INIT"
  /\ split' = (split \/ state # "INIT")
  /\ UNCHANGED <<attached, device_type, psWire, psFifo, typed, ghost, late, psKeys, psRates>>

\* alt_up_ps2_clear_fifo, at once.
ClearFifo ==
  /\ psPc = "idle" /\ psFifo # << >>
  /\ psFifo' = << >>
  /\ split' = (split \/ psWire # << >>)
  /\ UNCHANGED <<attached, device_type, psWire, psPc, state, typed, ghost, late, psKeys, psRates>>

Ps2Driver ==
  \/ SendReset \/ WaitForAck \/ ReadBat \/ ReadId \/ TimeOut
  \/ SetRate \/ ResetKeyboard \/ ReadResult \/ ResetMouse \/ SetMouseMode \/ ReadMouseResult
  \/ ReadPs2Fd \/ DecodeScancode \/ DecodeByte \/ DecodeRunsDry \/ ClearFifo

Ps2Next == Ps2Driver \/ Ps2Arrive \/ \E e \in KeyEvents : KeyMoves(e)

---------------------------------------------------------------------------
(* Properties *)

\* The driver finds the device that is attached, or none, unless an answer
\* comes later than the wait for it: a slow mouse is taken for a keyboard
\* (altera_up_avalon_ps2.c:84-111).
TypeFound == ~late => device_type \in {"unknown", attached}

\* What is decoded is what the keys did, in that order, with nothing made up,
\* as long as no scan code is read in two parts: decode_scancode forgets the
\* prefix it has read when the next byte is not there yet, and the release of a
\* key becomes a press; commands and clear_fifo only lose whole codes
\* (altera_up_ps2_keyboard.c:150-171).
NoGhostKeys == ~split /\ ~late => ~ghost

---------------------------------------------------------------------------
(* The tables that name keys: what decode_scancode says of a scan code, and  *)
(* translate_make_code of what it said (altera_up_ps2_keyboard.c).  A key is *)
(* its place in the tables, which are four arrays of the same length; a      *)
(* caller keeps one string for the names it asks for.                        *)

CONSTANT MaxScans  \* bound on the codes that come

\* single_byte_make_code and multi_byte_make_code, 0 where a key has none.
single_byte_make_code == <<
  28, 50, 33, 35, 36, 43, 52, 51, 67, 59, 66, 75, 58, 49, 68, 77, 21, 45, 27, 44, 60, 42, 29, 34,
  53, 26, 69, 22, 30, 38, 37, 46, 54, 61, 62, 70, 14, 78, 85, 93, 102, 41, 13, 88, 18, 20, 0, 17,
  89, 0, 0, 0, 0, 90, 118, 5, 6, 4, 12, 3, 11, 131, 10, 1, 9, 120, 7, 126, 84, 0, 0, 0, 0, 0, 0,
  0, 0, 0, 0, 119, 0, 124, 123, 121, 0, 113, 112, 105, 114, 122, 107, 115, 116, 108, 117, 125,
  91, 76, 82, 65, 73, 74>>
multi_byte_make_code == [k \in 1 .. 102 |->
  CASE k = 47 -> 31  [] k = 50 -> 20  [] k = 51 -> 39  [] k = 52 -> 17  [] k = 53 -> 47
    [] k = 70 -> 112 [] k = 71 -> 108 [] k = 72 -> 125 [] k = 73 -> 113 [] k = 74 -> 105
    [] k = 75 -> 122 [] k = 76 -> 117 [] k = 77 -> 107 [] k = 78 -> 114 [] k = 79 -> 116
    [] k = 81 -> 74  [] k = 85 -> 90  [] OTHER -> 0]
SCAN_CODE_NUM == Len(single_byte_make_code)

\* The keys that ascii_codes has a character for, places counted from 0:
\* letters, digits and marks, and some that do something.
ascii_codes ==
  (0 .. 38) \cup {40, 42, 53, 54, 68, 72} \cup (80 .. 101)

\* A code that no key of the table has: one on other keyboards, and the one a
\* keyboard sends when it loses count.
FOREIGN == 97
OVERRUN == 0

VARIABLES
  scan,            \* the last key's doing: its place, or a code without one
  mode, ascii,     \* what decode_scancode says
  str,             \* the caller's string: the place of the key named, or
                   \* SCAN_CODE_NUM for what lies behind the table
  scans
keyVars == <<scan, mode, ascii, str, scans>>

NoScan == [key |-> -1, code |-> OVERRUN, long |-> FALSE, break |-> FALSE]
KeyInit == scan = NoScan /\ mode = "INVALID" /\ ascii = -1 /\ str = -1 /\ scans = 0

---------------------------------------------------------------------------
(* The driver *)

\* The first place with the code, from 0.
PlaceIn(table, code) ==
  LET places == {k \in 1 .. SCAN_CODE_NUM : table[k] = code}
  IN IF places = {} THEN SCAN_CODE_NUM ELSE Min(places) - 1

\* In get_next_state, of the byte that ends a short code.
HasCharacter(idx) == (idx < 40 \/ idx = 68 \/ idx > 79) /\ idx # SCAN_CODE_NUM

\* What decode_scancode says of a whole code.
Decode(s) ==
  LET idx == PlaceIn(single_byte_make_code, s.code)
      character == ~s.long /\ ~s.break /\ HasCharacter(idx)
  IN /\ mode' = CASE s.break /\ s.long -> "LONG_BREAK"
                  [] s.break           -> "BREAK"
                  [] s.long            -> "LONG_BINARY"
                  [] OTHER             -> IF character THEN "ASCII" ELSE "BINARY"
     /\ ascii' = IF character THEN idx ELSE -1

TableOf(m) == IF m = "LONG_BINARY" THEN multi_byte_make_code ELSE single_byte_make_code

\* translate_make_code: a break code leaves the caller's string alone.
Translate(m, code) ==
  str' = IF m \in {"ASCII", "BINARY", "LONG_BINARY"} THEN PlaceIn(TableOf(m), code) ELSE str

Scanned(s) ==
  /\ scans < MaxScans /\ scans' = scans + 1
  /\ scan' = s /\ Decode(s) /\ Translate(mode', s.code)

---------------------------------------------------------------------------
(* The keyboard *)

Key(k, break) ==
  LET short == single_byte_make_code[k + 1]
      long  == multi_byte_make_code[k + 1]
  IN Scanned([key |-> k, code |-> IF short # 0 THEN short ELSE long, long |-> short = 0,
              break |-> break])

KeyNext ==
  \/ \E k \in 0 .. SCAN_CODE_NUM - 1, break \in BOOLEAN : Key(k, break)
  \/ \E code \in {FOREIGN, OVERRUN}, long \in BOOLEAN :
       Scanned([key |-> -1, code |-> code, long |-> long, break |-> FALSE])

---------------------------------------------------------------------------
(* Properties *)

\* A key that is pressed is given its own name, although a long code may end in
\* the byte of a short one (altera_up_ps2_keyboard.c:30-51, 188-209).
NamedAsPressed == scan.key # -1 /\ ~scan.break => str = scan.key

\* A code said to stand for a character comes with that of the key pressed:
\* "Make code that corresponds to an ASCII character"
\* (altera_up_ps2_keyboard.h:16), but for the backslash, whose character is 0
\* (altera_up_ps2_keyboard.c:12, 96-107).
CharacterOfKey ==
  mode = "ASCII" /\ scan.key # -1 => ascii = scan.key /\ ascii \in ascii_codes \cup {39}
===========================================================================
