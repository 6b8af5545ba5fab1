------------------------------ MODULE AvConfig ------------------------------
(***************************************************************************)
(* The audio and video configuration driver: calls that check which board  *)
(* they run on, select the chip that is meant, and hand an address and a   *)
(* word to a controller that sends them on to the chip by itself.          *)
(***************************************************************************)
EXTENDS Integers, FiniteSets

CONSTANTS
  CfgAddrs, CfgWords,          \* registers of the chips, and what is written
  MaxConfigs                     \* bound on the calls

AUDIO_DEVICE == 0
FIRST_VIDEO_DEVICE == 1
SECOND_VIDEO_DEVICE == 2
Ports == AUDIO_DEVICE .. SECOND_VIDEO_DEVICE

\* CONFIG_DEVICE_TYPE, by name.
OnBoard == {"AUDIO_ONLY", "DE2", "DE2_70", "DE2_115"}
Daughtercards == {"DC2", "D5M", "LTM"}
ConfigTypes == OnBoard \cup Daughtercards \cup {"UNKNOWN"}

\* The chips that hang on each: a daughtercard's is the only one there is.
ChipsOn(type) ==
  CASE type = "AUDIO_ONLY"          -> {AUDIO_DEVICE}
    [] type \in {"DE2", "DE2_115"}  -> {AUDIO_DEVICE, FIRST_VIDEO_DEVICE}
    [] type = "DE2_70"              -> Ports
    [] OTHER                        -> {}

VARIABLES
  board,           \* the type the core reports in its status register
  cfgType,         \* dev->type
  target,          \* CONTROL: the chip selected
  rie,             \* CONTROL: the read interrupt enabled
  cfgAddr,         \* ADDRESS
  transfer,        \* what the controller is sending, or NoTransfer
  cfgCall,         \* the call under way
  chosen,          \* history: the chip of the last call that was not refused
  astray,          \* history: a chip got something no call meant for it
  cfgCalls
cfgVars == <<board, cfgType, target, rie, cfgAddr, transfer, cfgCall, chosen, astray, cfgCalls>>

NoTransfer == [port |-> -1, addr |-> 0, word |-> 0]
NotCalled == [does |-> "none", port |-> 0, addr |-> 0, word |-> 0, raw |-> FALSE]

CfgInitOf(types) ==
  /\ board \in types /\ cfgType = "closed"
  /\ target = AUDIO_DEVICE /\ rie = FALSE /\ cfgAddr = 0
  /\ transfer = NoTransfer /\ cfgCall = NotCalled
  /\ chosen = AUDIO_DEVICE /\ astray = FALSE /\ cfgCalls = 0
CfgInit == CfgInitOf(ConfigTypes)
CfgIdle == CfgInitOf({"UNKNOWN"})

\* alt_up_av_config_open_dev
OpenConfig ==
  /\ cfgType = "closed" /\ cfgType' = board
  /\ UNCHANGED <<board, target, rie, cfgAddr, transfer, cfgCall, chosen, astray, cfgCalls>>

---------------------------------------------------------------------------
(* What the typed calls accept *)

\* alt_up_av_config_write_audio_cfg_register
AudioAllowed(type) == type \in OnBoard

\* alt_up_av_config_read_video_cfg_register and
\* alt_up_av_config_write_video_cfg_register
VideoAllowed(type, port) ==
  \/ type \in {"DE2", "DE2_115"} /\ port = FIRST_VIDEO_DEVICE
  \/ type = "DE2_70" /\ port \in {FIRST_VIDEO_DEVICE, SECOND_VIDEO_DEVICE}

Selected(allowed, port) == IF allowed THEN port ELSE target

\* A call that selects a chip, or is refused and writes no register.
SelectingCall(does, allowed, port, a, w) ==
  /\ target' = Selected(allowed, port)
  /\ chosen' = IF allowed THEN port ELSE chosen
  /\ cfgCall' = IF allowed
                THEN [does |-> does, port |-> port, addr |-> a, word |-> w, raw |-> FALSE]
                ELSE cfgCall

\* A call that leaves the selection as it is: the daughtercards', and
\* alt_up_av_config_write_data and alt_up_av_config_read_data themselves.
PlainCall(does, allowed, raw, a, w) ==
  /\ UNCHANGED <<target, chosen>>
  /\ cfgCall' = IF allowed
                THEN [does |-> does, port |-> target, addr |-> a, word |-> w, raw |-> raw]
                ELSE cfgCall

WriteAudio(a, w) == SelectingCall("write", AudioAllowed(cfgType), AUDIO_DEVICE, a, w)
WriteVideo(port, a, w) == SelectingCall("write", VideoAllowed(cfgType, port), port, a, w)
ReadVideo(port, a) == SelectingCall("read", VideoAllowed(cfgType, port), port, a, 0)
WriteCard(card, a, w) == PlainCall("write", cfgType = card, FALSE, a, w)
ReadCard(card, a) == PlainCall("read", cfgType = card, FALSE, a, 0)
RawCall(does, a, w) == PlainCall(does, TRUE, TRUE, a, w)

CallConfig ==
  /\ cfgType # "closed" /\ cfgCall.does = "none"
  /\ cfgCalls < MaxConfigs /\ cfgCalls' = cfgCalls + 1
  /\ \E a \in CfgAddrs, w \in CfgWords :
       \/ WriteAudio(a, w)
       \/ \E port \in Ports : WriteVideo(port, a, w) \/ ReadVideo(port, a)
       \/ \E card \in Daughtercards : WriteCard(card, a, w) \/ ReadCard(card, a)
       \/ \E does \in {"write", "read"} : RawCall(does, a, w)
  /\ UNCHANGED <<board, cfgType, rie, cfgAddr, transfer, astray>>

---------------------------------------------------------------------------
(* The registers *)

SetAddress ==
  /\ cfgCall.does \in {"write", "read"}
  /\ cfgAddr' = cfgCall.addr
  /\ cfgCall' = [cfgCall EXCEPT !.does = IF @ = "write" THEN "data" ELSE "value"]
  /\ UNCHANGED <<board, cfgType, target, rie, transfer, chosen, astray, cfgCalls>>

\* A transfer of a typed call must be for a chip of this board, and for the one
\* and the register it named.
Meant == cfgCall.raw \/ cfgType \in Daughtercards
           \/ (target \in ChipsOn(board) /\ target = cfgCall.port /\ cfgAddr = cfgCall.addr)

\* The call does not wait for the controller: a word given to it while it sends
\* another is dropped, or takes the other's place.
WriteCfgData ==
  /\ cfgCall.does = "data"
  /\ LET new == [port |-> target, addr |-> cfgAddr, word |-> cfgCall.word]
     IN transfer' \in {new} \cup ({transfer} \ {NoTransfer})
  /\ astray' = (astray \/ ~Meant)
  /\ cfgCall' = NotCalled
  /\ UNCHANGED <<board, cfgType, target, rie, cfgAddr, chosen, cfgCalls>>

\* The value is read at once; what the acknowledgement says comes from two more
\* reads, of which the first must find the controller ready.
ReadCfgData ==
  /\ cfgCall.does = "value"
  /\ cfgCall' = [cfgCall EXCEPT !.does = "acknowledge"]
  /\ UNCHANGED <<board, cfgType, target, rie, cfgAddr, transfer, chosen, astray, cfgCalls>>
ReadAcknowledge ==
  /\ cfgCall.does = "acknowledge"
  /\ cfgCall' = NotCalled
  /\ UNCHANGED <<board, cfgType, target, rie, cfgAddr, transfer, chosen, astray, cfgCalls>>

Sent ==
  /\ transfer # NoTransfer /\ transfer' = NoTransfer
  /\ UNCHANGED <<board, cfgType, target, rie, cfgAddr, cfgCall, chosen, astray, cfgCalls>>

\* Reset and the interrupt enable are one byte of CONTROL: a reset leaves the
\* interrupt disabled.  The chip's number is in another byte.
SetControl(on) ==
  /\ cfgType # "closed" /\ cfgCall.does = "none"
  /\ rie' = on
  /\ UNCHANGED <<board, cfgType, target, cfgAddr, transfer, cfgCall, chosen, astray, cfgCalls>>
ResetConfig == SetControl(FALSE)
EnableConfig == SetControl(TRUE)
DisableConfig == SetControl(FALSE)

CfgNext ==
  \/ OpenConfig \/ CallConfig \/ SetAddress \/ WriteCfgData \/ ReadCfgData \/ ReadAcknowledge
  \/ Sent \/ ResetConfig \/ EnableConfig \/ DisableConfig

---------------------------------------------------------------------------
(* Properties *)

\* A typed call reaches the chip and the register it names, on a board that has
\* that chip: the DE2 boards have one video chip, the DE2-70 two
\* (altera_up_avalon_audio_and_video_config.c:125-226).
ReachesItsChip == ~astray

\* A refused call leaves the selection as the last accepted one made it: an
\* untyped write that follows goes there (lines 60-69, 125-136).
SelectionKept == target = chosen
=============================================================================
