------------------------------- MODULE Audio -------------------------------
(***************************************************************************)
(* The audio driver between a program that records and plays and the codec *)
(* that samples and sounds both channels at once: the words of a call are  *)
(* moved one at a time, after a look at the space of the FIFO, while the   *)
(* codec goes on.                                                          *)
(*                                                                         *)
(* Bounds: a behaviour records or plays; the FIFOs have AudioDepth words,  *)
(* 128 in the core, and buffers AudioLengths; samples are numbered modulo  *)
(* AudioNumbers, more than a FIFO holds; a codec that has lost a sample    *)
(* takes none until the core is reset.                                     *)
(***************************************************************************)
EXTENDS Integers, SequencesExt

CONSTANTS
  AudioDepth,
  BufThreshold,    \* BUF_THRESHOLD
  AudioLengths,    \* the len of calls
  AudioNumbers

ASSUME AudioAssumption ==
  /\ AudioDepth \in Nat /\ BufThreshold \in 0 .. AudioDepth - 1
  /\ AudioLengths \subseteq Nat /\ AudioNumbers \in Nat /\ AudioNumbers > AudioDepth + 1

Channels == {"left", "right"}
AfterSample(n) == (n + 1) % AudioNumbers

VARIABLES
  audioUse,                    \* "read", "write" or "off"
  recordFifo, playFifo,        \* per channel
  audioControl,                \* bits set: RE, WE, CR, CW
  audioCall,                   \* the call under way: [op, channel, len, count, space,
                               \* threshold], space -1 until looked at
  sampled,                     \* the codec's next sample
  stored,                      \* history: sample after the last one stored in a buffer
  toPlay, sounded,             \* history: next word to play, next word to sound
  overrun,                     \* history: the codec has lost samples since the last reset
  lastRecord                   \* history: what the last record_l or record_r returned

audioVars == <<audioUse, recordFifo, playFifo, audioControl, audioCall, sampled, stored, toPlay,
               sounded, overrun, lastRecord>>

NoCall == [op |-> "none"]
Each(value) == [c \in Channels |-> value]
fifoVars == <<recordFifo, playFifo>>
wordVars == <<sampled, stored, toPlay, sounded, overrun>>

AudioInitOf(uses) ==
  /\ audioUse \in uses
  /\ recordFifo = Each(<< >>) /\ playFifo = Each(<< >>)
  /\ audioControl = {} /\ audioCall = NoCall
  /\ sampled = 0 /\ stored = Each(0) /\ toPlay = Each(0) /\ sounded = Each(0)
  /\ overrun = FALSE /\ lastRecord = [len |-> 0, count |-> 0]

AudioInit == AudioInitOf({"read", "write"})
AudioIdle == AudioInitOf({"off"})

---------------------------------------------------------------------------
(* The codec: a sample of each channel in, and a word of each out.  A FIFO *)
(* whose clear bit is on stays empty.                                      *)

CodecSamples ==
  /\ audioUse = "read" /\ ~overrun
  /\ recordFifo' = [c \in Channels |->
       IF "CR" \in audioControl \/ Len(recordFifo[c]) = AudioDepth THEN recordFifo[c]
       ELSE Append(recordFifo[c], sampled)]
  /\ overrun' = \E c \in Channels : Len(recordFifo[c]) = AudioDepth
  /\ sampled' = AfterSample(sampled)
  /\ UNCHANGED <<audioUse, playFifo, audioControl, audioCall, stored, toPlay, sounded, lastRecord>>

CodecSounds ==
  /\ audioUse = "write" /\ \E c \in Channels : playFifo[c] # << >>
  /\ playFifo' = [c \in Channels |-> IF playFifo[c] = << >> THEN << >> ELSE Tail(playFifo[c])]
  /\ sounded' = [c \in Channels |-> IF playFifo[c] = << >> THEN sounded[c]
                                    ELSE AfterSample(Head(playFifo[c]))]
  /\ UNCHANGED <<audioUse, recordFifo, audioControl, audioCall, sampled, stored, toPlay, overrun,
                 lastRecord>>

---------------------------------------------------------------------------
(* The calls                                                               *)

\* read_fifo_avail and write_fifo_space: of the space register.
Avail(op, c) ==
  IF op = "read" THEN Len(recordFifo[c]) ELSE AudioDepth - Len(playFifo[c])

\* record_l, record_r, play_l, play_r: more than BUF_THRESHOLD words, or none.
TooFew(words) == words <= BufThreshold

\* read_fifo and write_fifo (no threshold), or the four calls over them.
BeginMoving(op, c, len, threshold) ==
  /\ audioCall = NoCall /\ (threshold => ~TooFew(Avail(op, c)))
  /\ audioCall' = [op |-> op, channel |-> c, len |-> len, count |-> 0, space |-> -1,
                   threshold |-> threshold]
  /\ UNCHANGED <<audioUse, fifoVars, audioControl, wordVars, lastRecord>>

RecordNothing(c, len) ==
  /\ audioUse = "read" /\ audioCall = NoCall /\ TooFew(Avail("read", c))
  /\ lastRecord' = [len |-> len, count |-> 0]
  /\ UNCHANGED <<audioUse, fifoVars, audioControl, audioCall, wordVars>>

LookAtSpace ==
  /\ audioCall # NoCall /\ audioCall.space = -1 /\ audioCall.count < audioCall.len
  /\ audioCall' = [audioCall EXCEPT !.space = Avail(audioCall.op, audioCall.channel)]
  /\ UNCHANGED <<audioUse, fifoVars, audioControl, wordVars, lastRecord>>

GoesOn(space) == space > 0

\* IORD of the data register: the oldest word, or, if there is none, any.
ReadWord(c) ==
  /\ recordFifo' = [recordFifo EXCEPT ![c] = IF @ = << >> THEN @ ELSE Tail(@)]
  /\ stored' = [stored EXCEPT ![c] =
       AfterSample(IF recordFifo[c] = << >> THEN @ ELSE Head(recordFifo[c]))]
  /\ UNCHANGED <<playFifo, toPlay>>

\* IOWR of the data register: a full FIFO drops the word.
WriteWord(c) ==
  /\ playFifo' = [playFifo EXCEPT ![c] =
       IF Len(@) = AudioDepth \/ "CW" \in audioControl THEN @ ELSE Append(@, toPlay[c])]
  /\ toPlay' = [toPlay EXCEPT ![c] = AfterSample(@)]
  /\ UNCHANGED <<recordFifo, stored>>

MoveWord ==
  /\ audioCall # NoCall /\ GoesOn(audioCall.space)
  /\ IF audioCall.op = "read" THEN ReadWord(audioCall.channel) ELSE WriteWord(audioCall.channel)
  /\ audioCall' = [audioCall EXCEPT !.space = -1, !.count = @ + 1]
  /\ UNCHANGED <<audioUse, audioControl, sampled, sounded, overrun, lastRecord>>

\* The buffer is done, or the FIFO.
EndMoving ==
  /\ audioCall # NoCall
  /\ \/ audioCall.count >= audioCall.len
     \/ audioCall.space >= 0 /\ ~GoesOn(audioCall.space)
  /\ lastRecord' = IF audioCall.op = "read" /\ audioCall.threshold
                   THEN [len |-> audioCall.len, count |-> audioCall.count] ELSE lastRecord
  /\ audioCall' = NoCall
  /\ UNCHANGED <<audioUse, fifoVars, audioControl, wordVars>>

\* enable_ and disable_read_interrupt, enable_ and disable_write_interrupt.
SwitchInterrupt(bit, on) ==
  /\ audioCall = NoCall
  /\ audioControl' = IF on THEN audioControl \cup {bit} ELSE audioControl \ {bit}
  /\ UNCHANGED <<audioUse, fifoVars, audioCall, wordVars, lastRecord>>

AfterReset == audioControl \ {"CR", "CW"}

\* reset_audio_core: both clear bits on, then off; RE and WE stay.
ResetAudioCore ==
  /\ audioCall = NoCall
  /\ audioControl' = AfterReset
  /\ recordFifo' = Each(<< >>) /\ playFifo' = Each(<< >>)
  /\ stored' = Each(sampled) /\ sounded' = toPlay /\ overrun' = FALSE
  /\ UNCHANGED <<audioUse, audioCall, sampled, toPlay, lastRecord>>

AudioNext ==
  /\ audioUse # "off"
  /\ \/ CodecSamples \/ CodecSounds \/ LookAtSpace \/ MoveWord \/ EndMoving \/ ResetAudioCore
     \/ \E c \in Channels, len \in AudioLengths :
          \/ RecordNothing(c, len)
          \/ \E threshold \in BOOLEAN : BeginMoving(audioUse, c, len, threshold)
     \/ \E bit \in {"RE", "WE"}, on \in BOOLEAN : SwitchInterrupt(bit, on)

---------------------------------------------------------------------------
(* Properties *)

Samples(from, to) ==
  [k \in 1 .. (to - from) % AudioNumbers |-> (from + (k - 1)) % AudioNumbers]

\* Every sample of a channel is stored once and in order, or still in the FIFO,
\* unless the program let the FIFO overrun since the last reset
\* (altera_up_avalon_audio.c:194-221).
RecordedInOrder == ~overrun => \A c \in Channels : recordFifo[c] = Samples(stored[c], sampled)

\* Every word a call counts as written sounds once and in order
\* (altera_up_avalon_audio.c:223-249).
PlayedInOrder == \A c \in Channels : playFifo[c] = Samples(sounded[c], toPlay[c])

\* record_l and record_r return nothing, a full buffer, or more than the
\* threshold (altera_up_avalon_audio.c:133-153).
RecordsByThreshold ==
  \/ lastRecord.count = 0 \/ lastRecord.count = lastRecord.len
  \/ lastRecord.count > BufThreshold
===========================================================================
