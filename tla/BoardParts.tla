----------------------------- MODULE BoardParts -----------------------------
(***************************************************************************)
(* The parts of the board's software that run for themselves: a behaviour  *)
(* takes one of them and stays in it, with the others at rest.  They share *)
(* no state; the tasks that combine them are Board (pixel buffers, codec,  *)
(* RS232) and Files (bitmaps, SD card).                                    *)
(***************************************************************************)
EXTENDS Codec, Names, Mount, Draw, Panel, Ps2, Audio, Alarms, FdTable, Interrupts,
        Bitmap, Cache, Profile, Devices, LogPrintf, Startup, Exceptions, Serial,
        AvConfig

VARIABLE part

CodecIdle == dir = "none" /\ instr = << >> /\ string = << >> /\ seen = << >>

\* The parts of the HAL and the bitmap rest where they start.
Starts(p, idle, init) == IF part = p THEN init ELSE idle

PartsInit ==
  /\ part \in {"codec", "names", "mount", "draw", "panel", "ps2", "audio", "alarms", "time",
               "fds", "interrupts", "bitmap", "caches", "profile", "devices", "delay",
               "logging", "startup", "exceptions", "serial", "config", "keys",
               "points"}
  /\ Starts("codec", CodecIdle, Init)
  /\ Starts("names", NamesIdle, NamesInit)
  /\ Starts("mount", MountIdle, MountInit)
  /\ Starts("draw", DrawIdle, DrawInit)
  /\ Starts("panel", PanelIdle, PanelInit)
  /\ Starts("ps2", Ps2Idle, Ps2Init)
  /\ Starts("audio", AudioIdle, AudioInit)
  /\ AlarmsInit /\ TodInit /\ FdInit /\ IrqInit
  /\ BitmapInit /\ CacheInit /\ ProfileInit /\ DevInit /\ DelayInit /\ LogInit /\ StartInit
  /\ Starts("exceptions", ExcIdle, ExcInit) /\ SerialInit /\ Starts("config", CfgIdle, CfgInit) /\ KeyInit
  /\ Starts("points", PointsIdle, PointsInit)

calculated == <<vars, namesVars, mountVars, drawVars>>
ports == <<serialVars, cfgVars, keyVars>>
peripherals == <<panelVars, ps2Vars, audioVars, ports>>
hal == <<alarmVars, todVars, fdVars, irqVars>>
processor == <<cacheVars, profileVars, startVars, excVars>>
utilities == <<bitmapVars, devVars, delayVars, logVars, pointVars>>

PartsNext ==
  \/ /\ UNCHANGED <<part, peripherals, hal, processor, utilities>>
     /\ \/ part = "codec" /\ Next /\ UNCHANGED <<namesVars, mountVars, drawVars>>
        \/ part = "names" /\ NamesNext /\ UNCHANGED <<vars, mountVars, drawVars>>
        \/ part = "mount" /\ LookAtCard /\ UNCHANGED <<vars, namesVars, drawVars>>
        \/ part = "draw" /\ Drawn /\ UNCHANGED <<vars, namesVars, mountVars>>
  \/ /\ UNCHANGED <<part, calculated, hal, processor, utilities>>
     /\ \/ part = "panel" /\ PanelNext /\ UNCHANGED <<ps2Vars, audioVars, ports>>
        \/ part = "ps2" /\ Ps2Next /\ UNCHANGED <<panelVars, audioVars, ports>>
        \/ part = "audio" /\ AudioNext /\ UNCHANGED <<panelVars, ps2Vars, ports>>
        \/ /\ UNCHANGED <<panelVars, ps2Vars, audioVars>>
           /\ \/ part = "serial" /\ SerialNext /\ UNCHANGED <<cfgVars, keyVars>>
              \/ part = "config" /\ CfgNext /\ UNCHANGED <<serialVars, keyVars>>
              \/ part = "keys" /\ KeyNext /\ UNCHANGED <<serialVars, cfgVars>>
  \/ /\ UNCHANGED <<part, calculated, peripherals, processor, utilities>>
     /\ \/ part = "alarms" /\ AlarmsNext /\ UNCHANGED <<todVars, fdVars, irqVars>>
        \/ part = "time" /\ TodNext /\ UNCHANGED <<alarmVars, fdVars, irqVars>>
        \/ part = "fds" /\ FdNext /\ UNCHANGED <<alarmVars, todVars, irqVars>>
        \/ part = "interrupts" /\ IrqNext /\ UNCHANGED <<alarmVars, todVars, fdVars>>
  \/ /\ UNCHANGED <<part, calculated, peripherals, hal, utilities>>
     /\ \/ part = "caches" /\ CacheNext /\ UNCHANGED <<profileVars, startVars, excVars>>
        \/ part = "profile" /\ ProfileNext /\ UNCHANGED <<cacheVars, startVars, excVars>>
        \/ part = "startup" /\ StartNext /\ UNCHANGED <<cacheVars, profileVars, excVars>>
        \/ part = "exceptions" /\ ExcNext /\ UNCHANGED <<cacheVars, profileVars, startVars>>
  \/ /\ UNCHANGED <<part, calculated, peripherals, hal, processor>>
     /\ \/ part = "bitmap" /\ BitmapNext /\ UNCHANGED <<devVars, delayVars, logVars, pointVars>>
        \/ part = "devices" /\ DevNext /\ UNCHANGED <<bitmapVars, delayVars, logVars, pointVars>>
        \/ part = "delay" /\ DelayNext /\ UNCHANGED <<bitmapVars, devVars, logVars, pointVars>>
        \/ part = "logging" /\ LogNext /\ UNCHANGED <<bitmapVars, devVars, delayVars, pointVars>>
        \/ part = "points" /\ PointsNext /\ UNCHANGED <<bitmapVars, devVars, delayVars, logVars>>

PartsSpec == PartsInit /\ [][PartsNext]_<<part, calculated, peripherals, hal, processor, utilities>>

---------------------------------------------------------------------------
(* Properties: what the parts promise, each part's own named there *)

\* An instruction crosses the link: downwards it is read as it was written or
\* not at all, upwards with exactly the bytes of its offset turned round and its
\* colour a step off (lib_instr.c:11-36, Instruction.java:78-105).
InstructionsCross == DownAgrees /\ UpReversed

\* A file is found by the name it was created or listed with, in a volume whose
\* clusters can be told from the end of a file (altera_up_sd_card_avalon_interface.c:555-700, 1132-1245,
\* 296-343, 456-477).
FoundOnCard ==
  /\ AcceptsShortNames /\ WithinArrays /\ CreatedIsFound /\ ListedIsFound
  /\ ClustersNumbered /\ FirstVolume

\* What is drawn, written, printed or counted out is seen as and where it was
\* asked for, cut off at the edges (altera_up_avalon_video_pixel_buffer_dma.c,
\* wk_io.c, altera_up_avalon_video_character_buffer_with_dma.c,
\* altera_up_avalon_character_lcd.c, alt_printf.c, alt_log_printf.c).
ShownAsAsked ==
  /\ DrawsClipped /\ LinesAndClears /\ GridDrawn
  /\ TextClipped /\ HexShows /\ CursorFollows
  /\ PrintsAlike /\ ReadsBack /\ EchoFits

\* The device is known and its keys are named as they were pressed
\* (altera_up_avalon_ps2.c, altera_up_ps2_keyboard.c).
KeysKnown == TypeFound /\ NoGhostKeys /\ NamedAsPressed /\ CharacterOfKey

\* Words and bytes pass the FIFOs once, in order, and register writes reach
\* the chip that is meant (altera_up_avalon_audio.c, altera_up_avalon_rs232.c,
\* altera_up_avalon_audio_and_video_config.c).
PortsWhole ==
  /\ RecordedInOrder /\ PlayedInOrder /\ RecordsByThreshold
  /\ MessagesWhole /\ ReadOrEaten
  /\ ReachesItsChip /\ SelectionKept

\* Alarms go off when they should, once, over the wrap of the counter, and
\* times asked for are the times waited and told (alt_tick.c,
\* alt_alarm_start.c, alt_gettod.c, alt_busy_sleep.c, altera_avalon_timer_ts.c).
TimesKept == [](OnTime /\ ListWhole /\ TimeKept /\ SleepsAsAsked) /\ NeverBack

\* Descriptors come from the pool and go back to it, keep the rights they were
\* opened with, and lead to the device that was named (alt_open.c, alt_close.c,
\* alt_fd_lock.c, alt_fcntl.c, alt_find_file.c, alt_isatty.c).
DescriptorsHold == PoolMatches /\ LockedAlone /\ UsesItsOwn /\ FoundByParts /\ TerminalsAgree

\* Interrupts and exceptions leave the program as they met it: lines as
\* enabled, sections unbroken, handlers with their contexts, memory apart,
\* instructions executed once (alt_irq_handler.c, alt_irq_register.c,
\* alt_sbrk.c, alt_exception_entry.S).
HandlersHold ==
  /\ EnabledAsMeant /\ CalledWhole /\ MaskHolds /\ BlocksApart
  /\ ExecutedOnce /\ OnlyFaultyBlamed /\ BadAddrFresh /\ MaskRespected

\* Processor, devices and memory agree where they must: after flushes, for uncached memory, and when main begins
\* (alt_dcache_flush.c, alt_remap_uncached.c, alt_load.c, alt_main.c).
MemoryAsMeant ==
  /\ FlushedInMemory /\ DeviceIsRead /\ FetchedAnew /\ UncachedKept
  /\ DataAsLinked /\ HostWatched /\ StdioAtMain

\* The log tells of the points of the program that its level asks for, at the
\* ticks counted for them, in whole lines, and of the register as it was
\* (alt_log_printf.c, alt_log_printf.h).
LogTells == LoggedByLevel /\ HeartbeatsCounted /\ LogLinesWhole /\ ReportsRegister
=============================================================================
