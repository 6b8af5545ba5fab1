------------------------------ MODULE FdTable ------------------------------
(***************************************************************************)
(* The HAL's file descriptors: a pool shared by all devices, searched up   *)
(* to a high-water mark, with exclusive locks; and the redirection of the  *)
(* standard streams at start-up (alt_open.c, alt_close.c, alt_get_fd.c,    *)
(* alt_fd_lock.c, alt_ioctl.c, alt_fcntl.c, alt_io_redirect.c).            *)
(*                                                                         *)
(* There is no operating system: a call is one step.  The program uses     *)
(* only descriptors it has.                                                *)
(***************************************************************************)
EXTENDS Integers, Sequences, FiniteSetsExt

CONSTANTS
  MaxFds,          \* ALT_MAX_FD
  Devices,         \* alt_dev_list, but for /dev/null
  Filesystems,     \* alt_fs_list
  Standard,        \* the device of the standard streams
  Modes            \* the access modes the program opens with

AccessModes == {"O_RDONLY", "O_WRONLY", "O_RDWR"}
Unused == "unused"
DevNull == "/dev/null"
EXCL == "ALT_FD_EXCL"
DEV == "ALT_FD_DEV"

\* Devices and file systems are told from each other, from the values above,
\* and from modes.
ASSUME FdAssumption ==
  /\ MaxFds \in Nat /\ MaxFds > 3 /\ Standard \in Devices
  /\ Devices \cap Filesystems = {}
  /\ (Devices \cup Filesystems) \cap (AccessModes \cup {Unused, DevNull}) = {}
  /\ Modes \subseteq AccessModes

Fds == 0 .. MaxFds - 1

\* The order alt_io_redirect redirects in, and the modes.
Streams == <<[fd |-> 1, mode |-> "O_WRONLY"], [fd |-> 0, mode |-> "O_RDONLY"],
             [fd |-> 2, mode |-> "O_WRONLY"]>>

VARIABLES
  fdDev, fdFlags,  \* alt_fd_list
  alt_max_fd,
  redirected,      \* streams redirected so far
  mine,            \* history: what each descriptor was opened for, or {}
  misused,         \* history: a device was read or written by mistake
  early            \* history: descriptors locked while the newest one in use
                   \* was on the same device
fdVars == <<fdDev, fdFlags, alt_max_fd, redirected, mine, misused, early>>

FdInit ==
  /\ fdDev = [f \in Fds |-> IF f <= 2 THEN DevNull ELSE Unused]
  /\ fdFlags = [f \in Fds |-> {}]
  /\ alt_max_fd = -1 /\ redirected = 0
  /\ mine = [f \in Fds |-> {}] /\ misused = FALSE /\ early = {}

---------------------------------------------------------------------------
(* open *)

Free == {f \in Fds : fdDev[f] = Unused}

\* alt_get_fd.
Got == Min(Free)

\* alt_file_locked.
FileLocked(fd, dev) == \E f \in 0 .. alt_max_fd : f # fd /\ fdDev[f] = dev /\ EXCL \in fdFlags[f]

\* Seeded bug: a descriptor keeps its place when open fails.
KeepsPlaceAlways(ok) == TRUE

\* alt_release_fd cleans up after an open that failed.
KeepsPlace(ok) == ok

\* open, of a device or of a file of a file system; accepted is what the
\* driver's own open answers, if it has one.  An unknown name, or a pool with no
\* descriptor left, changes nothing.
Open(dev, mode, accepted) ==
  /\ redirected = Len(Streams) /\ Free # {}
  /\ LET ok == accepted /\ (dev \in Filesystems \/ ~FileLocked(Got, dev))
     IN /\ fdDev' = IF KeepsPlace(ok) THEN [fdDev EXCEPT ![Got] = dev] ELSE fdDev
        /\ fdFlags' = IF ~ok THEN fdFlags
                      ELSE [fdFlags EXCEPT ![Got] = {mode} \cup (IF dev \in Devices THEN {DEV} ELSE {})]
        /\ mine' = IF ok THEN [mine EXCEPT ![Got] = {dev, mode}] ELSE mine
  /\ alt_max_fd' = Max({alt_max_fd, Got})
  /\ UNCHANGED <<redirected, misused, early>>

\* alt_open_fd for the next stream: what the opened descriptor says is copied,
\* and the descriptor given back.
Redirect ==
  /\ redirected < Len(Streams) /\ redirected' = redirected + 1
  /\ LET s == Streams[redirected + 1]
     IN /\ fdDev' = [fdDev EXCEPT ![s.fd] = Standard]
        /\ fdFlags' = [fdFlags EXCEPT ![s.fd] = {s.mode, DEV}]
        /\ mine' = [mine EXCEPT ![s.fd] = {Standard, s.mode}]
  /\ alt_max_fd' = Max({alt_max_fd, Got})
  /\ UNCHANGED <<misused, early>>

---------------------------------------------------------------------------
(* The calls on a descriptor the program has *)

Has(fd) == redirected = Len(Streams) /\ mine[fd] # {}

\* alt_release_fd frees what is not a standard stream, whatever the driver's
\* close returns; the close of a standard stream changes nothing and is left out.
Close(fd) ==
  /\ Has(fd) /\ fd > 2
  /\ fdDev' = [fdDev EXCEPT ![fd] = Unused]
  /\ fdFlags' = [fdFlags EXCEPT ![fd] = {}]
  /\ mine' = [mine EXCEPT ![fd] = {}] /\ early' = early \ {fd}
  /\ UNCHANGED <<alt_max_fd, redirected, misused>>

\* TIOCEXCL: alt_fd_lock leaves out the newest descriptor.
Lock(fd) ==
  /\ Has(fd) /\ DEV \in fdFlags[fd]
  /\ \A f \in 0 .. alt_max_fd - 1 : f # fd => fdDev[f] # fdDev[fd]
  /\ fdFlags' = [fdFlags EXCEPT ![fd] = @ \cup {EXCL}]
  /\ early' = IF fd # alt_max_fd /\ fdDev[alt_max_fd] = fdDev[fd] THEN early \cup {fd} ELSE early
  /\ UNCHANGED <<fdDev, alt_max_fd, redirected, mine, misused>>

\* TIOCNXCL.
Unlock(fd) ==
  /\ Has(fd) /\ DEV \in fdFlags[fd]
  /\ fdFlags' = [fdFlags EXCEPT ![fd] = @ \ {EXCL}] /\ early' = early \ {fd}
  /\ UNCHANGED <<fdDev, alt_max_fd, redirected, mine, misused>>

\* ALT_FCNTL_FLAGS_MASK, but for O_APPEND, which nothing reads.
Settable == {"O_NONBLOCK"}

\* F_SETFL.
SetFlags(fd, flags) ==
  /\ Has(fd)
  /\ fdFlags' = [fdFlags EXCEPT ![fd] = (@ \ Settable) \cup (flags \cap Settable)]
  /\ UNCHANGED <<fdDev, alt_max_fd, redirected, mine, misused, early>>

\* read and write call the driver unless the mode forbids it; isatty, fstat,
\* lseek and the driver's ioctls call it in any mode.
Use(fd, forbidden) ==
  /\ Has(fd) /\ forbidden \notin fdFlags[fd]
  /\ misused' = (misused \/ fdDev[fd] \notin mine[fd] \/ forbidden \in mine[fd])
  /\ UNCHANGED <<fdDev, fdFlags, alt_max_fd, redirected, mine, early>>
ReadsFrom(fd) == Use(fd, "O_WRONLY")
WritesTo(fd) == Use(fd, "O_RDONLY")

FdNext ==
  \/ Redirect
  \/ \E d \in Devices \cup Filesystems, mode \in Modes, ok \in BOOLEAN : Open(d, mode, ok)
  \/ \E fd \in Fds :
       \/ Close(fd) \/ Lock(fd) \/ Unlock(fd) \/ ReadsFrom(fd) \/ WritesTo(fd)
       \/ \E flags \in {{}, {"O_NONBLOCK"}} \cup {{mode} : mode \in Modes} : SetFlags(fd, flags)

---------------------------------------------------------------------------
(* Properties *)

\* The pool holds what the program has open and nothing else: an open that
\* fails, for whatever reason and however late, gives its descriptor back
\* (alt_open.c:150-163), and the high-water mark covers every one.
PoolMatches ==
  \A f \in Fds : f > 2 => /\ fdDev[f] # Unused <=> mine[f] # {}
                          /\ fdDev[f] = Unused => fdFlags[f] = {}
                          /\ f > alt_max_fd => fdDev[f] = Unused

\* A device locked for exclusive access is open once - unless the other
\* descriptor was the newest when the lock was granted (alt_fd_lock.c:61).
LockedAlone ==
  \A f, g \in Fds :
    EXCL \in fdFlags[f] /\ f \notin early /\ f # g => fdDev[g] # fdDev[f]

\* Through a descriptor the program reaches the device it opened, in the mode
\* it asked for, whatever was opened, closed and set in between
\* (alt_read.c:98-113, alt_fcntl.c:84-89).
UsesItsOwn == ~misused
===========================================================================
