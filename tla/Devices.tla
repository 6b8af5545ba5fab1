------------------------------ MODULE Devices ------------------------------
(***************************************************************************)
(* The HAL's lists of devices and file systems, the search for a name in   *)
(* them, and the calls that go through a descriptor to a driver which may  *)
(* or may not provide them: isatty, fstat, lseek, ioctl, read and write    *)
(* (alt_dev_llist_insert.c, alt_fs_reg.c, alt_find_dev.c, alt_find_file.c, *)
(* alt_isatty.c, alt_fstat.c, alt_lseek.c, alt_ioctl.c).  FdTable has the  *)
(* pool of descriptors.                                                    *)
(*                                                                         *)
(* A driver is a record of what it provides and how it answers.            *)
(***************************************************************************)
EXTENDS Integers, Sequences

CONSTANTS
  Drivers,         \* [name, has, mode, fails]
  Paths            \* names that are opened

IsName(name) == name \in Seq({name[k] : k \in DOMAIN name})

ASSUME DevicesAssumption ==
  /\ \A d \in Drivers : /\ d.has \subseteq {"read", "write", "fstat", "lseek", "ioctl"}
                        /\ d.mode \in {"_IFCHR", "_IFREG"} /\ d.fails \in BOOLEAN
                        /\ IsName(d.name)
  /\ \A name \in Paths : IsName(name)

NoDriver == [name |-> << >>, has |-> {}, mode |-> "none", fails |-> FALSE]
Unasked == "unasked"

VARIABLES
  alt_dev_list, alt_fs_list,   \* the newest first
  path, dev,       \* a name and the driver that is found for it
  terminal, st_mode,           \* what isatty and fstat have answered of it
  answer           \* what the last call has returned, and its errno
devVars == <<alt_dev_list, alt_fs_list, path, dev, terminal, st_mode, answer>>

NoAnswer == [rc |-> 0, errno |-> 0]
DevInit ==
  /\ alt_dev_list = << >> /\ alt_fs_list = << >>
  /\ path = << >> /\ dev = NoDriver /\ terminal = Unasked /\ st_mode = Unasked /\ answer = NoAnswer

---------------------------------------------------------------------------
(* Registration and search *)

\* alt_dev_llist_insert refuses a device without a name.
DevReg(d) ==
  /\ path = << >>
  /\ IF d.name = << >> THEN answer' = [rc |-> -22, errno |-> 22] /\ UNCHANGED alt_dev_list
     ELSE answer' = NoAnswer /\ alt_dev_list' = <<d>> \o alt_dev_list
  /\ UNCHANGED <<alt_fs_list, path, dev, terminal, st_mode>>

\* alt_fs_reg sets no errno.
FsReg(d) ==
  /\ path = << >>
  /\ IF d.name = << >> THEN answer' = [rc |-> -19, errno |-> 0] /\ UNCHANGED alt_fs_list
     ELSE answer' = NoAnswer /\ alt_fs_list' = <<d>> \o alt_fs_list
  /\ UNCHANGED <<alt_dev_list, path, dev, terminal, st_mode>>

OnList(list) == {list[k] : k \in DOMAIN list}

\* The first driver of a list that is among the fitting ones, or NoDriver.
FirstOf(list, fitting) ==
  LET places == {k \in DOMAIN list : list[k] \in fitting}
  IN IF places = {} THEN NoDriver
     ELSE list[CHOOSE k \in places : \A j \in places : k <= j]

\* alt_find_dev.
FindDev(name) == FirstOf(alt_dev_list, {d \in OnList(alt_dev_list) : d.name = name})

StartsWith(name, prefix) ==
  Len(name) >= Len(prefix) /\ \A k \in DOMAIN prefix : name[k] = prefix[k]

\* After len characters the name ends, or one of its parts does.
EndsThere(name, len) == Len(name) = len \/ name[len + 1] = "/"

\* A slash at the end of a mount point is left out.
MountPoint(d) ==
  IF d.name[Len(d.name)] = "/" THEN SubSeq(d.name, 1, Len(d.name) - 1) ELSE d.name

\* alt_find_file.
FindFile(name) ==
  FirstOf(alt_fs_list, {d \in OnList(alt_fs_list) : /\ StartsWith(name, MountPoint(d))
                                                     /\ EndsThere(name, Len(MountPoint(d)))})

\* The search of open.
Find(name) ==
  /\ path = << >> /\ name # << >> /\ path' = name
  /\ dev' = IF FindDev(name) # NoDriver THEN FindDev(name) ELSE FindFile(name)
  /\ answer' = IF dev' = NoDriver THEN [rc |-> -1, errno |-> 19] ELSE NoAnswer
  /\ UNCHANGED <<alt_dev_list, alt_fs_list, terminal, st_mode>>

---------------------------------------------------------------------------
(* Calls *)

Eio == -5
Enotsup == -134
Enotty == -25
Eacces == -13

\* What a driver returns.
DriverReturns == IF dev.fails THEN Eio ELSE 0

\* What fstat leaves in st_mode: a driver that fails leaves what was there.
FstatModes == IF "fstat" \notin dev.has THEN {"_IFCHR"}
              ELSE IF dev.fails THEN {"_IFCHR", "_IFREG"} ELSE {dev.mode}

\* fstat returns the driver's code as it is.
Fstat ==
  /\ dev # NoDriver
  /\ st_mode' \in FstatModes
  /\ answer' = [rc |-> IF "fstat" \in dev.has THEN DriverReturns ELSE 0, errno |-> 0]
  /\ UNCHANGED <<alt_dev_list, alt_fs_list, path, dev, terminal>>

TerminalByDefault == "yes"

Isatty ==
  /\ dev # NoDriver
  /\ IF "fstat" \notin dev.has THEN terminal' = TerminalByDefault
     ELSE \E mode \in FstatModes : terminal' = IF mode = "_IFCHR" THEN "yes" ELSE "no"
  /\ answer' = NoAnswer
  /\ UNCHANGED <<alt_dev_list, alt_fs_list, path, dev, st_mode>>

\* lseek, ioctl, read and write: what is not provided has an error of its own.
Call(function, missing) ==
  /\ dev # NoDriver
  /\ LET rc == IF function \in dev.has THEN DriverReturns ELSE missing
     IN answer' = [rc |-> rc, errno |-> IF rc < 0 THEN -rc ELSE 0]
  /\ UNCHANGED <<alt_dev_list, alt_fs_list, path, dev, terminal, st_mode>>
Lseek == Call("lseek", Enotsup)
Ioctl == Call("ioctl", Enotty)
DevReads == Call("read", Eacces)
DevWrites == Call("write", Eacces)

DevNext ==
  \/ \E d \in Drivers :
       \/ Len(alt_dev_list) < 1 /\ DevReg(d)
       \/ Len(alt_fs_list) < 2 /\ FsReg(d)
  \/ \E name \in Paths : Find(name)
  \/ Fstat \/ Isatty \/ Lseek \/ Ioctl \/ DevReads \/ DevWrites

---------------------------------------------------------------------------
(* Properties *)

\* The parts of a name between its slashes, by their first and last places.
IsPart(name, a, b) ==
  /\ a <= b /\ \A k \in a .. b : name[k] # "/"
  /\ a = 1 \/ name[a - 1] = "/"
  /\ b = Len(name) \/ name[b + 1] = "/"
Parts(name) == {p \in (DOMAIN name) \X (DOMAIN name) : IsPart(name, p[1], p[2])}

\* A name goes to the device of that name or else to the newest file system
\* whose mount point's parts it starts with; a name beside a mount point, as
\* /mntx is to /mnt, never does (alt_find_file.c:64-82).
FoundByParts ==
  dev # NoDriver /\ dev.name # path =>
    \A p \in Parts(dev.name) : p \in Parts(path)
                               /\ SubSeq(path, p[1], p[2]) = SubSeq(dev.name, p[1], p[2])

\* isatty and fstat agree on what is a terminal, whichever of them answers for
\* the driver; only one whose fstat fails leaves them guessing
\* (alt_isatty.c:99-116, alt_fstat.c:103-118).
TerminalsAgree ==
  terminal # Unasked /\ st_mode # Unasked /\ ~("fstat" \in dev.has /\ dev.fails) =>
    (terminal = "yes" <=> st_mode = "_IFCHR")
============================================================================
