---------------------------- MODULE PartsProofs ----------------------------
(***************************************************************************)
(* Parts of the board's software, for every value of their constants: the  *)
(* descriptors and the search for devices, interrupts with their critical  *)
(* sections, exceptions, the instruction codec, the bitmap, the volume on  *)
(* a card, and the profile.  Each part has an inductive invariant of its   *)
(* own; at the end they are joined for the behaviours of BoardParts.       *)
(***************************************************************************)
EXTENDS BoardParts, SequenceTheorems, FiniteSetTheorems, WellFoundedInduction, TLAPS

---------------------------------------------------------------------------
(* Sets of numbers *)

\* The least-number principle, for a set given as such.
LEMMA LeastNumber ==
  ASSUME NEW S \in SUBSET Nat, S # {}
  PROVE  \E m \in S : \A n \in S : m <= n
<1> DEFINE Below == {ss \in Nat \X Nat : ss[1] < ss[2]}
<1>1. IsWellFoundedOn(Below, Nat)
  BY NatLessThanWellFounded DEF OpToRel
<1>2. \E m \in S : \A n \in S : ~ (<<n, m>> \in Below)
  <2> HIDE DEF Below
  <2> QED BY <1>1, WFMin
<1>3. \A m, n \in S : ~ (<<n, m>> \in Below) => m <= n
  OBVIOUS
<1> QED BY <1>2, <1>3

LEMMA MinIs ==
  ASSUME NEW S \in SUBSET Nat, S # {}
  PROVE  Min(S) \in S /\ \A n \in S : Min(S) <= n
BY LeastNumber DEF Min

LEMMA MaxOfTwo ==
  ASSUME NEW a \in Int, NEW b \in Int
  PROVE  Max({a, b}) \in {a, b} /\ Max({a, b}) >= a /\ Max({a, b}) >= b
<1>1. \E x \in {a, b} : \A y \in {a, b} : x >= y
  <2>1. CASE a >= b  BY <2>1
  <2>2. CASE ~(a >= b)  BY <2>2
  <2> QED BY <2>1, <2>2
<1> QED BY <1>1 DEF Max

---------------------------------------------------------------------------
(* Descriptors *)

Flags == AccessModes \cup Settable \cup {EXCL, DEV}
Opened == Devices \cup Filesystems

FdTypes ==
  /\ fdDev \in [Fds -> Opened \cup {DevNull, Unused}]
  /\ fdFlags \in [Fds -> SUBSET Flags]
  /\ alt_max_fd \in -1 .. MaxFds - 1
  /\ redirected \in 0 .. 3
  /\ mine \in [Fds -> SUBSET (Opened \cup AccessModes)]

\* The standard streams keep their descriptors, and until they are redirected
\* nothing else has one.
Pool ==
  /\ \A f \in Fds : f <= 2 => fdDev[f] # Unused
  /\ redirected < 3 => \A f \in Fds : EXCL \notin fdFlags[f] /\ (f > 2 => fdDev[f] = Unused)
  /\ redirected > 0 => alt_max_fd > 2
  /\ PoolMatches

\* What a descriptor was opened for is what it has, and only devices are locked.
Rights ==
  \A f \in Fds :
    /\ mine[f] # {} => fdDev[f] \in mine[f]
    /\ \A right \in {"O_RDONLY", "O_WRONLY"} : right \in mine[f] => right \in fdFlags[f]
    /\ EXCL \in fdFlags[f] => DEV \in fdFlags[f]
    /\ DEV \in fdFlags[f] => fdDev[f] \in Devices

FdInv == FdTypes /\ Pool /\ Rights /\ LockedAlone /\ UsesItsOwn

LEMMA FdsAre ==
  /\ MaxFds \in Nat /\ MaxFds > 3 /\ Standard \in Devices
  /\ Devices \cap Filesystems = {}
  /\ Unused \notin Opened /\ DevNull # Unused /\ DevNull \notin Opened
  /\ \A right \in AccessModes : right \notin Opened
  /\ Modes \subseteq AccessModes
  /\ EXCL \notin AccessModes /\ DEV \notin AccessModes /\ EXCL # DEV
  /\ \A flag \in Settable : flag \notin AccessModes /\ flag # EXCL /\ flag # DEV
BY FdAssumption DEF Opened, Unused, DevNull, AccessModes, EXCL, DEV, Settable

LEMMA StreamsAre ==
  /\ Len(Streams) = 3
  /\ \A k \in 1 .. 3 : /\ Streams[k].fd \in 0 .. 2
                       /\ Streams[k].mode \in AccessModes
BY DEF Streams, AccessModes

LEMMA GotIs ==
  ASSUME FdTypes, Pool, Free # {}
  PROVE  /\ Got \in Fds /\ Got > 2 /\ fdDev[Got] = Unused
         /\ Max({alt_max_fd, Got}) \in 0 .. MaxFds - 1
         /\ Max({alt_max_fd, Got}) >= alt_max_fd /\ Max({alt_max_fd, Got}) >= Got
<1>1. Free \subseteq Nat  BY FdsAre DEF Free, Fds
<1>2. Got \in Free  BY <1>1, MinIs DEF Got
<1>3. Got \in Fds /\ fdDev[Got] = Unused  BY <1>2 DEF Free
<1>4. alt_max_fd \in Int /\ Got \in Int  BY <1>3, FdsAre DEF Fds, FdTypes
<1> HIDE DEF Got
<1>5. /\ Max({alt_max_fd, Got}) \in {alt_max_fd, Got}
      /\ Max({alt_max_fd, Got}) >= alt_max_fd /\ Max({alt_max_fd, Got}) >= Got
  BY <1>4, MaxOfTwo
<1> QED BY <1>3, <1>4, <1>5, FdsAre DEF Fds, FdTypes, Pool

LEMMA InitFds == FdInit => FdInv
BY FdsAre DEF FdInit, FdInv, FdTypes, Pool, PoolMatches, Rights, LockedAlone, UsesItsOwn, Fds,
              Opened

LEMMA OpenKeeps ==
  ASSUME FdInv, NEW d \in Devices \cup Filesystems, NEW how \in Modes, NEW ok \in BOOLEAN,
         Open(d, how, ok)
  PROVE  FdInv'
<1> USE FdsAre, StreamsAre
<1> DEFINE g == Got
           kept == ok /\ (d \in Filesystems \/ ~FileLocked(g, d))
<1>1. FdTypes /\ Pool /\ Rights /\ LockedAlone /\ UsesItsOwn /\ Free # {} /\ redirected = 3
  BY DEF FdInv, Open
<1>2. /\ g \in Fds /\ g > 2 /\ fdDev[g] = Unused
      /\ alt_max_fd' \in 0 .. MaxFds - 1 /\ alt_max_fd' >= alt_max_fd /\ alt_max_fd' >= g
  <2>1. alt_max_fd' = Max({alt_max_fd, Got})  BY DEF Open
  <2> QED BY <1>1, <2>1, GotIs
<1>3. mine[g] = {} /\ fdFlags[g] = {}  BY <1>1, <1>2 DEF Pool, PoolMatches
<1>4. UNCHANGED <<redirected, misused, early>>  BY DEF Open
<1>5. CASE ~kept
  <2>1. UNCHANGED <<fdDev, fdFlags, mine>>  BY <1>5 DEF Open, KeepsPlace
  <2> HIDE DEF g
  <2>2. FdTypes' /\ Rights' /\ LockedAlone' /\ UsesItsOwn'
    BY <1>1, <1>2, <1>4, <2>1 DEF FdTypes, Rights, LockedAlone, UsesItsOwn
  <2>3. Pool'  BY <1>1, <1>2, <1>4, <2>1 DEF Pool, PoolMatches, FdTypes, Fds
  <2> QED BY <2>2, <2>3 DEF FdInv
<1>6. CASE kept
  <2> DEFINE flags == {how} \cup (IF d \in Devices THEN {DEV} ELSE {})
  <2>1. /\ fdDev' = [fdDev EXCEPT ![g] = d]
        /\ fdFlags' = [fdFlags EXCEPT ![g] = flags]
        /\ mine' = [mine EXCEPT ![g] = {d, how}]
    BY <1>6 DEF Open, KeepsPlace
  <2>2. /\ flags \subseteq Flags /\ EXCL \notin flags /\ how \in flags
        /\ DEV \in flags => d \in Devices
    BY DEF Flags
  <2>3. \A f \in Fds : EXCL \in fdFlags[f] => fdDev[f] # d
    <3> SUFFICES ASSUME NEW f \in Fds, EXCL \in fdFlags[f], fdDev[f] = d PROVE FALSE
      OBVIOUS
    <3>1. f # g /\ d \in Devices  BY <1>1, <1>3 DEF Rights
    <3>2. f \in 0 .. alt_max_fd
      BY <1>1, <3>1 DEF Pool, PoolMatches, Fds, FdTypes, Opened
    <3>3. FileLocked(g, d)  BY <3>1, <3>2 DEF FileLocked
    <3> QED BY <1>6, <3>1, <3>3
  <2> HIDE DEF g, flags, kept
  <2>4. /\ \A f \in Fds : f # g => /\ fdDev'[f] = fdDev[f] /\ fdFlags'[f] = fdFlags[f]
                                   /\ mine'[f] = mine[f]
        /\ fdDev'[g] = d /\ fdFlags'[g] = flags /\ mine'[g] = {d, how}
    BY <1>1, <1>2, <2>1 DEF FdTypes
  <2>5. FdTypes'
    BY <1>1, <1>2, <1>4, <2>1, <2>2 DEF FdTypes, Opened
  <2>6. Pool'
    BY <1>1, <1>2, <1>4, <2>4 DEF Pool, PoolMatches, FdTypes, Fds, Opened
  <2>7. Rights'
    BY <1>1, <1>2, <2>2, <2>4 DEF Rights, Opened, AccessModes
  <2>8. LockedAlone'
    BY <1>1, <1>2, <1>4, <2>2, <2>3, <2>4 DEF LockedAlone
  <2>9. UsesItsOwn'  BY <1>1, <1>4 DEF UsesItsOwn
  <2> QED BY <2>5, <2>6, <2>7, <2>8, <2>9 DEF FdInv
<1> QED BY <1>5, <1>6

LEMMA RedirectKeeps ==
  ASSUME FdInv, Redirect
  PROVE  FdInv'
<1> USE FdsAre, StreamsAre
<1> DEFINE s == Streams[redirected + 1]
<1>1. FdTypes /\ Pool /\ Rights /\ LockedAlone /\ UsesItsOwn /\ redirected < 3
  BY DEF FdInv, Redirect
<1>2. s.fd \in Fds /\ s.fd <= 2 /\ s.mode \in AccessModes
  BY <1>1 DEF FdTypes, Fds
<1>3. Free # {}
  <2>1. 3 \in Fds /\ fdDev[3] = Unused  BY <1>1 DEF Fds, Pool
  <2> QED BY <2>1 DEF Free
<1>4. alt_max_fd' \in 0 .. MaxFds - 1 /\ alt_max_fd' >= alt_max_fd /\ alt_max_fd' > 2
  <2>1. alt_max_fd' = Max({alt_max_fd, Got})  BY DEF Redirect
  <2>2. /\ Got \in Fds /\ Got > 2
        /\ Max({alt_max_fd, Got}) \in 0 .. MaxFds - 1
        /\ Max({alt_max_fd, Got}) >= alt_max_fd /\ Max({alt_max_fd, Got}) >= Got
    BY <1>1, <1>3, GotIs
  <2> HIDE DEF s
  <2> QED BY <2>1, <2>2 DEF Fds
<1>5. /\ fdDev' = [fdDev EXCEPT ![s.fd] = Standard]
      /\ fdFlags' = [fdFlags EXCEPT ![s.fd] = {s.mode, DEV}]
      /\ mine' = [mine EXCEPT ![s.fd] = {Standard, s.mode}]
      /\ redirected' = redirected + 1 /\ UNCHANGED <<misused, early>>
  BY DEF Redirect
<1> HIDE DEF s
<1>6. /\ \A f \in Fds : f # s.fd => /\ fdDev'[f] = fdDev[f] /\ fdFlags'[f] = fdFlags[f]
                                    /\ mine'[f] = mine[f]
      /\ fdDev'[s.fd] = Standard /\ fdFlags'[s.fd] = {s.mode, DEV}
      /\ mine'[s.fd] = {Standard, s.mode}
  BY <1>1, <1>2, <1>5 DEF FdTypes
<1>7. FdTypes'
  BY <1>1, <1>2, <1>4, <1>5 DEF FdTypes, Opened, Flags
<1>8. EXCL \notin {s.mode, DEV}  BY <1>2
<1>9. Pool'
  BY <1>1, <1>2, <1>4, <1>5, <1>6, <1>8 DEF Pool, PoolMatches, FdTypes, Fds, Opened
<1>10. Rights'
  BY <1>1, <1>2, <1>6, <1>8 DEF Rights, Opened, AccessModes
<1>11. LockedAlone'
  BY <1>1, <1>6, <1>8 DEF LockedAlone, Pool
<1>12. UsesItsOwn'  BY <1>1, <1>5 DEF UsesItsOwn
<1> QED BY <1>7, <1>9, <1>10, <1>11, <1>12 DEF FdInv

LEMMA CloseKeeps ==
  ASSUME FdInv, NEW fd \in Fds, Close(fd)
  PROVE  FdInv'
<1> USE FdsAre, StreamsAre
<1>1. /\ FdTypes /\ Pool /\ Rights /\ LockedAlone /\ UsesItsOwn
      /\ redirected = 3 /\ fd > 2
  BY DEF FdInv, Close, Has
<1>2. /\ fdDev' = [fdDev EXCEPT ![fd] = Unused]
      /\ fdFlags' = [fdFlags EXCEPT ![fd] = {}]
      /\ mine' = [mine EXCEPT ![fd] = {}] /\ early' = early \ {fd}
      /\ UNCHANGED <<alt_max_fd, redirected, misused>>
  BY DEF Close
<1>3. /\ \A f \in Fds : f # fd => /\ fdDev'[f] = fdDev[f] /\ fdFlags'[f] = fdFlags[f]
                                  /\ mine'[f] = mine[f]
      /\ fdDev'[fd] = Unused /\ fdFlags'[fd] = {} /\ mine'[fd] = {}
  BY <1>1, <1>2 DEF FdTypes
<1>4. FdTypes'  BY <1>1, <1>2 DEF FdTypes
<1>5. Pool'  BY <1>1, <1>2, <1>3 DEF Pool, PoolMatches, FdTypes, Fds
<1>6. Rights'  BY <1>1, <1>3 DEF Rights
<1>7. LockedAlone'
  BY <1>1, <1>2, <1>3 DEF LockedAlone, Rights, Opened
<1>8. UsesItsOwn'  BY <1>1, <1>2 DEF UsesItsOwn
<1> QED BY <1>4, <1>5, <1>6, <1>7, <1>8 DEF FdInv

LEMMA LockKeeps ==
  ASSUME FdInv, NEW fd \in Fds, Lock(fd)
  PROVE  FdInv'
<1> USE FdsAre, StreamsAre
<1>1. /\ FdTypes /\ Pool /\ Rights /\ LockedAlone /\ UsesItsOwn
      /\ redirected = 3 /\ DEV \in fdFlags[fd]
  BY DEF FdInv, Lock, Has
<1>2. /\ fdFlags' = [fdFlags EXCEPT ![fd] = @ \cup {EXCL}]
      /\ UNCHANGED <<fdDev, alt_max_fd, redirected, mine, misused>>
  BY DEF Lock
<1>3. /\ \A f \in Fds : f # fd => fdFlags'[f] = fdFlags[f]
      /\ fdFlags'[fd] = fdFlags[fd] \cup {EXCL}
  BY <1>1, <1>2 DEF FdTypes
<1>4. FdTypes'  BY <1>1, <1>2 DEF FdTypes, Flags
<1>5. Rights'  BY <1>1, <1>2, <1>3 DEF Rights
<1>6. fdDev[fd] \in Devices /\ fdDev[fd] # Unused  BY <1>1 DEF Rights, Opened
<1>7. Pool'  BY <1>1, <1>2, <1>3, <1>6 DEF Pool, PoolMatches
<1>8. LockedAlone'
  <2> SUFFICES ASSUME NEW f \in Fds, NEW g \in Fds, EXCL \in fdFlags'[f], f \notin early', f # g
               PROVE  fdDev'[g] # fdDev'[f]
    BY DEF LockedAlone
  <2>1. early \subseteq early'  BY DEF Lock
  <2>2. CASE f # fd
    BY <1>1, <1>2, <1>3, <2>1, <2>2 DEF LockedAlone
  <2>3. CASE f = fd
    <3>1. ~(fd # alt_max_fd /\ fdDev[alt_max_fd] = fdDev[fd])
      BY <2>3 DEF Lock
    <3>2. \A h \in 0 .. alt_max_fd - 1 : h # fd => fdDev[h] # fdDev[fd]
      BY DEF Lock
    <3>3. alt_max_fd \in Fds  BY <1>1 DEF FdTypes, Fds, Pool
    <3>4. CASE g < alt_max_fd
      <4>1. g \in 0 .. alt_max_fd - 1  BY <3>3, <3>4 DEF Fds
      <4> QED BY <1>2, <2>3, <3>2, <4>1
    <3>5. CASE g = alt_max_fd  BY <1>2, <2>3, <3>1, <3>5
    <3>6. CASE g > alt_max_fd
      <4>1. g > 2  BY <1>1, <3>3, <3>6 DEF Pool, Fds
      <4>2. fdDev[g] = Unused  BY <1>1, <3>6, <4>1 DEF Pool, PoolMatches
      <4> QED BY <1>2, <1>6, <2>3, <4>2
    <3> QED BY <3>3, <3>4, <3>5, <3>6 DEF Fds
  <2> QED BY <2>2, <2>3
<1>9. UsesItsOwn'  BY <1>1, <1>2 DEF UsesItsOwn
<1> QED BY <1>4, <1>5, <1>7, <1>8, <1>9 DEF FdInv

LEMMA FlagsKeep ==
  ASSUME FdInv, NEW fd \in Fds,
         Unlock(fd) \/ \E flags : SetFlags(fd, flags)
  PROVE  FdInv'
<1> USE FdsAre, StreamsAre
<1>1. FdTypes /\ Pool /\ Rights /\ LockedAlone /\ UsesItsOwn /\ redirected = 3
  BY DEF FdInv, Unlock, SetFlags, Has
<1>2. /\ UNCHANGED <<fdDev, alt_max_fd, redirected, mine, misused>>
      /\ early' = early \/ (early' = early \ {fd} /\ EXCL \notin fdFlags'[fd])
  BY <1>1 DEF Unlock, SetFlags, FdTypes
<1>3. PICK flags \in SUBSET Flags :
        /\ fdFlags' = [fdFlags EXCEPT ![fd] = flags]
        /\ flags \ (Settable \cup {EXCL}) = fdFlags[fd] \ (Settable \cup {EXCL})
        /\ EXCL \in flags => EXCL \in fdFlags[fd]
  <2>1. CASE Unlock(fd)
    <3>1. fdFlags[fd] \ {EXCL} \in SUBSET Flags  BY <1>1 DEF FdTypes
    <3> QED BY <2>1, <3>1 DEF Unlock
  <2>2. ASSUME NEW flags, SetFlags(fd, flags)
        PROVE  \E new \in SUBSET Flags :
                 /\ fdFlags' = [fdFlags EXCEPT ![fd] = new]
                 /\ new \ (Settable \cup {EXCL}) = fdFlags[fd] \ (Settable \cup {EXCL})
                 /\ EXCL \in new => EXCL \in fdFlags[fd]
    <3> DEFINE new == (fdFlags[fd] \ Settable) \cup (flags \cap Settable)
    <3>1. new \in SUBSET Flags  BY <1>1 DEF FdTypes, Flags
    <3>2. new \ (Settable \cup {EXCL}) = fdFlags[fd] \ (Settable \cup {EXCL})  OBVIOUS
    <3>3. EXCL \in new => EXCL \in fdFlags[fd]  OBVIOUS
    <3>4. fdFlags' = [fdFlags EXCEPT ![fd] = new]  BY <2>2 DEF SetFlags
    <3> HIDE DEF new
    <3> QED BY <3>1, <3>2, <3>3, <3>4
  <2> QED BY <2>1, <2>2
<1>4. /\ \A f \in Fds : f # fd => fdFlags'[f] = fdFlags[f]
      /\ fdFlags'[fd] = flags
  BY <1>1, <1>3 DEF FdTypes
<1>5. FdTypes'  BY <1>1, <1>2, <1>3 DEF FdTypes
<1>6. Rights'  BY <1>1, <1>2, <1>3, <1>4 DEF Rights, AccessModes
<1>7. Pool'
  <2>1. mine[fd] # {}  BY DEF Unlock, SetFlags, Has
  <2> QED BY <1>1, <1>2, <1>4, <2>1 DEF Pool, PoolMatches
<1>8. LockedAlone'
  BY <1>1, <1>2, <1>3, <1>4 DEF LockedAlone
<1>9. UsesItsOwn'  BY <1>1, <1>2 DEF UsesItsOwn
<1> QED BY <1>5, <1>6, <1>7, <1>8, <1>9 DEF FdInv

LEMMA UseKeeps ==
  ASSUME FdInv, NEW fd \in Fds, ReadsFrom(fd) \/ WritesTo(fd)
  PROVE  FdInv'
<1>1. UNCHANGED <<fdDev, fdFlags, alt_max_fd, redirected, mine, early>>
  BY DEF ReadsFrom, WritesTo, Use
<1>2. PICK how \in {"O_RDONLY", "O_WRONLY"} :
        /\ how \notin fdFlags[fd]
        /\ misused' = (misused \/ fdDev[fd] \notin mine[fd] \/ how \in mine[fd])
  BY DEF ReadsFrom, WritesTo, Use
<1>3. mine[fd] # {}  BY DEF ReadsFrom, WritesTo, Use, Has
<1>4. Rights /\ UsesItsOwn  BY DEF FdInv
<1>5. fdDev[fd] \in mine[fd] /\ how \notin mine[fd]  BY <1>2, <1>3, <1>4 DEF Rights
<1>6. UsesItsOwn'  BY <1>2, <1>4, <1>5, Zenon DEF UsesItsOwn
<1> QED BY <1>1, <1>6 DEF FdInv, FdTypes, Pool, PoolMatches, Rights, LockedAlone

LEMMA FdKeeps == FdInv /\ [FdNext]_fdVars => FdInv'
<1> SUFFICES ASSUME FdInv, [FdNext]_fdVars PROVE FdInv'  OBVIOUS
<1>1. ASSUME NEW d \in Devices \cup Filesystems, NEW how \in Modes, NEW ok \in BOOLEAN,
             Open(d, how, ok)
      PROVE  FdInv'
  BY <1>1, OpenKeeps
<1>2. CASE UNCHANGED fdVars
  BY <1>2 DEF fdVars, FdInv, FdTypes, Pool, PoolMatches, Rights, LockedAlone, UsesItsOwn
<1> QED BY <1>1, <1>2, RedirectKeeps, CloseKeeps, LockKeeps, FlagsKeep, UseKeeps DEF FdNext

---------------------------------------------------------------------------
(* Devices and the search for a name *)

\* The drivers that can be registered.
Named == {d \in Drivers : d.name # << >>}

\* What isatty and fstat make of a driver that does not fail.
ModeOf(d) == IF "fstat" \in d.has THEN d.mode ELSE "_IFCHR"
Sure(d) == ~("fstat" \in d.has /\ d.fails)

DevInv ==
  /\ alt_dev_list \in Seq(Named) /\ alt_fs_list \in Seq(Named)
  /\ path = << >> => dev = NoDriver
  /\ dev # NoDriver => dev \in Named
  /\ dev = NoDriver => terminal = Unasked /\ st_mode = Unasked
  /\ dev # NoDriver /\ Sure(dev) =>
       /\ st_mode \in {Unasked, ModeOf(dev)}
       /\ terminal \in {Unasked, IF ModeOf(dev) = "_IFCHR" THEN "yes" ELSE "no"}
  /\ FoundByParts

LEMMA NamedAre ==
  ASSUME NEW d \in Named
  PROVE  /\ d \in Drivers /\ d.name # << >> /\ d # NoDriver
         /\ Len(d.name) \in Nat \ {0} /\ DOMAIN d.name = 1 .. Len(d.name)
         /\ d.mode \in {"_IFCHR", "_IFREG"}
<1>1. d \in Drivers /\ d.name # << >>  BY DEF Named
<1>2. d.name \in Seq({d.name[k] : k \in DOMAIN d.name})
  BY <1>1, DevicesAssumption DEF IsName
<1>3. Len(d.name) \in Nat /\ DOMAIN d.name = 1 .. Len(d.name) /\ Len(d.name) # 0
  <2> DEFINE S == {d.name[k] : k \in DOMAIN d.name}
  <2>1. d.name \in Seq(S)  BY <1>2
  <2> HIDE DEF S
  <2> QED BY <1>1, <2>1, EmptySeq
<1> QED BY <1>1, <1>3, DevicesAssumption DEF NoDriver

LEMMA PathsAre ==
  ASSUME NEW name \in Paths
  PROVE  Len(name) \in Nat /\ DOMAIN name = 1 .. Len(name)
<1> DEFINE S == {name[k] : k \in DOMAIN name}
<1>1. name \in Seq(S)  BY DevicesAssumption DEF IsName
<1> HIDE DEF S
<1> QED BY <1>1

LEMMA FirstOfIs ==
  ASSUME NEW list \in Seq(Named), NEW fitting
  PROVE  FirstOf(list, fitting) = NoDriver \/ FirstOf(list, fitting) \in fitting \cap Named
<1> DEFINE places == {k \in DOMAIN list : list[k] \in fitting}
<1>1. CASE places = {}  BY <1>1 DEF FirstOf
<1>2. CASE places # {}
  <2>1. DOMAIN list = 1 .. Len(list) /\ Len(list) \in Nat
        /\ \A k \in 1 .. Len(list) : list[k] \in Named
    OBVIOUS
  <2>2. places \in SUBSET Nat  BY <2>1
  <2> DEFINE first == CHOOSE k \in places : \A j \in places : k <= j
  <2>3. \E k \in places : \A j \in places : k <= j
    <3> HIDE DEF places
    <3> QED BY <1>2, <2>2, LeastNumber
  <2>4. first \in places
    <3> HIDE DEF places
    <3> QED BY <2>3
  <2>5. FirstOf(list, fitting) = list[first]
    BY <1>2 DEF FirstOf
  <2>6. list[first] \in fitting /\ list[first] \in Named
    BY <2>1, <2>4
  <2> QED BY <2>5, <2>6
<1> QED BY <1>1, <1>2

\* What is left of a mount point are its first characters: all but a slash at
\* the end.
LEMMA MountPointIs ==
  ASSUME NEW d \in Named
  PROVE  /\ Len(MountPoint(d)) \in Nat /\ DOMAIN MountPoint(d) = 1 .. Len(MountPoint(d))
         /\ \A k \in 1 .. Len(MountPoint(d)) : k <= Len(d.name) /\ MountPoint(d)[k] = d.name[k]
         /\ \/ Len(MountPoint(d)) = Len(d.name)
            \/ Len(MountPoint(d)) = Len(d.name) - 1 /\ d.name[Len(d.name)] = "/"
<1> DEFINE n == Len(d.name)
           S == {d.name[k] : k \in DOMAIN d.name}
<1>1. n \in Nat \ {0} /\ DOMAIN d.name = 1 .. n  BY NamedAre
<1>2. CASE d.name[n] = "/"
  <2> DEFINE m == SubSeq(d.name, 1, n - 1)
  <2>1. MountPoint(d) = m  BY <1>2 DEF MountPoint
  <2>2. \A i \in 1 .. n - 1 : d.name[i] \in S  BY <1>1
  <2>3. /\ m \in Seq(S) /\ Len(m) = n - 1
        /\ \A i \in 1 .. n - 1 : m[i] = d.name[i]
    <3>1. 1 \in Int /\ n - 1 \in Int  BY <1>1
    <3> HIDE DEF S, n
    <3> QED BY <1>1, <2>2, <3>1, SubSeqProperties
  <2>4. DOMAIN m = 1 .. n - 1
    <3> HIDE DEF S, m, n
    <3> QED BY <2>3
  <2> HIDE DEF m
  <2> QED BY <1>1, <1>2, <2>1, <2>3, <2>4
<1>3. CASE d.name[n] # "/"
  <2>1. MountPoint(d) = d.name  BY <1>3 DEF MountPoint
  <2> QED BY <1>1, <2>1
<1> QED BY <1>2, <1>3

\* A name that starts with a mount point, up to the end of one of its parts, has
\* the parts of the mount point.
LEMMA PartsFound ==
  ASSUME NEW d \in Named, NEW name \in Paths,
         StartsWith(name, MountPoint(d)), EndsThere(name, Len(MountPoint(d))),
         NEW p \in Parts(d.name)
  PROVE  p \in Parts(name) /\ SubSeq(name, p[1], p[2]) = SubSeq(d.name, p[1], p[2])
<1> DEFINE m == MountPoint(d)
           a == p[1]
           b == p[2]
<1>1. /\ Len(m) \in Nat /\ DOMAIN m = 1 .. Len(m)
      /\ \A k \in 1 .. Len(m) : k <= Len(d.name) /\ m[k] = d.name[k]
      /\ \/ Len(m) = Len(d.name)
         \/ Len(m) = Len(d.name) - 1 /\ d.name[Len(d.name)] = "/"
  BY MountPointIs
<1>2. Len(d.name) \in Nat \ {0} /\ DOMAIN d.name = 1 .. Len(d.name)  BY NamedAre
<1>3. Len(name) \in Nat /\ DOMAIN name = 1 .. Len(name)  BY PathsAre
<1>4. /\ Len(name) >= Len(m) /\ \A k \in 1 .. Len(m) : name[k] = m[k]
      /\ Len(name) = Len(m) \/ name[Len(m) + 1] = "/"
  BY <1>1 DEF StartsWith, EndsThere
<1>5. p = <<a, b>> /\ a \in 1 .. Len(d.name) /\ b \in 1 .. Len(d.name) /\ IsPart(d.name, a, b)
  BY <1>2 DEF Parts
<1> HIDE DEF m, a, b
<1>6. a <= b /\ b <= Len(m)
  BY <1>1, <1>2, <1>5 DEF IsPart
<1>11. /\ a \in Nat /\ a >= 1 /\ b \in Nat
       /\ Len(m) \in Nat /\ Len(d.name) \in Nat /\ Len(name) \in Nat
       /\ Len(m) <= Len(d.name) /\ Len(m) <= Len(name)
  <2>1. a \in Nat /\ a >= 1 /\ b \in Nat  BY <1>2, <1>5
  <2>2. Len(m) \in Nat /\ Len(d.name) \in Nat /\ Len(name) \in Nat  BY <1>1, <1>2, <1>3
  <2>3. Len(m) <= Len(d.name)  BY <1>1, <1>2
  <2>4. Len(m) <= Len(name)  BY <1>4, <2>2
  <2> QED BY <2>1, <2>2, <2>3, <2>4
<1>7. \A k \in 1 .. Len(m) : name[k] = d.name[k]  BY <1>1, <1>4
<1>8. IsPart(name, a, b)
  <2>1. \A k \in a .. b : name[k] # "/"  BY <1>1, <1>5, <1>6, <1>7 DEF IsPart
  <2>2. a = 1 \/ name[a - 1] = "/"
    <3>1. a # 1 => a - 1 \in 1 .. Len(m)  BY <1>1, <1>2, <1>5, <1>6
    <3> QED BY <1>5, <1>7, <3>1 DEF IsPart
  <2>3. b = Len(name) \/ name[b + 1] = "/"
    <3>1. CASE b = Len(m)  BY <1>4, <3>1
    <3>2. CASE b # Len(m)
      <4>1. b + 1 \in 1 .. Len(m) /\ b # Len(d.name)  BY <1>6, <1>11, <3>2
      <4> QED BY <1>5, <1>7, <4>1 DEF IsPart
    <3> QED BY <3>1, <3>2
  <2> QED BY <1>6, <2>1, <2>2, <2>3 DEF IsPart
<1>9. p \in Parts(name)
  <2>1. a \in 1 .. Len(name) /\ b \in 1 .. Len(name)  BY <1>6, <1>11
  <2>2. p[1] = a /\ p[2] = b  BY DEF a, b
  <2> QED BY <1>3, <1>5, <1>8, <2>1, <2>2 DEF Parts
<1>10. SubSeq(name, a, b) = SubSeq(d.name, a, b)
  <2> DEFINE S == {d.name[k] : k \in DOMAIN d.name}
             x == SubSeq(name, a, b)
             y == SubSeq(d.name, a, b)
  <2>1. \A i \in a .. b : name[i] = d.name[i] /\ d.name[i] \in S
    BY <1>1, <1>2, <1>5, <1>6, <1>7
  <2>2. a \in Int /\ b \in Int  BY <1>2, <1>5
  <2> HIDE DEF S
  <2>3. \A i \in a .. b : name[i] \in S  BY <2>1
  <2>4. /\ x \in Seq(S) /\ Len(x) = b - a + 1
        /\ \A i \in 1 .. b - a + 1 : x[i] = name[a + i - 1]
    BY <1>6, <2>2, <2>3, SubSeqProperties
  <2>5. \A i \in a .. b : d.name[i] \in S  BY <2>1
  <2>6. /\ y \in Seq(S) /\ Len(y) = b - a + 1
        /\ \A i \in 1 .. b - a + 1 : y[i] = d.name[a + i - 1]
    BY <1>6, <2>2, <2>5, SubSeqProperties
  <2>7. \A i \in 1 .. Len(x) : x[i] = y[i]
    <3> SUFFICES ASSUME NEW i \in 1 .. b - a + 1 PROVE x[i] = y[i]  BY <2>4
    <3>1. a + i - 1 \in a .. b  BY <2>2
    <3> QED BY <2>1, <2>4, <2>6, <3>1
  <2> HIDE DEF x, y
  <2>8. Len(x) = Len(y)  BY <2>4, <2>6
  <2>9. x = y  BY <2>4, <2>6, <2>7, <2>8, SeqEqual
  <2> QED BY <2>9 DEF x, y
<1> QED BY <1>9, <1>10 DEF a, b

LEMMA InitDevs == DevInit => DevInv
BY DEF DevInit, DevInv, FoundByParts, Unasked

LEMMA RegKeeps ==
  ASSUME DevInv, NEW d \in Drivers, DevReg(d) \/ FsReg(d)
  PROVE  DevInv'
<1>1. path = << >> /\ dev = NoDriver /\ UNCHANGED <<path, dev, terminal, st_mode>>
  BY DEF DevInv, DevReg, FsReg
<1>2. alt_dev_list' \in Seq(Named) /\ alt_fs_list' \in Seq(Named)
  <2>1. d.name # << >> => <<d>> \in Seq(Named)  BY DEF Named
  <2>2. alt_dev_list \in Seq(Named) /\ alt_fs_list \in Seq(Named)  BY DEF DevInv
  <2>3. d.name # << >> => <<d>> \o alt_dev_list \in Seq(Named)
    BY <2>1, <2>2, ConcatProperties
  <2>4. d.name # << >> => <<d>> \o alt_fs_list \in Seq(Named)
    BY <2>1, <2>2, ConcatProperties
  <2> QED BY <2>2, <2>3, <2>4 DEF DevReg, FsReg
<1> QED BY <1>1, <1>2 DEF DevInv, FoundByParts

LEMMA FindKeeps ==
  ASSUME DevInv, NEW name \in Paths, Find(name)
  PROVE  DevInv'
<1>1. /\ path = << >> /\ dev = NoDriver /\ name # << >> /\ path' = name
      /\ terminal = Unasked /\ st_mode = Unasked
      /\ UNCHANGED <<alt_dev_list, alt_fs_list, terminal, st_mode>>
      /\ alt_dev_list \in Seq(Named) /\ alt_fs_list \in Seq(Named)
  BY DEF DevInv, Find
<1>2. FindDev(name) = NoDriver \/ (FindDev(name) \in Named /\ FindDev(name).name = name)
  BY <1>1, FirstOfIs DEF FindDev
<1>3. \/ FindFile(name) = NoDriver
      \/ /\ FindFile(name) \in Named /\ StartsWith(name, MountPoint(FindFile(name)))
         /\ EndsThere(name, Len(MountPoint(FindFile(name))))
  BY <1>1, FirstOfIs DEF FindFile
<1>4. dev' = IF FindDev(name) # NoDriver THEN FindDev(name) ELSE FindFile(name)
  BY DEF Find
<1>5. FoundByParts'
  <2> SUFFICES ASSUME dev' # NoDriver, dev'.name # name, NEW p \in Parts(dev'.name)
               PROVE  p \in Parts(name) /\ SubSeq(name, p[1], p[2]) = SubSeq(dev'.name, p[1], p[2])
    BY <1>1 DEF FoundByParts
  <2>1. dev' = FindFile(name) /\ FindFile(name) # NoDriver  BY <1>2, <1>4
  <2> QED BY <1>3, <2>1, PartsFound
<1>6. dev' # NoDriver => dev' \in Named  BY <1>2, <1>3, <1>4
<1> QED BY <1>1, <1>5, <1>6 DEF DevInv

LEMMA AskKeeps ==
  ASSUME DevInv, Fstat \/ Isatty
  PROVE  DevInv'
<1>1. dev # NoDriver /\ dev \in Named /\ UNCHANGED <<alt_dev_list, alt_fs_list, path, dev>>
  BY DEF DevInv, Fstat, Isatty
<1>2. Sure(dev) => FstatModes = {ModeOf(dev)}
  BY DEF Sure, FstatModes, ModeOf
<1>3. Sure(dev) => st_mode' \in {Unasked, ModeOf(dev)}
  BY <1>1, <1>2 DEF DevInv, Fstat, Isatty
<1>4. Sure(dev) => terminal' \in {Unasked, IF ModeOf(dev) = "_IFCHR" THEN "yes" ELSE "no"}
  <2>1. CASE Fstat  BY <1>1, <2>1 DEF DevInv, Fstat
  <2>2. CASE Isatty
    BY <1>2, <2>2 DEF Isatty, TerminalByDefault, ModeOf
  <2> QED BY <2>1, <2>2
<1> QED BY <1>1, <1>3, <1>4 DEF DevInv, FoundByParts, Sure, ModeOf

LEMMA DevKeeps == DevInv /\ [DevNext]_devVars => DevInv'
<1> SUFFICES ASSUME DevInv, [DevNext]_devVars PROVE DevInv'  OBVIOUS
<1>1. CASE UNCHANGED <<alt_dev_list, alt_fs_list, path, dev, terminal, st_mode>>
  BY <1>1 DEF DevInv, FoundByParts, Sure, ModeOf
<1>2. ASSUME Lseek \/ Ioctl \/ DevReads \/ DevWrites
      PROVE  UNCHANGED <<alt_dev_list, alt_fs_list, path, dev, terminal, st_mode>>
  BY <1>2 DEF Lseek, Ioctl, DevReads, DevWrites, Call
<1>3. CASE UNCHANGED devVars  BY <1>1, <1>3 DEF devVars
<1> QED BY <1>1, <1>2, <1>3, RegKeeps, FindKeeps, AskKeeps DEF DevNext

LEMMA DevHolds == DevInv => FoundByParts /\ TerminalsAgree
BY NamedAre DEF DevInv, TerminalsAgree, Sure, ModeOf, Unasked

---------------------------------------------------------------------------
(* Interrupts and critical sections *)

Runners == {"program", "handler"}
Handlers == Contexts \cup {Nothing}
CallSteps == {"read", "write", "handler", "context", "align", "extend", "leave"}
CallType == [does : CallSteps \cup {Nothing}, on : Lines \cup {0},
             arg : Handlers \cup {"on", "off"} \cup Sizes, saved : Seq(BOOLEAN),
             read : SUBSET Lines]

IrqTypes ==
  /\ pie \in BOOLEAN /\ ienable \in SUBSET Lines /\ raised \in SUBSET Lines
  /\ handlers \in [Lines -> Handlers] /\ contexts \in [Lines -> Handlers]
  /\ serving \in Lines \cup {NoLine}
  /\ call \in [Runners -> CallType]
  /\ heap_end \in Nat

\* A call that is not over has the interrupts off, was begun with them off if a
\* handler began it, and is nested once at most.
Section ==
  /\ Now.does \in CallSteps /\ ~pie
  /\ Len(Now.saved) \in {1, 2}
  /\ serving # NoLine => Now.saved[1] = FALSE
  /\ Len(Now.saved) = 2 => Now.saved[2] = FALSE
  /\ Now.does \in {"handler", "context"} => Len(Now.saved) = 1

\* Only the one that runs is in a call: the other has ended its own.
Sections ==
  /\ \A who \in Runners : who # Running => call[who] = Idle
  /\ serving # NoLine => ~pie
  /\ Now = Idle \/ Section

\* A line's handler and context belong together and are there while the line is
\* enabled, but for the line that a call is at work on.
LineWhole(i) ==
  \/ handlers[i] = contexts[i] /\ (i \in ienable => handlers[i] # Nothing)
  \/ i = Now.on /\ Now.does = "context"
  \/ i = Now.on /\ Now.does \in {"read", "write"} /\ Now.arg = "off" /\ handlers[i] = contexts[i]

LinesWhole ==
  /\ ienable = enabledFor /\ alt_irq_active = enabledFor
  /\ \A i \in Lines : LineWhole(i)
  /\ Now.does \in {"read", "write"} =>
       /\ Now.on \in Lines /\ Now.arg \in {"on", "off"}
       /\ Now.arg = "on" => handlers[Now.on] # Nothing
  /\ Now.does \in {"handler", "context"} => Now.on \in Lines /\ Now.arg \in Handlers
  /\ Now.does = "context" => handlers[Now.on] = Now.arg
  /\ Now.does = "write" => Now.read = alt_irq_active

\* A block that alt_sbrk may give, below the end of the heap.
Given(b, lo, len) ==
  /\ b = lo .. lo + len - 1 /\ len > 0 /\ lo % 4 = 0
  /\ lo + len <= heap_end

Heap ==
  /\ Now.does \in {"align", "extend"} => Now.arg \in Sizes
  /\ Now.does = "extend" => heap_end % 4 = 0
  /\ \A b \in blocks : \E lo \in Nat, len \in Nat : Given(b, lo, len)
  /\ \A b, c \in blocks : b # c => b \cap c = {}

IrqInv == IrqTypes /\ Sections /\ LinesWhole /\ Heap /\ CalledWhole

LEMMA LinesAre ==
  /\ Lines \subseteq Nat /\ NoLine \notin Lines
  /\ HeapLimit \in Nat /\ \A size \in Sizes : size \in Nat /\ size > 0
BY IrqAssumption DEF NoLine

LEMMA InitIrqs == IrqInit => IrqInv
<1> SUFFICES ASSUME IrqInit PROVE IrqInv  OBVIOUS
<1>1. /\ call = [who \in Runners |-> Idle] /\ Running = "program" /\ Now = Idle
  BY DEF IrqInit, Runners, Running, Now
<1>2. Idle \in CallType  BY DEF Idle, CallType, Handlers
<1>3. IrqTypes  BY <1>1, <1>2, LinesAre DEF IrqInit, IrqTypes, Handlers
<1>4. Sections  BY <1>1 DEF Sections, IrqInit
<1>5. LinesWhole  BY <1>1 DEF LinesWhole, LineWhole, IrqInit, Idle, Nothing
<1>6. Heap /\ CalledWhole  BY <1>1 DEF Heap, CalledWhole, IrqInit, Idle, Nothing
<1> QED BY <1>3, <1>4, <1>5, <1>6 DEF IrqInv

LEMMA RunningIs == Running \in Runners
BY DEF Running, Runners

\* A step of the call under way touches no other.
LEMMA Becoming ==
  ASSUME IrqTypes, Sections, NEW c \in CallType, Becomes(c), UNCHANGED serving
  PROVE  /\ Running' = Running /\ Now' = c
         /\ call' \in [Runners -> CallType]
         /\ \A who \in Runners : who # Running' => call'[who] = Idle
<1>1. Running' = Running  BY DEF Running
<1>2. call' = [call EXCEPT ![Running] = c] /\ call \in [Runners -> CallType]
  BY DEF Becomes, IrqTypes
<1>3. call'[Running] = c  BY <1>2, RunningIs
<1>4. \A who \in Runners : who # Running => call'[who] = call[who]  BY <1>2
<1> HIDE DEF Running
<1> QED BY <1>1, <1>2, <1>3, <1>4, RunningIs DEF Now, Sections

\* What the devices do, and a program that works for itself.
LEMMA DevicesRaise ==
  ASSUME IrqInv, raised' \in SUBSET Lines,
         UNCHANGED <<pie, ienable, alt_irq_active, handlers, contexts, serving, call, heap_end,
                     enabledFor, blocks, torn>>
  PROVE  IrqInv'
<1>1. Running' = Running /\ Now' = Now  BY DEF Running, Now
<1> QED BY <1>1 DEF IrqInv, IrqTypes, Sections, Section, LinesWhole, LineWhole, Heap, Given,
                    CalledWhole

LEMMA RestingWhole ==
  ASSUME IrqInv, Now = Idle, NEW i \in ienable
  PROVE  i \in Lines /\ handlers[i] = contexts[i] /\ handlers[i] # Nothing
BY DEF IrqInv, IrqTypes, LinesWhole, LineWhole, Idle, Nothing

\* The exception is entered, or goes on with another line, or returns.
LEMMA TurnsKeep ==
  ASSUME IrqInv, Dispatch \/ Resume
  PROVE  IrqInv'
<1>1. IrqTypes /\ Sections /\ LinesWhole /\ Heap /\ CalledWhole  BY DEF IrqInv
<1>2. Now = Idle
  <2>1. pie \/ ~Busy(Running)  BY DEF Dispatch, Resume
  <2> QED BY <1>1, <2>1 DEF Sections, Section, Busy, Now, CallSteps, Nothing
<1>3. \A who \in Runners : call[who] = Idle
  BY <1>1, <1>2 DEF Sections, Now
<1>4. UNCHANGED <<ienable, alt_irq_active, raised, handlers, contexts, call, heap_end, enabledFor,
                  blocks>>
  BY DEF Dispatch, Resume
<1>5. Now' = Idle /\ \A who \in Runners : call'[who] = Idle
  BY <1>3, <1>4 DEF Now, Running, Runners
<1>6. CASE Dispatch
  <2>1. ipending \in SUBSET Nat /\ ipending # {}
    BY <1>1, <1>6, LinesAre DEF Dispatch, ipending, IrqTypes
  <2>2. Min(ipending) \in ipending  BY <2>1, MinIs
  <2>3. Min(ipending) \in ienable  BY <2>2 DEF ipending
  <2>4. /\ Min(ipending) \in Lines
        /\ handlers[Min(ipending)] = contexts[Min(ipending)]
        /\ handlers[Min(ipending)] # Nothing
    BY <1>2, <2>3, RestingWhole
  <2>5. serving' \in Lines /\ pie' = FALSE /\ ~torn'
    <3>1. torn' = (torn \/ handlers[Min(ipending)] = Nothing
                   \/ handlers[Min(ipending)] # contexts[Min(ipending)])
      BY <1>6 DEF Dispatch
    <3>2. ~torn  BY <1>1 DEF CalledWhole
    <3>3. ~torn'  BY <2>4, <3>1, <3>2
    <3> QED BY <1>6, <2>4, <3>3 DEF Dispatch
  <2> QED BY <1>1, <1>2, <1>4, <1>5, <2>5
         DEF IrqInv, IrqTypes, Sections, LinesWhole, LineWhole, Heap, Given, CalledWhole
<1>7. CASE Resume
  <2>1. serving' = NoLine /\ pie' = TRUE /\ torn' = torn  BY <1>7 DEF Resume
  <2> QED BY <1>1, <1>2, <1>4, <1>5, <2>1
         DEF IrqInv, IrqTypes, Sections, LinesWhole, LineWhole, Heap, Given, CalledWhole
<1> QED BY <1>6, <1>7

\* What alt_irq_disable_all makes of a call.
LEMMA Entering ==
  ASSUME NEW c \in CallType, NEW word \in BOOLEAN
  PROVE  /\ [c EXCEPT !.saved = Append(@, word)] \in CallType
         /\ [c EXCEPT !.saved = Append(@, word)].saved = Append(c.saved, word)
         /\ Len(Append(c.saved, word)) = Len(c.saved) + 1
         /\ Append(c.saved, word)[Len(c.saved) + 1] = word
         /\ \A k \in 1 .. Len(c.saved) : Append(c.saved, word)[k] = c.saved[k]
<1>1. c.saved \in Seq(BOOLEAN)  BY DEF CallType
<1>2. /\ Append(c.saved, word) \in Seq(BOOLEAN)
      /\ Len(Append(c.saved, word)) = Len(c.saved) + 1
      /\ Append(c.saved, word)[Len(c.saved) + 1] = word
      /\ \A k \in 1 .. Len(c.saved) : Append(c.saved, word)[k] = c.saved[k]
  BY <1>1, AppendProperties
<1> DEFINE longer == Append(c.saved, word)
<1>3. longer \in Seq(BOOLEAN)  BY <1>2
<1>4. [c EXCEPT !.saved = longer] \in CallType /\ [c EXCEPT !.saved = longer].saved = longer
  <2> HIDE DEF longer
  <2> QED BY <1>3 DEF CallType
<1> QED BY <1>2, <1>4

\* A call begins.
LEMMA BeginsKeeps ==
  ASSUME IrqInv, NEW does \in {"read", "handler", "align"}, NEW i \in Lines \cup {0},
         NEW arg \in Handlers \cup {"on", "off"} \cup Sizes, Begins(does, i, arg),
         does = "read" => i \in Lines /\ arg \in {"on", "off"} /\ handlers[i] # Nothing,
         does = "handler" => i \in Lines /\ arg \in Handlers,
         does = "align" => arg \in Sizes
  PROVE  IrqInv'
<1>1. IrqTypes /\ Sections /\ LinesWhole /\ Heap /\ CalledWhole  BY DEF IrqInv
<1>2. UNCHANGED <<ienable, alt_irq_active, raised, handlers, contexts, serving, heap_end,
                  enabledFor, blocks, torn>>
  BY DEF Begins
<1>3. Now = Idle
  <2>1. ~Busy(Running)  BY DEF Begins
  <2> QED BY <1>1, <2>1 DEF Sections, Section, Busy, Now, CallSteps, Nothing
<1> DEFINE new == [does |-> does, on |-> i, arg |-> arg, saved |-> << >>, read |-> {}]
           c == [new EXCEPT !.saved = Append(@, pie)]
<1>4. pie' = FALSE /\ Becomes(c)
  BY DEF Begins, Enter, Masked
<1>5. new \in CallType /\ pie \in BOOLEAN /\ does \in CallSteps
  BY <1>1 DEF IrqTypes, CallSteps, CallType
<1>6. /\ c \in CallType /\ c.does = does /\ c.on = i /\ c.arg = arg /\ c.read = {}
      /\ Len(c.saved) = 1 /\ c.saved[1] = pie
  <2>1. new.saved = << >> /\ Len(new.saved) = 0  OBVIOUS
  <2>2. c \in CallType /\ Len(c.saved) = 1 /\ c.saved[1] = pie
    <3>1. /\ c \in CallType /\ c.saved = Append(new.saved, pie)
          /\ Len(Append(new.saved, pie)) = Len(new.saved) + 1
          /\ Append(new.saved, pie)[Len(new.saved) + 1] = pie
      <4> HIDE DEF new
      <4> QED BY <1>5, Entering
    <3>2. Len(new.saved) + 1 = 1  BY <2>1
    <3> HIDE DEF new, c
    <3> QED BY <3>1, <3>2
  <2>3. c.does = new.does /\ c.on = new.on /\ c.arg = new.arg /\ c.read = new.read
    <3> HIDE DEF new
    <3> QED BY <1>5 DEF CallType
  <2> QED BY <2>2, <2>3
<1> HIDE DEF c
<1>7. /\ Running' = Running /\ Now' = c /\ call' \in [Runners -> CallType]
      /\ \A who \in Runners : who # Running' => call'[who] = Idle
  BY <1>1, <1>2, <1>4, <1>6, Becoming
<1>8. IrqTypes'  BY <1>1, <1>2, <1>4, <1>7 DEF IrqTypes
<1>9. Section'
  <2>1. Len(c.saved) = 1 /\ c.saved[1] = pie  BY <1>6
  <2>3. c.does \in CallSteps  BY <1>5, <1>6
  <2>2. serving # NoLine => pie = FALSE  BY <1>1 DEF Sections, IrqTypes
  <2> QED BY <1>2, <1>4, <1>7, <2>1, <2>2, <2>3 DEF Section
<1>10. Sections'  BY <1>1, <1>2, <1>4, <1>7, <1>9 DEF Sections
<1>11. LinesWhole'
  <2>1. \A j \in Lines : handlers[j] = contexts[j] /\ (j \in ienable => handlers[j] # Nothing)
    BY <1>1, <1>3 DEF LinesWhole, LineWhole, Idle, Nothing
  <2> QED BY <1>1, <1>2, <1>6, <1>7, <2>1 DEF LinesWhole, LineWhole
<1>12. Heap'  BY <1>1, <1>2, <1>6, <1>7 DEF Heap, Given
<1>13. CalledWhole'  BY <1>1, <1>2 DEF CalledWhole
<1> QED BY <1>8, <1>10, <1>11, <1>12, <1>13 DEF IrqInv

\* A step inside a section that leaves the interrupts alone, to c.
LEMMA SectionGoesOn ==
  ASSUME IrqInv, Section, NEW c \in CallType, Becomes(c), UNCHANGED <<pie, serving>>,
         c.saved = Now.saved, c.does \in CallSteps,
         c.does \in {"handler", "context"} => Now.does \in {"handler", "context"}
  PROVE  /\ Now' = c /\ Sections' /\ call' \in [Runners -> CallType]
<1>1. IrqTypes /\ Sections  BY DEF IrqInv
<1>2. /\ Running' = Running /\ Now' = c /\ call' \in [Runners -> CallType]
      /\ \A who \in Runners : who # Running' => call'[who] = Idle
  BY <1>1, Becoming
<1>3. Section'  BY <1>2 DEF Section
<1> QED BY <1>1, <1>2, <1>3 DEF Sections

LEMMA NowIs ==
  ASSUME IrqInv
  PROVE  Now \in CallType /\ (Now.does # Nothing => Section)
<1>1. Now \in CallType  BY RunningIs DEF IrqInv, IrqTypes, Now
<1> QED BY <1>1 DEF IrqInv, Sections, Idle, Nothing

LEMMA LinesKeep ==
  ASSUME IrqInv, ReadActive \/ WriteActive \/ SetHandler
  PROVE  IrqInv'
<1>1. IrqTypes /\ Sections /\ LinesWhole /\ Heap /\ CalledWhole  BY DEF IrqInv
<1>2. Now \in CallType /\ Section
  BY NowIs DEF ReadActive, WriteActive, SetHandler, Nothing
<1>3. UNCHANGED <<pie, raised, contexts, serving, heap_end, blocks, torn>>
  BY DEF ReadActive, WriteActive, SetHandler
<1>4. CASE ReadActive
  <2> DEFINE c == [Now EXCEPT !.does = "write", !.read = alt_irq_active]
  <2>1. /\ Becomes(c) /\ Now.does = "read"
        /\ UNCHANGED <<ienable, alt_irq_active, handlers, enabledFor>>
    BY <1>4 DEF ReadActive
  <2>2. /\ c \in CallType /\ c.does = "write" /\ c.read = alt_irq_active
        /\ c.on = Now.on /\ c.arg = Now.arg /\ c.saved = Now.saved
    BY <1>1, <1>2 DEF CallType, CallSteps, IrqTypes, LinesWhole
  <2> HIDE DEF c
  <2>3. c.does \in CallSteps  BY <2>2 DEF CallSteps
  <2>4. Now' = c /\ Sections' /\ call' \in [Runners -> CallType]
    BY <1>2, <1>3, <2>1, <2>2, <2>3, SectionGoesOn
  <2>5. LinesWhole'  BY <1>1, <1>3, <2>1, <2>2, <2>4 DEF LinesWhole, LineWhole
  <2>6. Heap'  BY <1>1, <1>3, <2>2, <2>4 DEF Heap, Given
  <2> QED BY <1>1, <1>3, <2>1, <2>4, <2>5, <2>6 DEF IrqInv, IrqTypes, CalledWhole
<1>5. CASE WriteActive
  <2> DEFINE c == [Now EXCEPT !.does = "leave"]
  <2>1. /\ Becomes(c) /\ Now.does = "write" /\ UNCHANGED handlers
        /\ alt_irq_active' = IF Now.arg = "on" THEN Now.read \cup {Now.on} ELSE Now.read \ {Now.on}
        /\ ienable' = alt_irq_active'
        /\ enabledFor' = IF Now.arg = "on" THEN enabledFor \cup {Now.on}
                         ELSE enabledFor \ {Now.on}
    BY <1>5 DEF WriteActive
  <2>2. /\ c \in CallType /\ c.does = "leave"
        /\ c.on = Now.on /\ c.arg = Now.arg /\ c.saved = Now.saved
    BY <1>2 DEF CallType, CallSteps
  <2> HIDE DEF c
  <2>3. c.does \in CallSteps  BY <2>2 DEF CallSteps
  <2>4. Now' = c /\ Sections' /\ call' \in [Runners -> CallType]
    BY <1>2, <1>3, <2>1, <2>2, <2>3, SectionGoesOn
  <2>5. /\ Now.on \in Lines /\ Now.arg \in {"on", "off"} /\ Now.read = enabledFor
        /\ Now.arg = "on" => handlers[Now.on] # Nothing
        /\ ienable = enabledFor
    BY <1>1, <2>1 DEF LinesWhole
  <2>6. ienable' \in SUBSET Lines /\ ienable' = enabledFor' /\ alt_irq_active' = enabledFor'
    BY <1>1, <2>1, <2>5 DEF IrqTypes
  <2>7. \A i \in Lines : LineWhole(i)'
    <3> SUFFICES ASSUME NEW i \in Lines PROVE LineWhole(i)'  OBVIOUS
    <3>1. handlers[i] = contexts[i]  BY <1>1, <2>1 DEF LinesWhole, LineWhole
    <3>2. CASE i = Now.on  BY <1>3, <2>1, <2>5, <3>1, <3>2 DEF LineWhole
    <3>3. CASE i # Now.on
      <4>1. i \in ienable => handlers[i] # Nothing
        BY <1>1, <2>1, <3>3 DEF LinesWhole, LineWhole
      <4> QED BY <1>3, <2>1, <2>5, <3>1, <3>3, <4>1 DEF LineWhole
    <3> QED BY <3>2, <3>3
  <2>8. LinesWhole'  BY <2>2, <2>4, <2>6, <2>7 DEF LinesWhole
  <2>9. Heap'  BY <1>1, <1>3, <2>2, <2>4 DEF Heap, Given
  <2> QED BY <1>1, <1>3, <2>1, <2>4, <2>6, <2>8, <2>9 DEF IrqInv, IrqTypes, CalledWhole
<1>6. CASE SetHandler
  <2> DEFINE c == [Now EXCEPT !.does = "context"]
  <2>1. /\ Becomes(c) /\ Now.does = "handler"
        /\ handlers' = [handlers EXCEPT ![Now.on] = Now.arg]
        /\ UNCHANGED <<ienable, alt_irq_active, enabledFor>>
    BY <1>6 DEF SetHandler
  <2>2. /\ c \in CallType /\ c.does = "context"
        /\ c.on = Now.on /\ c.arg = Now.arg /\ c.saved = Now.saved
    BY <1>2 DEF CallType, CallSteps
  <2> HIDE DEF c
  <2>3. c.does \in CallSteps  BY <2>2 DEF CallSteps
  <2>4. Now' = c /\ Sections' /\ call' \in [Runners -> CallType]
    BY <1>2, <1>3, <2>1, <2>2, <2>3, SectionGoesOn
  <2>5. Now.on \in Lines /\ Now.arg \in Handlers  BY <1>1, <2>1 DEF LinesWhole
  <2>6. /\ handlers' \in [Lines -> Handlers] /\ handlers'[Now.on] = Now.arg
        /\ \A i \in Lines : i # Now.on => handlers'[i] = handlers[i]
    BY <1>1, <2>1, <2>5 DEF IrqTypes
  <2>7. LinesWhole'
    BY <1>1, <1>3, <2>1, <2>2, <2>4, <2>5, <2>6 DEF LinesWhole, LineWhole
  <2>8. Heap'  BY <1>1, <1>3, <2>2, <2>4 DEF Heap, Given
  <2> QED BY <1>1, <1>3, <2>1, <2>4, <2>6, <2>7, <2>8 DEF IrqInv, IrqTypes, CalledWhole
<1> QED BY <1>4, <1>5, <1>6

LEMMA SetContextKeeps ==
  ASSUME IrqInv, SetContext
  PROVE  IrqInv'
<1>1. IrqTypes /\ Sections /\ LinesWhole /\ Heap /\ CalledWhole  BY DEF IrqInv
<1>2. Now \in CallType /\ Section /\ Now.does = "context"
  BY NowIs DEF SetContext, Nothing
<1>3. UNCHANGED <<ienable, alt_irq_active, raised, handlers, serving, heap_end, enabledFor,
                  blocks, torn>>
  BY DEF SetContext
<1> DEFINE on == IF Now.arg = Nothing THEN "off" ELSE "on"
           new == [Now EXCEPT !.does = "read", !.arg = on]
           c == [new EXCEPT !.saved = Append(@, pie)]
<1>4. pie' = FALSE /\ Becomes(c) /\ contexts' = [contexts EXCEPT ![Now.on] = Now.arg]
  BY DEF SetContext, Enter, Masked
<1>5. /\ new \in CallType /\ new.does = "read" /\ new.on = Now.on /\ new.arg = on
      /\ new.saved = Now.saved
  BY <1>2 DEF CallType, CallSteps
<1>6. pie \in BOOLEAN /\ pie = FALSE /\ Len(new.saved) = 1
  BY <1>1, <1>2, <1>5 DEF IrqTypes, Section
<1>7. /\ c \in CallType /\ c.saved = Append(new.saved, pie)
      /\ Len(Append(new.saved, pie)) = Len(new.saved) + 1
      /\ Append(new.saved, pie)[Len(new.saved) + 1] = pie
      /\ \A k \in 1 .. Len(new.saved) : Append(new.saved, pie)[k] = new.saved[k]
  <2> HIDE DEF new
  <2> QED BY <1>5, <1>6, Entering
<1>8. c.does = "read" /\ c.on = Now.on /\ c.arg = on
  <2>1. c.does = new.does /\ c.on = new.on /\ c.arg = new.arg
    <3> HIDE DEF new
    <3> QED BY <1>5 DEF CallType
  <2> HIDE DEF c, new
  <2> QED BY <1>5, <2>1
<1> HIDE DEF c, new
<1>9. Len(c.saved) = 2 /\ c.saved[2] = pie /\ c.saved[1] = Now.saved[1]
  <2>1. Len(new.saved) + 1 = 2 /\ 1 \in 1 .. Len(new.saved)  BY <1>6
  <2> QED BY <1>5, <1>7, <2>1
<1>10. /\ Running' = Running /\ Now' = c /\ call' \in [Runners -> CallType]
       /\ \A who \in Runners : who # Running' => call'[who] = Idle
  BY <1>1, <1>3, <1>4, <1>7, Becoming
<1>11. Now.on \in Lines /\ Now.arg \in Handlers /\ handlers[Now.on] = Now.arg
  BY <1>1, <1>2 DEF LinesWhole
<1>12. /\ contexts' \in [Lines -> Handlers] /\ contexts'[Now.on] = Now.arg
       /\ \A i \in Lines : i # Now.on => contexts'[i] = contexts[i]
  BY <1>1, <1>4, <1>11 DEF IrqTypes
<1>13. IrqTypes'  BY <1>1, <1>3, <1>4, <1>10, <1>12 DEF IrqTypes
<1>14. Section'
  BY <1>2, <1>3, <1>4, <1>6, <1>8, <1>9, <1>10 DEF Section, CallSteps
<1>15. Sections'  BY <1>4, <1>10, <1>14 DEF Sections
<1>16. LinesWhole'
  <2>1. on \in {"on", "off"} /\ (on = "on" => handlers[Now.on] # Nothing)
        /\ (on = "off" => handlers[Now.on] = Nothing)
    BY <1>11
  <2>2. \A i \in Lines : LineWhole(i)'
    <3> SUFFICES ASSUME NEW i \in Lines PROVE LineWhole(i)'  OBVIOUS
    <3> HIDE DEF on
    <3>1. CASE i = Now.on
      BY <1>3, <1>8, <1>10, <1>11, <1>12, <2>1, <3>1 DEF LineWhole
    <3>2. CASE i # Now.on
      BY <1>1, <1>2, <1>3, <1>12, <3>2 DEF LinesWhole, LineWhole
    <3> QED BY <3>1, <3>2
  <2> HIDE DEF on
  <2> QED BY <1>1, <1>3, <1>8, <1>10, <1>11, <2>1, <2>2 DEF LinesWhole
<1>17. Heap'  BY <1>1, <1>3, <1>8, <1>10 DEF Heap, Given
<1> QED BY <1>1, <1>3, <1>13, <1>15, <1>16, <1>17 DEF IrqInv, CalledWhole

\* Rounding up to whole words.
LEMMA RoundedUp ==
  ASSUME NEW n \in Nat
  PROVE  /\ (n + 3) - ((n + 3) % 4) \in Nat /\ (n + 3) - ((n + 3) % 4) >= n
         /\ ((n + 3) - ((n + 3) % 4)) % 4 = 0
OBVIOUS

LEMMA AlignKeeps ==
  ASSUME IrqInv, Align
  PROVE  IrqInv'
<1>1. IrqTypes /\ Sections /\ LinesWhole /\ Heap /\ CalledWhole  BY DEF IrqInv
<1>2. Now \in CallType /\ Section /\ Now.does = "align"
  BY NowIs DEF Align, Nothing
<1>3. UNCHANGED <<pie, ienable, alt_irq_active, raised, handlers, contexts, serving, enabledFor,
                  blocks, torn>>
  BY DEF Align
<1> DEFINE c == [Now EXCEPT !.does = "extend"]
<1>4. Becomes(c) /\ heap_end' = (heap_end + 3) - ((heap_end + 3) % 4)  BY DEF Align
<1>5. /\ c \in CallType /\ c.does = "extend"
      /\ c.on = Now.on /\ c.arg = Now.arg /\ c.saved = Now.saved
  BY <1>2 DEF CallType, CallSteps
<1> HIDE DEF c
<1>6. c.does \in CallSteps  BY <1>5 DEF CallSteps
<1>7. Now' = c /\ Sections' /\ call' \in [Runners -> CallType]
  BY <1>2, <1>3, <1>4, <1>5, <1>6, SectionGoesOn
<1>8. heap_end \in Nat  BY <1>1 DEF IrqTypes
<1>9. heap_end' \in Nat /\ heap_end' >= heap_end /\ heap_end' % 4 = 0
  BY <1>4, <1>8, RoundedUp
<1>10. LinesWhole'  BY <1>1, <1>2, <1>3, <1>5, <1>7 DEF LinesWhole, LineWhole
<1>11. Heap'
  <2>1. \A b \in blocks : \E lo \in Nat, len \in Nat : Given(b, lo, len)'
    <3> SUFFICES ASSUME NEW b \in blocks
                 PROVE  \E lo \in Nat, len \in Nat : Given(b, lo, len)'
      OBVIOUS
    <3>1. PICK lo \in Nat, len \in Nat : Given(b, lo, len)  BY <1>1 DEF Heap
    <3>2. lo + len <= heap_end'  BY <1>8, <1>9, <3>1 DEF Given
    <3>3. Given(b, lo, len)'  BY <3>1, <3>2 DEF Given
    <3> QED BY <3>3
  <2> QED BY <1>1, <1>2, <1>3, <1>5, <1>7, <1>9, <2>1 DEF Heap
<1> QED BY <1>1, <1>3, <1>7, <1>9, <1>10, <1>11 DEF IrqInv, IrqTypes, CalledWhole

LEMMA ExtendKeeps ==
  ASSUME IrqInv, Extend
  PROVE  IrqInv'
<1>1. IrqTypes /\ Sections /\ LinesWhole /\ Heap /\ CalledWhole  BY DEF IrqInv
<1>2. Now \in CallType /\ Section /\ Now.does = "extend"
  BY NowIs DEF Extend, Nothing
<1>3. UNCHANGED <<pie, ienable, alt_irq_active, raised, handlers, contexts, serving, enabledFor,
                  torn>>
  BY DEF Extend
<1> DEFINE c == [Now EXCEPT !.does = "leave"]
           b == heap_end .. heap_end + Now.arg - 1
<1>4. /\ Becomes(c)
      /\ \/ UNCHANGED <<blocks, heap_end>>
         \/ /\ heap_end + Now.arg <= HeapLimit /\ heap_end' = heap_end + Now.arg
            /\ blocks' = blocks \cup {b}
  BY DEF Extend, Fits
<1>5. /\ c \in CallType /\ c.does = "leave"
      /\ c.on = Now.on /\ c.arg = Now.arg /\ c.saved = Now.saved
  BY <1>2 DEF CallType, CallSteps
<1> HIDE DEF c
<1>6. c.does \in CallSteps  BY <1>5 DEF CallSteps
<1>7. Now' = c /\ Sections' /\ call' \in [Runners -> CallType]
  BY <1>2, <1>3, <1>4, <1>5, <1>6, SectionGoesOn
<1>8. /\ heap_end \in Nat /\ Now.arg \in Nat /\ Now.arg > 0 /\ HeapLimit \in Nat
      /\ heap_end % 4 = 0
  BY <1>1, <1>2, LinesAre DEF IrqTypes, Heap
<1>9. LinesWhole'  BY <1>1, <1>2, <1>3, <1>5, <1>7 DEF LinesWhole, LineWhole
<1>10. CASE UNCHANGED <<blocks, heap_end>>
  <2>1. Heap'  BY <1>1, <1>5, <1>7, <1>10 DEF Heap, Given
  <2> QED BY <1>1, <1>3, <1>7, <1>9, <1>10, <2>1 DEF IrqInv, IrqTypes, CalledWhole
<1>11. CASE /\ heap_end + Now.arg <= HeapLimit /\ heap_end' = heap_end + Now.arg
            /\ blocks' = blocks \cup {b}
  <2>1. heap_end' \in Nat /\ heap_end' >= heap_end  BY <1>8, <1>11
  <2> HIDE DEF b
  <2>2. \A d \in {b} : \E lo \in Nat, len \in Nat : Given(d, lo, len)'
    <3> SUFFICES ASSUME NEW d \in {b} PROVE \E lo \in Nat, len \in Nat : Given(d, lo, len)'
      OBVIOUS
    <3>1. PICK lo \in Nat, len \in Nat : lo = heap_end /\ len = Now.arg  BY <1>8
    <3>2. d = lo .. lo + len - 1  BY <3>1 DEF b
    <3>3. Given(d, lo, len)'  BY <1>8, <1>11, <3>1, <3>2 DEF Given
    <3> QED BY <3>3
  <2>3. \A d \in blocks : \E lo \in Nat, len \in Nat : Given(d, lo, len)'
    <3> SUFFICES ASSUME NEW d \in blocks
                 PROVE  \E lo \in Nat, len \in Nat : Given(d, lo, len)'
      OBVIOUS
    <3>1. PICK lo \in Nat, len \in Nat : Given(d, lo, len)  BY <1>1 DEF Heap
    <3>2. lo + len <= heap_end'  BY <1>8, <2>1, <3>1 DEF Given
    <3>3. Given(d, lo, len)'  BY <3>1, <3>2 DEF Given
    <3> QED BY <3>3
  <2>4. \A d \in blocks : b \cap d = {}
    <3> SUFFICES ASSUME NEW d \in blocks, NEW x \in b, x \in d PROVE FALSE
      OBVIOUS
    <3>1. PICK lo \in Nat, len \in Nat : Given(d, lo, len)  BY <1>1 DEF Heap
    <3>2. x \in Int /\ x < lo + len /\ lo + len <= heap_end  BY <3>1 DEF Given
    <3> QED BY <1>8, <3>2 DEF b
  <2>5. \A d \in blocks' : \E lo \in Nat, len \in Nat : Given(d, lo, len)'
    <3> SUFFICES ASSUME NEW d \in blocks'
                 PROVE  \E lo \in Nat, len \in Nat : Given(d, lo, len)'
      OBVIOUS
    <3>1. d \in blocks \/ d \in {b}  BY <1>11
    <3> QED BY <2>2, <2>3, <3>1
  <2>6. \A d, e \in blocks' : d # e => d \cap e = {}
    BY <1>1, <1>11, <2>4 DEF Heap
  <2>7. Heap'  BY <1>5, <1>7, <2>5, <2>6 DEF Heap
  <2> QED BY <1>1, <1>3, <1>7, <1>9, <2>1, <2>7 DEF IrqInv, IrqTypes, CalledWhole
<1> QED BY <1>4, <1>10, <1>11

LEMMA LeaveKeeps ==
  ASSUME IrqInv, LeaveSection
  PROVE  IrqInv'
<1>1. IrqTypes /\ Sections /\ LinesWhole /\ Heap /\ CalledWhole  BY DEF IrqInv
<1>2. Now \in CallType /\ Section /\ Now.does = "leave"
  BY NowIs DEF LeaveSection, Nothing
<1>3. UNCHANGED <<ienable, alt_irq_active, raised, handlers, contexts, serving, heap_end,
                  enabledFor, blocks, torn>>
  BY DEF LeaveSection
<1>4. Now.saved \in Seq(BOOLEAN)  BY <1>2 DEF CallType
<1>5. pie' = Last(Now.saved)  BY DEF LeaveSection, Leave, Restored
<1>6. \A i \in Lines : handlers[i] = contexts[i] /\ (i \in ienable => handlers[i] # Nothing)
  BY <1>1, <1>2 DEF LinesWhole, LineWhole
<1>7. CASE Len(Now.saved) = 1
  <2>1. Becomes(Idle)  BY <1>7 DEF LeaveSection, Leave
  <2>2. Idle \in CallType  BY DEF Idle, CallType, Handlers
  <2>3. /\ Running' = Running /\ Now' = Idle /\ call' \in [Runners -> CallType]
        /\ \A who \in Runners : who # Running' => call'[who] = Idle
    BY <1>1, <1>3, <2>1, <2>2, Becoming
  <2>4. Last(Now.saved) = Now.saved[1] /\ Now.saved[1] \in BOOLEAN  BY <1>4, <1>7 DEF Last
  <2>5. pie' \in BOOLEAN  BY <1>5, <2>4
  <2>6. serving' # NoLine => ~pie'  BY <1>2, <1>3, <1>5, <2>4 DEF Section
  <2>7. IrqTypes'  BY <1>1, <1>3, <2>3, <2>5 DEF IrqTypes
  <2>8. Sections'  BY <2>3, <2>6 DEF Sections
  <2>9. LinesWhole'
    BY <1>1, <1>3, <1>6, <2>3 DEF LinesWhole, LineWhole, Idle, Nothing
  <2>10. Heap'  BY <1>1, <1>3, <2>3 DEF Heap, Given, Idle, Nothing
  <2> QED BY <1>1, <1>3, <2>7, <2>8, <2>9, <2>10 DEF IrqInv, CalledWhole
<1>8. CASE Len(Now.saved) = 2
  <2> DEFINE rest == Front(Now.saved)
             c == [Now EXCEPT !.saved = rest]
  <2>1. Becomes(c)  BY <1>8 DEF LeaveSection, Leave
  <2>2. Front(Now.saved) \in Seq(BOOLEAN) /\ Len(Front(Now.saved)) = 1
        /\ Front(Now.saved)[1] = Now.saved[1]
    BY <1>4, <1>8 DEF Front
  <2>3. /\ c \in CallType /\ c.saved = rest
        /\ c.does = Now.does /\ c.on = Now.on /\ c.arg = Now.arg /\ c.read = Now.read
    <3>1. rest \in Seq(BOOLEAN)  BY <2>2
    <3> HIDE DEF rest
    <3> QED BY <1>2, <3>1 DEF CallType
  <2>4. Len(c.saved) = 1 /\ c.saved[1] = Now.saved[1] /\ c.does = "leave"
    <3> HIDE DEF c
    <3> QED BY <1>2, <2>2, <2>3
  <2> HIDE DEF c
  <2>5. /\ Running' = Running /\ Now' = c /\ call' \in [Runners -> CallType]
        /\ \A who \in Runners : who # Running' => call'[who] = Idle
    BY <1>1, <1>3, <2>1, <2>3, Becoming
  <2>6. Last(Now.saved) = Now.saved[2]  BY <1>4, <1>8 DEF Last
  <2>7. pie' = FALSE  BY <1>2, <1>5, <1>8, <2>6 DEF Section
  <2>8. IrqTypes'  BY <1>1, <1>3, <2>5, <2>7 DEF IrqTypes
  <2>9. Section'  BY <1>2, <1>3, <2>4, <2>5, <2>7 DEF Section, CallSteps
  <2>10. Sections'  BY <2>5, <2>7, <2>9 DEF Sections
  <2>11. LinesWhole'
    BY <1>1, <1>3, <1>6, <2>4, <2>5 DEF LinesWhole, LineWhole
  <2>12. Heap'  BY <1>1, <1>3, <2>4, <2>5 DEF Heap, Given
  <2> QED BY <1>1, <1>3, <2>8, <2>10, <2>11, <2>12 DEF IrqInv, CalledWhole
<1> QED BY <1>2, <1>7, <1>8 DEF Section

LEMMA IrqKeeps == IrqInv /\ [IrqNext]_irqVars => IrqInv'
<1> SUFFICES ASSUME IrqInv, [IrqNext]_irqVars PROVE IrqInv'  OBVIOUS
<1>1. raised \in SUBSET Lines /\ serving \in Lines \cup {NoLine}  BY DEF IrqInv, IrqTypes
<1>2. ASSUME NEW i \in Lines, Raise(i) PROVE IrqInv'
  <2>1. raised' \in SUBSET Lines  BY <1>1, <1>2 DEF Raise
  <2> QED BY <1>2, <2>1, DevicesRaise DEF Raise
<1>3. CASE Serve
  <2>1. raised' \in SUBSET Lines  BY <1>1, <1>3 DEF Serve
  <2> QED BY <1>3, <2>1, DevicesRaise DEF Serve
<1>4. ASSUME NEW i \in Lines, NEW to \in {"on", "off"}, Switch(i, to) PROVE IrqInv'
  BY <1>4, BeginsKeeps DEF Switch
<1>5. ASSUME NEW i \in Lines, NEW c \in Contexts \cup {Nothing}, Register(i, c) PROVE IrqInv'
  BY <1>5, BeginsKeeps DEF Register, Handlers
<1>6. ASSUME NEW size \in Sizes, Sbrk(size) PROVE IrqInv'
  <2> DEFINE i == IF serving = NoLine THEN 0 ELSE serving
  <2>1. i \in Lines \cup {0} /\ Begins("align", i, size)  BY <1>1, <1>6 DEF Sbrk
  <2> HIDE DEF i
  <2> QED BY <2>1, BeginsKeeps
<1>7. CASE UNCHANGED irqVars
  <2>1. Running' = Running /\ Now' = Now  BY <1>7 DEF Running, Now, irqVars
  <2> QED BY <1>7, <2>1 DEF irqVars, IrqInv, IrqTypes, Sections, Section, LinesWhole, LineWhole,
                            Heap, Given, CalledWhole
<1> QED BY <1>2, <1>3, <1>4, <1>5, <1>6, <1>7, TurnsKeep, LinesKeep, SetContextKeeps, AlignKeeps,
           ExtendKeeps, LeaveKeeps DEF IrqNext, InSection

\* What the invariant is for.
LEMMA IrqHolds == IrqInv => EnabledAsMeant /\ CalledWhole /\ MaskHolds /\ BlocksApart
<1> SUFFICES ASSUME IrqInv PROVE EnabledAsMeant /\ CalledWhole /\ MaskHolds /\ BlocksApart
  OBVIOUS
<1>1. IrqTypes /\ Sections /\ LinesWhole /\ Heap /\ CalledWhole  BY DEF IrqInv
<1>2. EnabledAsMeant  BY <1>1 DEF EnabledAsMeant, LinesWhole
<1>3. MaskHolds
  <2>1. call["program"].saved # << >> => Running = "program"
    BY <1>1 DEF Sections, Idle, Runners
  <2>2. Running = "program" => serving = NoLine  BY DEF Running
  <2>3. call["program"].saved # << >> => ~pie
    BY <1>1, <2>1 DEF Sections, Section, Now, Idle
  <2> QED BY <1>1, <2>1, <2>2, <2>3 DEF MaskHolds, Sections
<1>4. BlocksApart
  <2>1. ASSUME NEW b \in blocks PROVE Min(b) % 4 = 0
    <3>1. PICK lo \in Nat, len \in Nat : Given(b, lo, len)  BY <1>1 DEF Heap
    <3>2. b = lo .. lo + len - 1 /\ len > 0  BY <3>1 DEF Given
    <3>3. Min(b) = lo
      <4>1. lo \in b /\ \A n \in b : lo <= n  BY <3>2
      <4>2. \A m \in b : (\A n \in b : m <= n) => m = lo  BY <3>2
      <4> QED BY <4>1, <4>2 DEF Min
    <3> QED BY <3>1, <3>3 DEF Given
  <2> QED BY <1>1, <2>1 DEF BlocksApart, Heap
<1> QED BY <1>1, <1>2, <1>3, <1>4

---------------------------------------------------------------------------
(* Exceptions *)

AtPlaces == {"program", "test", "unknown", "result", "exit"}
FrameType == [at : AtPlaces, estatus : BOOLEAN, ea : Int, next : Int, result : {REISSUE, SKIP}]

ExcTypes ==
  /\ excPc \in Nat /\ excPc >= 1 /\ excPie \in BOOLEAN
  /\ executed \in Seq(Nat)
  /\ frame \in FrameType

\* ea is past the instruction that the processor stopped at; whether it is next
\* again or the one after it depends on the place in the code.
Framed ==
  /\ frame.at # "program" => frame.ea = excPc + 1
  /\ frame.at = "test" => frame.next = excPc
  /\ frame.at \in {"unknown", "result"} => frame.next = excPc + 1
  /\ frame.at = "exit" => frame.next \in {excPc, excPc + 1}

\* The instructions before excPc are executed or a handler was called for them;
\* for excPc itself too, once it is going to be left out.
CountedOff ==
  /\ \A k \in 1 .. Len(executed) - 1 : executed[k] < executed[k + 1]
  /\ \A k \in 1 .. Len(executed) : executed[k] < excPc
  /\ \A which \in 1 .. excPc - 1 : which \in Range(executed) \cup blamed
  /\ frame.at = "result" /\ frame.result = SKIP => excPc \in blamed
  /\ frame.at = "exit" /\ frame.next = excPc + 1 => excPc \in blamed

\* An exception that is not taken for an interrupt has a faulty instruction.
Guilty ==
  ~withdrawn =>
    /\ frame.at = "test" /\ ~IsIrq(frame.estatus, irqUp) => code[excPc] \in Faults
    /\ frame.at = "unknown" => code[excPc] \in Faults
    /\ \A which \in blamed : code[which] \in Faults

\* The address register is as old as the cause register says.
Addressed ==
  /\ frame.at # "program" /\ exCause = MISALIGNED => exAddr = excPc
  /\ BadAddrFresh

ExcInv == ExcTypes /\ Framed /\ CountedOff /\ Guilty /\ Addressed /\ MaskRespected

LEMMA InitExcs == ASSUME ExcInit \/ ExcIdle PROVE ExcInv
<1>1. /\ excPc = 1 /\ excPie = TRUE /\ frame = NoFrame /\ executed = << >>
      /\ blamed = {} /\ trusted = {} /\ barged = FALSE
  BY DEF ExcInit, ExcIdle, ExcInitOf
<1>2. frame.at = "program"  BY <1>1 DEF NoFrame
<1>3. ExcTypes  BY <1>1 DEF ExcTypes, FrameType, NoFrame, AtPlaces
<1>4. Range(executed) = {}  BY <1>1 DEF Range
<1>5. Framed /\ Guilty /\ Addressed /\ MaskRespected
  BY <1>1, <1>2 DEF Framed, Guilty, Addressed, BadAddrFresh, MaskRespected
<1>6. CountedOff  BY <1>1, <1>2, <1>4 DEF CountedOff
<1> QED BY <1>3, <1>5, <1>6 DEF ExcInv

LEMMA ExecuteKeeps == ASSUME ExcInv, Execute PROVE ExcInv'
<1>1. ExcTypes /\ Framed /\ CountedOff /\ Guilty /\ Addressed /\ MaskRespected  BY DEF ExcInv
<1>2. /\ frame.at = "program" /\ executed' = Append(executed, excPc) /\ excPc' = excPc + 1
      /\ UNCHANGED <<code, exCause, exAddr, irqUp, frame, blamed, trusted, barged,
                     withdrawn>>
  BY DEF Execute, InProgram
<1>3. /\ Len(executed') = Len(executed) + 1 /\ executed' \in Seq(Nat)
      /\ executed'[Len(executed) + 1] = excPc
      /\ \A k \in 1 .. Len(executed) : executed'[k] = executed[k]
  BY <1>1, <1>2, AppendProperties DEF ExcTypes
<1>4. excPc' \in Nat /\ excPc' >= 1 /\ Len(executed) \in Nat  BY <1>1, <1>2 DEF ExcTypes
<1>5. ExcTypes'
  <2>1. excPie' \in BOOLEAN  BY <1>1 DEF Execute, ExcTypes
  <2> QED BY <1>1, <1>2, <1>3, <1>4, <2>1 DEF ExcTypes
<1>6. Framed' /\ Guilty' /\ Addressed' /\ MaskRespected'
  BY <1>1, <1>2 DEF Framed, Guilty, Addressed, BadAddrFresh, MaskRespected
<1>7. Range(executed') = Range(executed) \cup {excPc}
  <2>1. /\ DOMAIN executed' = 1 .. Len(executed) + 1 /\ DOMAIN executed = 1 .. Len(executed)
    BY <1>1, <1>3 DEF ExcTypes
  <2>2. 1 .. Len(executed) + 1 = (1 .. Len(executed)) \cup {Len(executed) + 1}  BY <1>4
  <2> QED BY <1>3, <2>1, <2>2 DEF Range
<1>8. CountedOff'
  <2>1. \A k \in 1 .. Len(executed) : executed[k] < excPc /\ executed[k] \in Nat
    BY <1>1 DEF CountedOff, ExcTypes
  <2>2. \A k \in 1 .. Len(executed') : executed'[k] < excPc'
    <3>1. \A k \in 1 .. Len(executed') : k \in 1 .. Len(executed) \/ k = Len(executed) + 1
      BY <1>3, <1>4
    <3> QED BY <1>1, <1>2, <1>3, <2>1, <3>1 DEF ExcTypes
  <2>3. \A k \in 1 .. Len(executed') - 1 : executed'[k] < executed'[k + 1]
    <3> SUFFICES ASSUME NEW k \in 1 .. Len(executed') - 1 PROVE executed'[k] < executed'[k + 1]
      OBVIOUS
    <3>1. k \in 1 .. Len(executed)  BY <1>3, <1>4
    <3>2. CASE k = Len(executed)  BY <1>3, <2>1, <3>1, <3>2
    <3>3. CASE k # Len(executed)
      <4>1. k \in 1 .. Len(executed) - 1 /\ k + 1 \in 1 .. Len(executed)
        BY <1>4, <3>1, <3>3
      <4> QED BY <1>1, <1>3, <3>1, <4>1 DEF CountedOff
    <3> QED BY <3>2, <3>3
  <2>4. \A which \in 1 .. excPc' - 1 : which \in Range(executed') \cup blamed'
    <3>1. \A which \in 1 .. excPc' - 1 : which \in 1 .. excPc - 1 \/ which = excPc
      BY <1>1, <1>2 DEF ExcTypes
    <3> QED BY <1>1, <1>2, <1>7, <3>1 DEF CountedOff
  <2> QED BY <1>2, <2>2, <2>3, <2>4 DEF CountedOff
<1> QED BY <1>5, <1>6, <1>8 DEF ExcInv

\* The devices' steps and registering leave what is counted alone.
LEMMA LinesMoveKeeps ==
  ASSUME ExcInv, RaiseIrq \/ WithdrawIrq \/ RegisterExceptions \/ UNCHANGED excVars
  PROVE  ExcInv'
<1>1. ExcTypes /\ Framed /\ CountedOff /\ Guilty /\ Addressed /\ MaskRespected  BY DEF ExcInv
<1>2. UNCHANGED <<code, excPc, excPie, exCause, exAddr, frame, executed, blamed,
                  trusted, barged>>
  BY DEF RaiseIrq, WithdrawIrq, RegisterExceptions, excVars
<1>3. ExcTypes' /\ Framed' /\ CountedOff' /\ Addressed' /\ MaskRespected'
  BY <1>1, <1>2 DEF ExcTypes, Framed, CountedOff, Addressed, BadAddrFresh, MaskRespected
<1>4. Guilty'
  <2>1. CASE RaiseIrq
    BY <1>1, <1>2, <2>1, Zenon DEF RaiseIrq, Guilty, IsIrq
  <2>2. CASE WithdrawIrq
    BY <2>2 DEF WithdrawIrq, Guilty
  <2>3. CASE RegisterExceptions \/ UNCHANGED excVars
    BY <1>1, <1>2, <2>3 DEF RegisterExceptions, excVars, Guilty
  <2> QED BY <2>1, <2>2, <2>3
<1> QED BY <1>3, <1>4 DEF ExcInv

LEMMA FrameOf ==
  ASSUME NEW status \in BOOLEAN, NEW where \in Nat
  PROVE  [at |-> "test", estatus |-> status, ea |-> where + 1, next |-> where, result |-> REISSUE]
           \in FrameType
BY DEF FrameType, AtPlaces

LEMMA TakeKeeps == ASSUME ExcInv, TakeException PROVE ExcInv'
<1>1. ExcTypes /\ Framed /\ CountedOff /\ Guilty /\ Addressed /\ MaskRespected  BY DEF ExcInv
<1>2. /\ frame' = [at |-> "test", estatus |-> excPie, ea |-> excPc + 1, next |-> excPc,
                   result |-> REISSUE]
      /\ frame.at = "program" /\ excPie' = FALSE /\ (exCause' = MISALIGNED => exAddr' = excPc)
      /\ UNCHANGED <<code, excPc, irqUp, executed, blamed, trusted, barged, withdrawn>>
  BY DEF TakeException, InProgram
<1>3. /\ frame'.at = "test" /\ frame'.estatus = excPie /\ frame'.ea = excPc + 1
      /\ frame'.next = excPc /\ frame'.result = REISSUE
  BY <1>2
<1>4. ExcTypes'
  <2>1. frame' \in FrameType  BY <1>1, <1>2, FrameOf DEF ExcTypes
  <2> QED BY <1>1, <1>2, <2>1 DEF ExcTypes
<1>5. Framed' /\ Addressed' /\ MaskRespected'
  BY <1>1, <1>2, <1>3 DEF Framed, Addressed, BadAddrFresh, MaskRespected
<1>6. CountedOff'  BY <1>1, <1>2, <1>3 DEF CountedOff
<1>7. Guilty'
  <2>1. (irqUp /\ excPie) \/ code[excPc] \in Faults  BY DEF TakeException, Faulty
  <2>2. ~IsIrq(frame'.estatus, irqUp') => code[excPc] \in Faults
    BY <1>2, <1>3, <2>1, Zenon DEF IsIrq
  <2> QED BY <1>1, <1>2, <1>3, <2>2 DEF Guilty
<1> QED BY <1>4, <1>5, <1>6, <1>7 DEF ExcInv

LEMMA TestKeeps == ASSUME ExcInv, IrqTest PROVE ExcInv'
<1>1. ExcTypes /\ Framed /\ CountedOff /\ Guilty /\ Addressed /\ MaskRespected  BY DEF ExcInv
<1>2. /\ frame.at = "test"
      /\ UNCHANGED <<code, excPc, excPie, exCause, exAddr, executed, blamed, trusted,
                     withdrawn>>
  BY DEF IrqTest
<1>3. frame.ea = excPc + 1 /\ frame.next = excPc  BY <1>1, <1>2 DEF Framed
<1>4. \A which \in 1 .. excPc - 1 : which \in Range(executed) \cup blamed  BY <1>1 DEF CountedOff
<1>5. CASE IsIrq(frame.estatus, irqUp)
  <2>1. /\ frame' = [frame EXCEPT !.at = "exit"]
        /\ barged' = (barged \/ ~frame.estatus)
    BY <1>5 DEF IrqTest
  <2>2. frame'.at = "exit" /\ frame'.next = excPc /\ frame'.ea = frame.ea
    BY <1>1, <1>3, <2>1 DEF ExcTypes
  <2>3. ExcTypes'  BY <1>1, <1>2, <2>1 DEF ExcTypes, FrameType, AtPlaces
  <2>4. excPc # excPc + 1  BY <1>1 DEF ExcTypes
  <2>5. Framed' /\ Addressed'
    BY <1>1, <1>2, <2>2, <1>3 DEF Framed, Addressed, BadAddrFresh
  <2>6. CountedOff'  BY <1>1, <1>2, <1>4, <2>2, <2>4 DEF CountedOff
  <2>7. Guilty'  BY <1>1, <1>2, <2>2 DEF Guilty
  <2>8. frame.estatus  BY <1>5 DEF IsIrq
  <2>9. MaskRespected'  BY <1>1, <2>1, <2>8, Zenon DEF MaskRespected
  <2> QED BY <2>3, <2>5, <2>6, <2>7, <2>9 DEF ExcInv
<1>6. CASE ~IsIrq(frame.estatus, irqUp)
  <2>1. /\ frame' = [frame EXCEPT !.at = "unknown", !.next = frame.ea]
        /\ UNCHANGED <<irqUp, barged>>
    BY <1>6 DEF IrqTest
  <2>2. frame'.at = "unknown" /\ frame'.next = excPc + 1 /\ frame'.ea = frame.ea
    BY <1>1, <1>3, <2>1 DEF ExcTypes
  <2>3. ExcTypes'  BY <1>1, <1>2, <2>1 DEF ExcTypes, FrameType, AtPlaces
  <2>4. Framed' /\ Addressed' /\ MaskRespected'
    BY <1>1, <1>2, <1>3, <2>1, <2>2 DEF Framed, Addressed, BadAddrFresh, MaskRespected
  <2>5. CountedOff'  BY <1>1, <1>2, <1>4, <2>2 DEF CountedOff
  <2>6. ~withdrawn => code[excPc] \in Faults  BY <1>1, <1>2, <1>6 DEF Guilty
  <2>7. Guilty'  BY <1>1, <1>2, <2>2, <2>6 DEF Guilty
  <2> QED BY <2>3, <2>4, <2>5, <2>7 DEF ExcInv
<1> QED BY <1>5, <1>6

LEMMA CallKeeps == ASSUME ExcInv, CallHandler PROVE ExcInv'
<1>1. ExcTypes /\ Framed /\ CountedOff /\ Guilty /\ Addressed /\ MaskRespected  BY DEF ExcInv
<1>2. /\ frame.at = "unknown"
      /\ UNCHANGED <<code, excPc, excPie, exCause, exAddr, irqUp, executed, barged, withdrawn>>
  BY DEF CallHandler
<1>3. frame.ea = excPc + 1 /\ frame.next = excPc + 1  BY <1>1, <1>2 DEF Framed
<1>4. FaultyAddress(frame.ea) = excPc  BY <1>1, <1>3 DEF FaultyAddress, ExcTypes
<1>5. /\ blamed' = blamed \cup {excPc}
      /\ trusted' = trusted \/ (exCause = MISALIGNED /\ trusted' = trusted \cup {<<excPc, exAddr>>})
  BY <1>4 DEF CallHandler, GeneratedBadAddr, NOT_PRESENT, MISALIGNED
<1>6. PICK result \in {REISSUE, SKIP} :
        frame' = [frame EXCEPT !.at = "result", !.result = result]
  BY <1>4 DEF CallHandler
<1>7. /\ frame'.at = "result" /\ frame'.result = result /\ frame'.next = frame.next
      /\ frame'.ea = frame.ea
  BY <1>1, <1>6 DEF ExcTypes
<1>8. ExcTypes'  BY <1>1, <1>2, <1>6 DEF ExcTypes, FrameType, AtPlaces
<1>9. Framed' /\ MaskRespected'  BY <1>1, <1>2, <1>3, <1>7 DEF Framed, MaskRespected
<1>10. CountedOff'  BY <1>1, <1>2, <1>5, <1>7 DEF CountedOff
<1>11. Guilty'
  <2>1. ~withdrawn => code[excPc] \in Faults  BY <1>1, <1>2 DEF Guilty
  <2> QED BY <1>1, <1>2, <1>5, <1>7, <2>1 DEF Guilty
<1>12. Addressed'
  <2>1. exCause = MISALIGNED => exAddr = excPc  BY <1>1, <1>2 DEF Addressed
  <2>2. \A t \in trusted' : t[1] = t[2]  BY <1>1, <1>5, <2>1 DEF Addressed, BadAddrFresh
  <2> QED BY <1>2, <2>1, <2>2 DEF Addressed, BadAddrFresh
<1> QED BY <1>8, <1>9, <1>10, <1>11, <1>12 DEF ExcInv

LEMMA BreakKeeps == ASSUME ExcInv, BreakToDebugger PROVE ExcInv'
<1>1. ExcTypes /\ Framed /\ CountedOff /\ Guilty /\ Addressed /\ MaskRespected  BY DEF ExcInv
<1>2. /\ frame.at = "unknown" /\ frame' = [frame EXCEPT !.at = "result", !.result = REISSUE]
      /\ UNCHANGED <<code, excPc, excPie, exCause, exAddr, irqUp, executed, blamed,
                     trusted, barged, withdrawn>>
  BY DEF BreakToDebugger
<1>3. /\ frame'.at = "result" /\ frame'.result = REISSUE /\ frame'.next = frame.next
      /\ frame'.ea = frame.ea
  BY <1>1, <1>2 DEF ExcTypes
<1>4. ExcTypes'  BY <1>1, <1>2 DEF ExcTypes, FrameType, AtPlaces
<1>5. Framed' /\ Addressed' /\ Guilty' /\ MaskRespected'
  BY <1>1, <1>2, <1>3 DEF Framed, Addressed, BadAddrFresh, Guilty, MaskRespected
<1>6. CountedOff'  BY <1>1, <1>2, <1>3 DEF CountedOff, REISSUE, SKIP
<1> QED BY <1>4, <1>5, <1>6 DEF ExcInv

LEMMA ResultKeeps == ASSUME ExcInv, AfterResult PROVE ExcInv'
<1>1. ExcTypes /\ Framed /\ CountedOff /\ Guilty /\ Addressed /\ MaskRespected  BY DEF ExcInv
<1>2. /\ frame.at = "result"
      /\ frame' = [frame EXCEPT !.at = "exit", !.next = NextIssued(frame.result, frame)]
      /\ UNCHANGED <<code, excPc, excPie, exCause, exAddr, irqUp, executed, blamed,
                     trusted, barged, withdrawn>>
  BY DEF AfterResult
<1>3. frame.ea = excPc + 1 /\ frame.next = excPc + 1  BY <1>1, <1>2 DEF Framed
<1>4. excPc \in Nat /\ frame.result \in {REISSUE, SKIP} /\ REISSUE # SKIP
  BY <1>1 DEF ExcTypes, FrameType, REISSUE, SKIP
<1>5. NextIssued(frame.result, frame) = IF frame.result = SKIP THEN excPc + 1 ELSE excPc
  BY <1>3, <1>4 DEF NextIssued
<1>6. /\ frame'.at = "exit" /\ frame'.ea = frame.ea
      /\ frame'.next = IF frame.result = SKIP THEN excPc + 1 ELSE excPc
  BY <1>1, <1>2, <1>5 DEF ExcTypes
<1>7. ExcTypes'
  <2>1. NextIssued(frame.result, frame) \in Int  BY <1>4, <1>5
  <2> QED BY <1>1, <1>2, <2>1 DEF ExcTypes, FrameType, AtPlaces
<1>8. Framed' /\ Addressed' /\ Guilty' /\ MaskRespected'
  BY <1>1, <1>2, <1>3, <1>6 DEF Framed, Addressed, BadAddrFresh, Guilty, MaskRespected
<1>9. frame'.next = excPc + 1 <=> frame.result = SKIP  BY <1>4, <1>6
<1>10. CountedOff'  BY <1>1, <1>2, <1>6, <1>9 DEF CountedOff
<1> QED BY <1>7, <1>8, <1>10 DEF ExcInv

LEMMA ReturnKeeps == ASSUME ExcInv, ReturnFromException PROVE ExcInv'
<1>1. ExcTypes /\ Framed /\ CountedOff /\ Guilty /\ Addressed /\ MaskRespected  BY DEF ExcInv
<1>2. /\ frame.at = "exit" /\ excPc' = frame.next /\ excPie' = frame.estatus /\ frame' = NoFrame
      /\ UNCHANGED <<code, exCause, exAddr, irqUp, executed, blamed, trusted, barged,
                     withdrawn>>
  BY DEF ReturnFromException
<1>3. frame'.at = "program"  BY <1>2 DEF NoFrame
<1>4. excPc' \in {excPc, excPc + 1} /\ excPc \in Nat /\ excPc >= 1
  BY <1>1, <1>2 DEF Framed, ExcTypes
<1>5. ExcTypes'
  <2>1. excPc' \in Nat /\ excPc' >= 1  BY <1>4
  <2>2. excPie' \in BOOLEAN  BY <1>1, <1>2 DEF ExcTypes, FrameType
  <2>3. NoFrame \in FrameType  BY DEF NoFrame, FrameType, AtPlaces
  <2> QED BY <1>1, <1>2, <2>1, <2>2, <2>3 DEF ExcTypes
<1>6. Framed' /\ Addressed' /\ Guilty' /\ MaskRespected'
  BY <1>1, <1>2, <1>3 DEF Framed, Addressed, BadAddrFresh, Guilty, MaskRespected
<1>7. excPc' = excPc + 1 => excPc \in blamed  BY <1>1, <1>2 DEF CountedOff
<1>8. CountedOff'
  <2>1. CASE excPc' = excPc  BY <1>1, <1>2, <1>3, <2>1 DEF CountedOff
  <2>2. CASE excPc' = excPc + 1
    <3>1. \A which \in 1 .. excPc' - 1 : which \in 1 .. excPc - 1 \/ which = excPc  BY <1>4, <2>2
    <3>2. \A which \in 1 .. excPc' - 1 : which \in Range(executed) \cup blamed
      BY <1>1, <1>7, <2>2, <3>1 DEF CountedOff
    <3>3. \A k \in 1 .. Len(executed) : executed[k] < excPc'
      BY <1>1, <1>4, <2>2 DEF CountedOff, ExcTypes
    <3> QED BY <1>1, <1>2, <1>3, <3>2, <3>3 DEF CountedOff
  <2> QED BY <1>4, <2>1, <2>2
<1> QED BY <1>5, <1>6, <1>8 DEF ExcInv

LEMMA ExcKeeps == ExcInv /\ [ExcNext]_excVars => ExcInv'
BY ExecuteKeeps, LinesMoveKeeps, TakeKeeps, TestKeeps, CallKeeps, BreakKeeps, ResultKeeps,
   ReturnKeeps DEF ExcNext

LEMMA ExcHolds == ExcInv => ExecutedOnce /\ OnlyFaultyBlamed /\ BadAddrFresh /\ MaskRespected
BY DEF ExcInv, CountedOff, ExecutedOnce, Guilty, OnlyFaultyBlamed, Addressed

---------------------------------------------------------------------------
(* The instruction on its way from the phone to the board *)

\* The weights of the bytes.
LEMMA Weights == Low \in Nat /\ Mid \in Nat /\ Hi \in Nat
BY SMT DEF Low, Mid, Hi

\* A number is the sum of its bytes.
LEMMA TwoBytes ==
  ASSUME NEW n \in Colors16
  PROVE  n = B(n, 1) + Low * B(n, Low)
BY SMTT(30) DEF B, Low, Colors16

LEMMA FourBytes ==
  ASSUME NEW n \in Int32
  PROVE  n = B(n, 1) + Low * B(n, Low) + Mid * B(n, Mid) + Hi * SByte(B(n, Hi))
<1>1. n \in Int /\ n >= -(128 * Hi) /\ n < 128 * Hi
  BY Weights, SMT DEF Int32
<1> DEFINE a == n \div Low
           b == n \div Mid
           c == n \div Hi
<1>2. a \in Int /\ b \in Int /\ c \in Int
  BY <1>1, SMT DEF Low, Mid, Hi
<1>3. /\ n = 256 * a + (n % 256)
      /\ a = 256 * b + (a % 256)
      /\ b = 256 * c + (b % 256)
  BY <1>1, SMTT(30) DEF Low, Mid, Hi
<1>4. c >= -128 /\ c < 128
  BY <1>1, SMTT(30) DEF Low, Mid, Hi
<1>5. c = SByte(c % 256)
  BY <1>2, <1>4, SMTT(30) DEF SByte
<1>6. B(n, 1) = n % 256 /\ B(n, Low) = a % 256 /\ B(n, Mid) = b % 256 /\ B(n, Hi) = c % 256
  BY <1>1, SMTT(30) DEF B, Low, Mid, Hi
<1> HIDE DEF a, b, c
<1>7. /\ B(n, 1) \in Int /\ B(n, Low) \in Int /\ B(n, Mid) \in Int
      /\ SByte(B(n, Hi)) = c
  BY <1>1, <1>2, <1>5, <1>6, SMT
<1>8. n = B(n, 1) + 256 * (B(n, Low) + 256 * (B(n, Mid) + 256 * c))
  BY <1>1, <1>2, <1>3, <1>6, SMT
<1> QED BY <1>1, <1>2, <1>7, <1>8, SMTT(30) DEF Low, Mid, Hi

\* instr_make undoes toTransmit, up to its test of the offset, for every
\* command, every 32-bit offset and every 16-bit colour.
LEMMA MakeTransmit ==
  ASSUME NEW i \in Instrs
  PROVE  InstrMake(ToTransmit(i)) =
           [cmd |-> IF i.pixel \in 0 .. ImageSize THEN i.cmd ELSE None,
            pixel |-> i.pixel, color |-> i.color]
<1>1. i.pixel \in Int32 /\ i.color \in Colors16
  BY CodecAssumption DEF Instrs
<1> DEFINE s == ToTransmit(i)
<1>2. /\ s[1] = i.cmd
      /\ s[2] = B(i.pixel, Hi) /\ s[3] = B(i.pixel, Mid)
      /\ s[4] = B(i.pixel, Low) /\ s[5] = B(i.pixel, 1)
      /\ s[6] = B(i.color, Low) /\ s[7] = B(i.color, 1)
  BY DEF ToTransmit
<1> HIDE DEF s
<1>4. PixelOf(s) = i.pixel
  BY <1>1, <1>2, FourBytes, SMT DEF PixelOf
<1>5. s[7] + Low * s[6] = i.color
  BY <1>1, <1>2, TwoBytes, SMT
<1>6. OutOfRange(i.pixel) = ~(i.pixel \in 0 .. ImageSize)
  BY <1>1, CodecAssumption, Weights, SMT DEF OutOfRange, Int32
<1> QED BY <1>2, <1>4, <1>5, <1>6 DEF InstrMake, s

\* What is written is the instruction's string, what is read is made of it.
CodecInv ==
  dir = "down" =>
    /\ instr \in Instrs
    /\ string = << >> \/ string = ToTransmit(instr)
    /\ seen = << >> \/ seen = InstrMake(ToTransmit(instr))

LEMMA InitCodec == Init \/ CodecIdle => CodecInv
BY DEF Init, CodecIdle, CodecInv

LEMMA CodecKeeps == CodecInv /\ [Next]_vars => CodecInv'
BY DEF CodecInv, Next, PhoneWrites, BoardReads, BoardWrites, PhoneReads, Writes, Reads, vars

LEMMA CodecHolds == CodecInv => DownAgrees
BY MakeTransmit DEF CodecInv, DownAgrees

\* Bytes that make up a number are found in it again.
LEMMA BytesOfSum ==
  ASSUME NEW a \in Nat, a < 256, NEW b \in Nat, b < 256, NEW c \in Nat, c < 256,
         NEW d \in Nat, d < 256
  PROVE  LET n == a + Low * b + Mid * c + Hi * SByte(d)
         IN B(n, 1) = a /\ B(n, Low) = b /\ B(n, Mid) = c /\ B(n, Hi) = d
<1> DEFINE e == SByte(d)
           n == a + Low * b + Mid * c + Hi * e
<1>1. e \in Int /\ e % 256 = d  BY SMTT(30) DEF SByte
<1> HIDE DEF e
<1>2. n \in Int /\ n = a + 256 * (b + 256 * (c + 256 * e))  BY <1>1, SMTT(30) DEF Low, Mid, Hi
<1> DEFINE y == c + 256 * e
           x == b + 256 * y
<1>3. y \in Int /\ y \div 256 = e /\ y % 256 = c  BY <1>1, SMTT(30)
<1> HIDE DEF y
<1>4. x \in Int /\ x \div 256 = y /\ x % 256 = b  BY <1>3, SMTT(30)
<1>5. n = a + 256 * x  BY <1>2 DEF y
<1> HIDE DEF x, n
<1>6. n \div 256 = x /\ n % 256 = a  BY <1>2, <1>4, <1>5, SMTT(30)
<1>7. n \div Mid = x \div 256 /\ n \div Hi = y \div 256 /\ n \div 1 = n
  <2>1. n \div 65536 = (n \div 256) \div 256  BY <1>2, SMTT(30)
  <2>2. n \div 16777216 = (n \div 65536) \div 256  BY <1>2, SMTT(30)
  <2>3. Mid = 65536 /\ Hi = 16777216  BY SMT DEF Low, Mid, Hi
  <2>4. n \div 1 = n  BY <1>2, SMT
  <2> QED BY <1>4, <1>6, <2>1, <2>2, <2>3, <2>4
<1> QED BY <1>1, <1>3, <1>4, <1>6, <1>7 DEF B, Low, n, e

LEMMA ByteIs ==
  ASSUME NEW n \in Int, NEW w \in {1, Low, Mid, Hi}
  PROVE  B(n, w) \in Nat /\ B(n, w) < 256
<1>1. w \in Nat /\ w >= 1  BY SMT DEF Low, Mid, Hi
<1>2. n \div w \in Int  BY <1>1, SMT
<1> DEFINE q == n \div w
<1> HIDE DEF q
<1>3. q % 256 \in Nat /\ q % 256 < 256  BY <1>2, SMT DEF q
<1> QED BY <1>3 DEF B, q

\* What the phone makes of the board's bytes, for every command, every 32-bit
\* offset and every 16-bit colour.
LEMMA RecieveSend ==
  ASSUME NEW i \in Instrs
  PROVE  LET s == RecieveInstruction(InstrSend(i))
         IN /\ s.cmd = i.cmd
            /\ B(s.pixel, 1) = B(i.pixel, Hi) /\ B(s.pixel, Low) = B(i.pixel, Mid)
            /\ B(s.pixel, Mid) = B(i.pixel, Low) /\ B(s.pixel, Hi) = B(i.pixel, 1)
            /\ s.color = UShort(i.color - Borrow(i.color))
<1>1. i.pixel \in Int32 /\ i.color \in Colors16
  BY CodecAssumption DEF Instrs
<1>2. i.pixel \in Int /\ i.color \in Int
  <2>1. i.pixel \in Int  BY <1>1, Weights, SMT DEF Int32
  <2>2. \A c \in Colors16 : c \in Int  BY SMT DEF Colors16
  <2> QED BY <1>1, <2>1, <2>2
<1> DEFINE t == InstrSend(i)
           s == RecieveInstruction(t)
<1>3. /\ t[1] = i.cmd /\ t[2] = B(i.pixel, 1) /\ t[3] = B(i.pixel, Low) /\ t[4] = B(i.pixel, Mid)
      /\ t[5] = B(i.pixel, Hi) /\ t[6] = B(i.color, 1) /\ t[7] = B(i.color, Low)
  BY DEF InstrSend
<1> HIDE DEF t
<1>4. /\ s.cmd = i.cmd
      /\ s.pixel = B(i.pixel, Hi) + Low * B(i.pixel, Mid) + Mid * B(i.pixel, Low) + Hi * SByte(B(i.pixel, 1))
      /\ s.color = UShort(SByte(B(i.color, 1)) + Low * B(i.color, Low))
  BY <1>3 DEF RecieveInstruction
<1> HIDE DEF s
<1>5. SByte(B(i.color, 1)) + Low * B(i.color, Low) = i.color - Borrow(i.color)
  <2> DEFINE lo == B(i.color, 1)
             hi == B(i.color, Low)
  <2>1. lo \in Nat /\ hi \in Nat  BY <1>2, ByteIs
  <2>2. i.color = lo + Low * hi  BY <1>1, TwoBytes
  <2> HIDE DEF lo, hi
  <2>3. Low = 256  BY DEF Low
  <2>4. SByte(lo) + 256 * hi = (lo + 256 * hi) - (IF lo < 128 THEN 0 ELSE 256)  BY <2>1, SMT DEF SByte
  <2> QED BY <2>2, <2>3, <2>4 DEF Borrow, lo, hi
<1>6. /\ B(s.pixel, 1) = B(i.pixel, Hi) /\ B(s.pixel, Low) = B(i.pixel, Mid)
      /\ B(s.pixel, Mid) = B(i.pixel, Low) /\ B(s.pixel, Hi) = B(i.pixel, 1)
  <2>1. \A w \in {1, Low, Mid, Hi} : B(i.pixel, w) \in Nat /\ B(i.pixel, w) < 256  BY <1>2, ByteIs
  <2> DEFINE a == B(i.pixel, Hi)
             b == B(i.pixel, Mid)
             c == B(i.pixel, Low)
             d == B(i.pixel, 1)
  <2>2. a \in Nat /\ a < 256 /\ b \in Nat /\ b < 256 /\ c \in Nat /\ c < 256 /\ d \in Nat /\ d < 256
    BY <2>1
  <2>3. s.pixel = a + Low * b + Mid * c + Hi * SByte(d)  BY <1>4
  <2> HIDE DEF a, b, c, d
  <2>4. B(s.pixel, 1) = a /\ B(s.pixel, Low) = b /\ B(s.pixel, Mid) = c /\ B(s.pixel, Hi) = d
    BY <2>2, <2>3, BytesOfSum
  <2> QED BY <2>4 DEF a, b, c, d
<1> QED BY <1>4, <1>5, <1>6 DEF s, t


\* An instruction on its way up is the one the board holds, first as its bytes
\* and then as what the phone makes of them.
AnswerInv ==
  dir = "up" =>
    /\ instr \in Instrs
    /\ string = << >> \/ string = InstrSend(instr)
    /\ seen = << >> \/ seen = RecieveInstruction(InstrSend(instr))

LEMMA InitAnswer == Init \/ CodecIdle => AnswerInv
BY DEF Init, CodecIdle, AnswerInv

LEMMA AnswerKeeps == AnswerInv /\ [Next]_vars => AnswerInv'
<1> SUFFICES ASSUME AnswerInv, [Next]_vars PROVE AnswerInv'
  OBVIOUS
<1>1. CASE PhoneWrites \/ BoardReads
  <2>1. dir' = "down"  BY <1>1 DEF PhoneWrites, BoardReads, Writes, Reads
  <2> QED BY <2>1 DEF AnswerInv
<1>2. CASE BoardWrites
  BY <1>2 DEF AnswerInv, BoardWrites, Writes
<1>3. CASE PhoneReads
  BY <1>3 DEF AnswerInv, PhoneReads, Reads
<1>4. CASE UNCHANGED vars
  BY <1>4 DEF AnswerInv, vars
<1> QED BY <1>1, <1>2, <1>3, <1>4 DEF Next

LEMMA AnswerHolds == AnswerInv => UpReversed
<1> SUFFICES ASSUME AnswerInv, dir = "up", seen # << >> PROVE UpReversed
  BY DEF UpReversed
<1> DEFINE w == <<1, Low, Mid, Hi>>
<1>1. instr \in Instrs /\ seen = RecieveInstruction(InstrSend(instr))  BY DEF AnswerInv
<1>2. /\ seen.cmd = instr.cmd
      /\ B(seen.pixel, 1) = B(instr.pixel, Hi) /\ B(seen.pixel, Low) = B(instr.pixel, Mid)
      /\ B(seen.pixel, Mid) = B(instr.pixel, Low) /\ B(seen.pixel, Hi) = B(instr.pixel, 1)
      /\ seen.color = UShort(instr.color - Borrow(instr.color))
  BY <1>1, RecieveSend
<1>3. \A k \in 0 .. 3 : B(seen.pixel, w[k + 1]) = B(instr.pixel, w[4 - k])
  <2>1. w[1] = 1 /\ w[2] = Low /\ w[3] = Mid /\ w[4] = Hi  OBVIOUS
  <2> HIDE DEF w
  <2> SUFFICES ASSUME NEW k \in 0 .. 3 PROVE B(seen.pixel, w[k + 1]) = B(instr.pixel, w[4 - k])
    OBVIOUS
  <2>2. k = 0 \/ k = 1 \/ k = 2 \/ k = 3  OBVIOUS
  <2>3. /\ k = 0 => k + 1 = 1 /\ 4 - k = 4
        /\ k = 1 => k + 1 = 2 /\ 4 - k = 3
        /\ k = 2 => k + 1 = 3 /\ 4 - k = 2
        /\ k = 3 => k + 1 = 4 /\ 4 - k = 1
    OBVIOUS
  <2> QED BY <1>2, <2>1, <2>2, <2>3
<1> QED BY <1>2, <1>3 DEF UpReversed

---------------------------------------------------------------------------
(* The bitmap *)

\* A byte of the header, and the field it is of.
IntBytes == {<<f, k>> : f \in DOMAIN IntAt, k \in 1 .. 4}
ShortBytes == {<<f, k>> : f \in DOMAIN ShortAt, k \in 1 .. 2}
HeaderPlace(p) == (IF p \in IntBytes THEN IntAt[p[1]] ELSE ShortAt[p[1]]) + p[2]

LEMMA IntFieldsAre ==
  /\ DOMAIN IntAt = {"tot_size", "offset", "dib_size", "width", "height", "compression_mode",
                     "raw_size", "horiz_res", "vert_res", "palette_sz", "important_c_count"}
  /\ IntAt["tot_size"] = 2 /\ IntAt["offset"] = 10 /\ IntAt["dib_size"] = 14
  /\ IntAt["width"] = 18 /\ IntAt["height"] = 22 /\ IntAt["compression_mode"] = 30
  /\ IntAt["raw_size"] = 34 /\ IntAt["horiz_res"] = 38 /\ IntAt["vert_res"] = 42
  /\ IntAt["palette_sz"] = 46 /\ IntAt["important_c_count"] = 50
BY DEF IntAt

LEMMA ShortFieldsAre ==
  /\ DOMAIN ShortAt = {"signature", "res1", "res2", "num_planes", "b_per_pixel"}
  /\ ShortAt["signature"] = 0 /\ ShortAt["res1"] = 6 /\ ShortAt["res2"] = 8
  /\ ShortAt["num_planes"] = 26 /\ ShortAt["b_per_pixel"] = 28
BY DEF ShortAt

LEMMA IntPlace ==
  ASSUME NEW f \in DOMAIN IntAt, NEW k \in 1 .. 4
  PROVE  <<f, k>> \in IntBytes /\ HeaderPlace(<<f, k>>) = IntAt[f] + k
BY DEF IntBytes, HeaderPlace

LEMMA ShortPlace ==
  ASSUME NEW f \in DOMAIN ShortAt, NEW k \in 1 .. 2
  PROVE  <<f, k>> \in ShortBytes /\ HeaderPlace(<<f, k>>) = ShortAt[f] + k
<1>1. f \notin DOMAIN IntAt  BY IntFieldsAre, ShortFieldsAre
<1> QED BY <1>1 DEF IntBytes, ShortBytes, HeaderPlace

\* No two bytes of the header are stored in the same place.
LEMMA IntsApart ==
  ASSUME NEW f \in DOMAIN IntAt, NEW g \in DOMAIN IntAt, f # g
  PROVE  IntAt[f] \in Nat /\ IntAt[g] \in Nat
         /\ (IntAt[f] + 4 <= IntAt[g] \/ IntAt[g] + 4 <= IntAt[f])
BY IntFieldsAre, SMT

LEMMA ShortsApart ==
  ASSUME NEW f \in DOMAIN ShortAt, NEW g \in DOMAIN ShortAt, f # g
  PROVE  ShortAt[f] \in Nat /\ ShortAt[g] \in Nat
         /\ (ShortAt[f] + 2 <= ShortAt[g] \/ ShortAt[g] + 2 <= ShortAt[f])
BY ShortFieldsAre, SMT

LEMMA KindsApart ==
  ASSUME NEW f \in DOMAIN IntAt, NEW g \in DOMAIN ShortAt
  PROVE  IntAt[f] \in Nat /\ ShortAt[g] \in Nat
         /\ (IntAt[f] + 4 <= ShortAt[g] \/ ShortAt[g] + 2 <= IntAt[f])
BY IntFieldsAre, ShortFieldsAre, SMT

LEMMA PlacesDiffer ==
  ASSUME NEW p \in IntBytes \cup ShortBytes, NEW q \in IntBytes \cup ShortBytes,
         HeaderPlace(p) = HeaderPlace(q)
  PROVE  p = q
<1>1. ASSUME NEW f \in DOMAIN IntAt, NEW k \in 1 .. 4, NEW g \in DOMAIN IntAt, NEW l \in 1 .. 4,
             IntAt[f] + k = IntAt[g] + l
      PROVE  f = g /\ k = l
  <2>1. IntAt[f] \in Nat /\ IntAt[g] \in Nat  BY IntFieldsAre
  <2>2. CASE f = g  BY <1>1, <2>1, <2>2
  <2>3. CASE f # g  BY <1>1, <2>3, IntsApart
  <2> QED BY <2>2, <2>3
<1>2. ASSUME NEW f \in DOMAIN ShortAt, NEW k \in 1 .. 2, NEW g \in DOMAIN ShortAt, NEW l \in 1 .. 2,
             ShortAt[f] + k = ShortAt[g] + l
      PROVE  f = g /\ k = l
  <2>1. ShortAt[f] \in Nat /\ ShortAt[g] \in Nat  BY ShortFieldsAre
  <2>2. CASE f = g  BY <1>2, <2>1, <2>2
  <2>3. CASE f # g  BY <1>2, <2>3, ShortsApart
  <2> QED BY <2>2, <2>3
<1>3. \A f \in DOMAIN IntAt, k \in 1 .. 4, g \in DOMAIN ShortAt, l \in 1 .. 2 :
        IntAt[f] + k # ShortAt[g] + l
  BY KindsApart
<1>4. CASE p \in IntBytes /\ q \in IntBytes
  <2>1. PICK f \in DOMAIN IntAt, k \in 1 .. 4 : p = <<f, k>>  BY <1>4 DEF IntBytes
  <2>2. PICK g \in DOMAIN IntAt, l \in 1 .. 4 : q = <<g, l>>  BY <1>4 DEF IntBytes
  <2>3. IntAt[f] + k = IntAt[g] + l  BY <2>1, <2>2, IntPlace
  <2> QED BY <2>1, <2>2, <2>3, <1>1
<1>5. CASE p \in ShortBytes /\ q \in ShortBytes
  <2>1. PICK f \in DOMAIN ShortAt, k \in 1 .. 2 : p = <<f, k>>  BY <1>5 DEF ShortBytes
  <2>2. PICK g \in DOMAIN ShortAt, l \in 1 .. 2 : q = <<g, l>>  BY <1>5 DEF ShortBytes
  <2>3. ShortAt[f] + k = ShortAt[g] + l  BY <2>1, <2>2, ShortPlace
  <2> QED BY <2>1, <2>2, <2>3, <1>2
<1>6. CASE p \in IntBytes /\ q \in ShortBytes
  <2>1. PICK f \in DOMAIN IntAt, k \in 1 .. 4 : p = <<f, k>>  BY <1>6 DEF IntBytes
  <2>2. PICK g \in DOMAIN ShortAt, l \in 1 .. 2 : q = <<g, l>>  BY <1>6 DEF ShortBytes
  <2>3. IntAt[f] + k = ShortAt[g] + l  BY <2>1, <2>2, IntPlace, ShortPlace
  <2> QED BY <2>3, <1>3
<1>7. CASE p \in ShortBytes /\ q \in IntBytes
  <2>1. PICK f \in DOMAIN ShortAt, k \in 1 .. 2 : p = <<f, k>>  BY <1>7 DEF ShortBytes
  <2>2. PICK g \in DOMAIN IntAt, l \in 1 .. 4 : q = <<g, l>>  BY <1>7 DEF IntBytes
  <2>3. ShortAt[f] + k = IntAt[g] + l  BY <2>1, <2>2, IntPlace, ShortPlace
  <2> QED BY <2>3, <1>3
<1> QED BY <1>4, <1>5, <1>6, <1>7

LEMMA ByteStored ==
  ASSUME NEW b, NEW p \in IntBytes \cup ShortBytes, HeaderPlace(p) \in 1 .. HeaderSize
  PROVE  Serialised(b)[HeaderPlace(p)] = HeaderByte(b[p[1]], p[2])
<1> DEFINE n == HeaderPlace(p)
           q == CHOOSE q \in IntBytes \cup ShortBytes : HeaderPlace(q) = n
<1>1. q \in IntBytes \cup ShortBytes /\ HeaderPlace(q) = HeaderPlace(p)  OBVIOUS
<1> HIDE DEF q
<1>2. q = p  BY <1>1, PlacesDiffer
<1>3. Serialised(b) = [m \in 1 .. HeaderSize |->
                        LET x == CHOOSE x \in IntBytes \cup ShortBytes : HeaderPlace(x) = m
                        IN HeaderByte(b[x[1]], x[2])]
  BY DEF Serialised, IntBytes, ShortBytes, HeaderPlace
<1>4. Serialised(b)[n] = HeaderByte(b[q[1]], q[2])
  BY <1>3 DEF q
<1> QED BY <1>2, <1>4

\* Four bytes from the lowest make the number again, and so do two.
LEMMA ByteSplit ==
  ASSUME NEW v \in Nat, NEW n \in Nat, v < 256 * n
  PROVE  v \div 256 \in Nat /\ v \div 256 < n /\ v % 256 \in Nat /\ v % 256 < 256
         /\ v = 256 * (v \div 256) + (v % 256)
<1>1. v \div 256 \in Nat /\ v % 256 \in Nat /\ v % 256 < 256
      /\ v = 256 * (v \div 256) + (v % 256)
  BY SMT
<1> QED BY <1>1, SMT

LEMMA BytesMake ==
  ASSUME NEW v \in Nat, v < 256 * 8388608
  PROVE  HeaderByte(v, 1) + 256 * HeaderByte(v, 2) + 65536 * HeaderByte(v, 3)
         + 16777216 * HeaderByte(v, 4) = v
<1>1. Weight[1] = 1 /\ Weight[2] = 256 /\ Weight[3] = 65536 /\ Weight[4] = 16777216
  BY SMT DEF Weight
<1> DEFINE a == v \div 256
           b == a \div 256
           c == b \div 256
<1>2. v = 256 * a + (v % 256) /\ a \in Nat /\ a < 256 * 32768  BY ByteSplit, SMT
<1>3. a = 256 * b + (a % 256) /\ b \in Nat /\ b < 256 * 128  BY <1>2, ByteSplit, SMT
<1>4. b = 256 * c + (b % 256) /\ c \in Nat /\ c < 128  BY <1>3, ByteSplit, SMT
<1>5. v \div 1 = v  BY SMT
<1>6. v % 256 \in Nat /\ a % 256 \in Nat /\ b % 256 \in Nat
      /\ v % 256 < 256 /\ a % 256 < 256 /\ b % 256 < 256
  BY <1>2, <1>3, <1>4, SMT
<1>7. v \div 65536 = b
  <2> HIDE DEF a, b
  <2>1. v = 65536 * b + (256 * (a % 256) + (v % 256))  BY <1>2, <1>3, <1>6, SMT
  <2>2. 256 * (a % 256) + (v % 256) \in Nat /\ 256 * (a % 256) + (v % 256) < 65536  BY <1>6, SMT
  <2> QED BY <1>3, <2>1, <2>2, SMT
<1>8. v \div 16777216 = c
  <2> HIDE DEF a, b, c
  <2> DEFINE r == 65536 * (b % 256) + 256 * (a % 256) + (v % 256)
  <2>1. v = 16777216 * c + r  BY <1>2, <1>3, <1>4, <1>6, SMT
  <2>2. r \in Nat /\ r < 16777216  BY <1>6, SMT
  <2> HIDE DEF r
  <2> QED BY <1>4, <2>1, <2>2, SMT
<1>9. c % 256 = c  BY <1>4, SMT
<1>10. HeaderByte(v, 1) = v % 256 /\ HeaderByte(v, 2) = a % 256
       /\ HeaderByte(v, 3) = b % 256 /\ HeaderByte(v, 4) = c
  BY <1>1, <1>5, <1>7, <1>8, <1>9, SMT DEF HeaderByte
<1> HIDE DEF a, b, c
<1> DEFINE x == v % 256
           y == a % 256
           z == b % 256
<1>11. v = 256 * a + x /\ a = 256 * b + y /\ b = 256 * c + z
       /\ x \in Nat /\ y \in Nat /\ z \in Nat
  BY <1>2, <1>3, <1>4, <1>6
<1>12. HeaderByte(v, 1) = x /\ HeaderByte(v, 2) = y /\ HeaderByte(v, 3) = z
  BY <1>10
<1> HIDE DEF x, y, z
<1> QED BY <1>2, <1>3, <1>4, <1>10, <1>11, <1>12, SMT

LEMMA PairMakes ==
  ASSUME NEW v \in Nat, v < 65536
  PROVE  HeaderByte(v, 1) + 256 * HeaderByte(v, 2) = v
<1>1. Weight[1] = 1 /\ Weight[2] = 256  BY SMT DEF Weight
<1>2. v \div 1 = v  BY SMT
<1>3. v \div 256 \in Nat /\ v \div 256 < 256 /\ v = 256 * (v \div 256) + (v % 256)
  BY ByteSplit, SMT
<1>4. (v \div 256) % 256 = v \div 256  BY <1>3, SMT
<1> QED BY <1>1, <1>2, <1>3, <1>4, SMT DEF HeaderByte

LEMMA IntByte ==
  ASSUME NEW b, NEW f \in DOMAIN IntAt, NEW k \in 1 .. 4
  PROVE  Serialised(b)[IntAt[f] + k] = HeaderByte(b[f], k)
<1>1. IntAt[f] \in Nat /\ IntAt[f] <= 50  BY IntFieldsAre, SMT
<1>2. <<f, k>> \in IntBytes /\ HeaderPlace(<<f, k>>) = IntAt[f] + k  BY IntPlace
<1>3. IntAt[f] + k \in 1 .. HeaderSize  BY <1>1, SMT DEF HeaderSize
<1>4. Serialised(b)[HeaderPlace(<<f, k>>)] = HeaderByte(b[<<f, k>>[1]], <<f, k>>[2])
  BY <1>2, <1>3, ByteStored
<1> QED BY <1>2, <1>4

LEMMA IntFound ==
  ASSUME NEW b, data = Serialised(b), NEW f \in DOMAIN IntAt, b[f] \in Nat, b[f] <= 2147483647
  PROVE  Found(IntAt[f], 4) = b[f]
<1>2. \A k \in 1 .. 4 : data[IntAt[f] + k] = HeaderByte(b[f], k)  BY IntByte, SMT
<1>3. data[IntAt[f] + 1] = HeaderByte(b[f], 1) /\ data[IntAt[f] + 2] = HeaderByte(b[f], 2)
      /\ data[IntAt[f] + 3] = HeaderByte(b[f], 3) /\ data[IntAt[f] + 4] = HeaderByte(b[f], 4)
  BY <1>2, SMT
<1>4. Found(IntAt[f], 4) = HeaderByte(b[f], 1) + 256 * HeaderByte(b[f], 2)
                           + (65536 * HeaderByte(b[f], 3) + 16777216 * HeaderByte(b[f], 4))
  BY <1>3, SMT DEF Found
<1>5. HeaderByte(b[f], 1) \in Int /\ HeaderByte(b[f], 2) \in Int
      /\ HeaderByte(b[f], 3) \in Int /\ HeaderByte(b[f], 4) \in Int
  BY SMT DEF HeaderByte, Weight
<1> HIDE DEF HeaderByte
<1>6. b[f] < 256 * 8388608  BY SMT
<1>7. HeaderByte(b[f], 1) + 256 * HeaderByte(b[f], 2) + 65536 * HeaderByte(b[f], 3)
      + 16777216 * HeaderByte(b[f], 4) = b[f]
  BY <1>6, BytesMake, SMT
<1> QED BY <1>4, <1>5, <1>7, SMT

LEMMA ShortByte ==
  ASSUME NEW b, NEW f \in DOMAIN ShortAt, NEW k \in 1 .. 2
  PROVE  Serialised(b)[ShortAt[f] + k] = HeaderByte(b[f], k)
<1>1. ShortAt[f] \in Nat /\ ShortAt[f] <= 28  BY ShortFieldsAre, SMT
<1>2. <<f, k>> \in ShortBytes /\ HeaderPlace(<<f, k>>) = ShortAt[f] + k  BY ShortPlace
<1>3. ShortAt[f] + k \in 1 .. HeaderSize  BY <1>1, SMT DEF HeaderSize
<1>4. Serialised(b)[HeaderPlace(<<f, k>>)] = HeaderByte(b[<<f, k>>[1]], <<f, k>>[2])
  BY <1>2, <1>3, ByteStored
<1> QED BY <1>2, <1>4

LEMMA ShortFound ==
  ASSUME NEW b, data = Serialised(b), NEW f \in DOMAIN ShortAt, b[f] \in Nat, b[f] < 65536
  PROVE  Found(ShortAt[f], 2) = b[f]
<1>2. \A k \in 1 .. 2 : data[ShortAt[f] + k] = HeaderByte(b[f], k)  BY ShortByte, SMT
<1>3. data[ShortAt[f] + 1] = HeaderByte(b[f], 1) /\ data[ShortAt[f] + 2] = HeaderByte(b[f], 2)
  BY <1>2, SMT
<1>4. HeaderByte(b[f], 1) \in Int /\ HeaderByte(b[f], 2) \in Int
  BY SMT DEF HeaderByte, Weight
<1>5. Found(ShortAt[f], 2) = HeaderByte(b[f], 1) + 256 * HeaderByte(b[f], 2) + 0
  BY <1>3, SMT DEF Found
<1> QED BY <1>4, <1>5, PairMakes, SMT

\* What has been captured is a screen, and the image its pixels.
BitmapInv ==
  \/ bmp = NoBitmap /\ image = << >> /\ c24 = << >>
  \/ \E s \in Screens, c \in Colours :
       /\ bmp = Bitmap24(s) /\ image = Image(s) /\ data = Serialised(bmp)
       /\ c16 = c /\ c24 = Color16to24(c)

LEMMA BitmapStarts == BitmapInit => BitmapInv
BY DEF BitmapInit, BitmapInv

LEMMA BitmapSteps == BitmapInv /\ [BitmapNext]_bitmapVars => BitmapInv'
<1> SUFFICES ASSUME BitmapInv, [BitmapNext]_bitmapVars PROVE BitmapInv'  OBVIOUS
<1>1. CASE UNCHANGED bitmapVars  BY <1>1 DEF BitmapInv, bitmapVars
<1>2. CASE BitmapNext
  <2>1. PICK s \in Screens, c \in Colours : Capture(s, c)  BY <1>2 DEF BitmapNext
  <2> QED BY <2>1 DEF Capture, BitmapInv
<1> QED BY <1>1, <1>2

LEMMA HeaderIsRead ==
  ASSUME NEW s \in Screens, bmp = Bitmap24(s), data = Serialised(bmp)
  PROVE  HeaderReads
<1> DEFINE n == NumBytes(s)
           top == 2147483647
<1>1. s.width \in Nat \ {0} /\ s.height \in Nat \ {0} /\ s.width * s.height * 3 <= top - 54
  BY BitmapAssumption, SMT
<1>2. s.width * s.height \in Nat /\ s.width <= s.width * s.height /\ s.height <= s.width * s.height
  BY <1>1, SMT
<1>3. n \in Nat /\ n <= top - 54 /\ s.width <= top /\ s.height <= top
  BY <1>1, <1>2, SMT DEF NumBytes
<1>4. /\ bmp["signature"] = BM /\ bmp["tot_size"] = 54 + n /\ bmp["offset"] = 54
      /\ bmp["dib_size"] = 40 /\ bmp["width"] = s.width /\ bmp["height"] = s.height
      /\ bmp["num_planes"] = 1 /\ bmp["b_per_pixel"] = 24 /\ bmp["compression_mode"] = 0
      /\ bmp["raw_size"] = n
  BY SMT DEF Bitmap24, HeaderSize
<1>5. BM \in Nat /\ BM < 65536  BY SMT DEF BM
<1> HIDE DEF n
<1>6. Found(0, 2) = BM /\ Found(26, 2) = 1 /\ Found(28, 2) = 24
  BY <1>4, <1>5, ShortFieldsAre, ShortFound, SMT
<1>7. Found(2, 4) = 54 + n
  <2>1. bmp["tot_size"] \in Nat /\ bmp["tot_size"] <= top /\ "tot_size" \in DOMAIN IntAt
    BY <1>3, <1>4, IntFieldsAre, SMT
  <2> QED BY <2>1, <1>4, IntFieldsAre, IntFound, SMT
<1>8. Found(34, 4) = n
  <2>1. bmp["raw_size"] \in Nat /\ bmp["raw_size"] <= top /\ "raw_size" \in DOMAIN IntAt
    BY <1>3, <1>4, IntFieldsAre, SMT
  <2> QED BY <2>1, <1>4, IntFieldsAre, IntFound, SMT
<1>9. Found(10, 4) = 54 /\ Found(14, 4) = 40 /\ Found(30, 4) = 0
  BY <1>4, IntFieldsAre, IntFound, SMT
<1>10. Found(18, 4) = s.width /\ Found(22, 4) = s.height
  BY <1>1, <1>3, <1>4, IntFieldsAre, IntFound, SMT
<1>11. Len(data) = 54
  <2>1. DOMAIN Serialised(bmp) = 1 .. HeaderSize  BY DEF Serialised
  <2> DEFINE F(m) == LET p == CHOOSE p \in IntBytes \cup ShortBytes : HeaderPlace(p) = m
                     IN HeaderByte(bmp[p[1]], p[2])
  <2>2. Serialised(bmp) = [m \in 1 .. HeaderSize |-> F(m)]
    BY DEF Serialised, IntBytes, ShortBytes, HeaderPlace
  <2> HIDE DEF F
  <2>3. HeaderSize = 54  BY DEF HeaderSize
  <2>4. HeaderSize \in Nat  BY <2>3
  <2> HIDE DEF HeaderSize
  <2>5. Len([m \in 1 .. HeaderSize |-> F(m)]) = HeaderSize  BY <2>4
  <2> QED BY <2>2, <2>3, <2>5
<1> QED BY <1>1, <1>3, <1>4, <1>6, <1>7, <1>8, <1>9, <1>10, <1>11, SMT DEF HeaderReads

\* A colour is three parts of 5, 6 and 5 bits.
LEMMA ColourParts ==
  ASSUME NEW c \in Nat, c < 65536
  PROVE  LET d == Color16to24(c)
         IN c = (d[1] \div 8) * 2048 + (d[2] \div 4) * 32 + d[3] \div 8
<1> DEFINE q == c \div 32
           u == c % 32
           r == q \div 64
           t == q % 64
<1>1. c = 32 * q + u /\ q \in Nat /\ u \in Nat /\ u < 32  BY SMT
<1>2. q = 64 * r + t /\ r \in Nat /\ t \in Nat /\ t < 64  BY <1>1, SMT
<1>3. c \div 2048 = r
  <2> HIDE DEF q, u, r, t
  <2>1. c = 2048 * r + (32 * t + u)  BY <1>1, <1>2, SMT
  <2>2. 32 * t + u \in Nat /\ 32 * t + u < 2048  BY <1>1, <1>2, SMT
  <2> QED BY <1>2, <2>1, <2>2, SMT
<1>4. Color16to24(c) = <<r * 8, t * 4, u * 8>>  BY <1>3, SMT DEF Color16to24
<1> HIDE DEF q, u, r, t
<1>5. (r * 8) \div 8 = r /\ (t * 4) \div 4 = t /\ (u * 8) \div 8 = u  BY <1>1, <1>2, SMT
<1> QED BY <1>1, <1>2, <1>4, <1>5, SMT

\* The image's bytes, and those of its pixels and of its padding.
PixelsOf(s) == {<<i, j, ch>> : i \in 0 .. s.height - 1, j \in RowColumns(s), ch \in 0 .. 2}
ByteAt(s, p) == p[1] * RowBytes(s) + p[2] + p[3]
PadsOf(s) == {i * RowBytes(s) - RowPad(s) + j : i \in 0 .. s.height - 1, j \in 0 .. RowPad(s) - 1}

LEMMA PixelIs ==
  ASSUME NEW s, NEW i \in 0 .. s.height - 1, NEW j \in RowColumns(s), NEW ch \in 0 .. 2
  PROVE  <<i, j, ch>> \in PixelsOf(s)
BY DEF PixelsOf

LEMMA ImageAt ==
  ASSUME NEW s, NEW k \in DOMAIN Image(s)
  PROVE  \/ k \in PadsOf(s) /\ Image(s)[k] = Padding
         \/ \E p \in PixelsOf(s) : Image(s)[k] = <<PixelAt(s, p[1], p[2]), p[3]>>
<1> DEFINE q == CHOOSE p \in PixelsOf(s) : ByteAt(s, p) = k
           dom == PadsOf(s) \cup {ByteAt(s, p) : p \in PixelsOf(s)}
           F(m) == IF m \in PadsOf(s) THEN Padding
                   ELSE LET p == CHOOSE p \in PixelsOf(s) : ByteAt(s, p) = m
                        IN <<PixelAt(s, p[1], p[2]), p[3]>>
<1>1. Image(s) = [m \in dom |-> F(m)]
  BY DEF Image, PixelsOf, PadsOf, ByteAt
<1>2. k \in dom /\ Image(s)[k] = F(k)  BY <1>1
<1>3. CASE k \in PadsOf(s)  BY <1>2, <1>3
<1>4. CASE k \notin PadsOf(s)
  <2>1. \E p \in PixelsOf(s) : ByteAt(s, p) = k  BY <1>2, <1>4
  <2>2. q \in PixelsOf(s)  BY <2>1
  <2>3. Image(s)[k] = <<PixelAt(s, q[1], q[2]), q[3]>>  BY <1>2, <1>4
  <2> QED BY <2>2, <2>3
<1> QED BY <1>3, <1>4

\* The products that say where a row begins and where it ends.
LEMMA RowsWithin ==
  ASSUME NEW i \in Nat, NEW h \in Nat, i + 1 <= h, NEW n \in Nat
  PROVE  i * n \in Nat /\ h * n \in Nat /\ i * n + n <= h * n
<1>1. i * n \in Nat /\ h * n \in Nat /\ (i + 1) * n \in Nat  BY SMT
<1>2. (i + 1) * n = i * n + n  BY SMT
<1>3. (i + 1) * n <= h * n  BY SMT
<1> QED BY <1>1, <1>2, <1>3, SMT

LEMMA Grows ==
  ASSUME NEW i \in Nat, NEW h \in Nat, i <= h, NEW n \in Nat
  PROVE  i * n <= h * n
BY SMT

LEMMA ReadNearby ==
  ASSUME NEW s \in Screens, bmp = Bitmap24(s), image = Image(s)
  PROVE  ReadsNearby
<1> DEFINE w == s.width
           h == s.height
<1>1. w \in Nat \ {0} /\ h \in Nat \ {0}  BY BitmapAssumption
<1>2. bmp.width = w /\ bmp.height = h  BY DEF Bitmap24
<1>3. SUFFICES ASSUME NEW k \in DOMAIN image, image[k] # Padding
               PROVE  image[k][1] < (h + 2) * w
  BY <1>2 DEF ReadsNearby
<1>4. PICK p \in PixelsOf(s) : image[k] = <<PixelAt(s, p[1], p[2]), p[3]>>
  BY <1>3, ImageAt
<1>5. p[1] \in 0 .. h - 1 /\ p[2] \in RowColumns(s)  BY <1>4 DEF PixelsOf
<1>6. p[2] \in Nat /\ p[2] < w * 3  BY <1>1, <1>5 DEF RowColumns
<1>7. p[1] \in Nat /\ p[1] + 1 <= h  BY <1>1, <1>5
<1>8. p[1] * w \in Nat /\ h * w \in Nat /\ p[1] * w + w <= h * w  BY <1>1, <1>7, RowsWithin
<1>9. (h + 2) * w = h * w + 2 * w  BY <1>1
<1>10. image[k][1] = p[1] * w + p[2]  BY <1>4 DEF PixelAt
<1> HIDE DEF w, h
<1> QED BY <1>1, <1>6, <1>8, <1>9, <1>10

LEMMA Divided ==
  ASSUME NEW k \in Nat, NEW n \in Nat \ {0}
  PROVE  k \div n \in Nat /\ k % n \in Nat /\ k % n < n /\ k = (k \div n) * n + (k % n)
BY SMT

LEMMA ImageIsFilled ==
  ASSUME NEW s \in Screens, bmp = Bitmap24(s), image = Image(s)
  PROVE  ImageFilled
<1> DEFINE w == s.width
           h == s.height
           n == w * 3
<1>1. w \in Nat \ {0} /\ h \in Nat \ {0}  BY BitmapAssumption
<1>2. bmp.width = w /\ bmp.raw_size = w * h * 3  BY DEF Bitmap24, NumBytes
<1>3. SUFFICES ASSUME w % 4 = 0
               PROVE  DOMAIN Image(s) = 0 .. w * h * 3 - 1
  BY <1>2 DEF ImageFilled
<1>4. RowPad(s) = 0 /\ RowBytes(s) = n
  <2>1. w = 4 * (w \div 4) /\ w \div 4 \in Nat  BY <1>1, <1>3
  <2> HIDE DEF w
  <2>2. n = 4 * (3 * (w \div 4))  BY <2>1
  <2>3. n % 4 = 0  BY <2>1, <2>2
  <2>4. n + 0 = n  BY <1>1
  <2> QED BY <2>3, <2>4 DEF RowPad, RowBytes, w
<1>5. PadsOf(s) = {}  BY <1>4 DEF PadsOf
<1>6. DOMAIN Image(s) = {ByteAt(s, p) : p \in PixelsOf(s)}
  BY <1>5 DEF Image, PixelsOf, PadsOf, ByteAt
<1>7. n \in Nat \ {0} /\ w * h * 3 = h * n  BY <1>1
<1>8. ASSUME NEW p \in PixelsOf(s)  PROVE ByteAt(s, p) \in 0 .. h * n - 1
  <2>1. p[1] \in 0 .. h - 1 /\ p[2] \in 0 .. n - 1 /\ p[2] % 3 = 0 /\ p[3] \in 0 .. 2
    BY DEF PixelsOf, RowColumns
  <2>2. ByteAt(s, p) = p[1] * n + p[2] + p[3]  BY <1>4 DEF ByteAt
  <2>3. p[1] \in Nat /\ p[1] + 1 <= h  BY <1>1, <2>1
  <2>4. p[1] * n \in Nat /\ h * n \in Nat /\ p[1] * n + n <= h * n
    BY <1>1, <1>7, <2>3, RowsWithin
  <2>5. p[2] + p[3] \in Nat /\ p[2] + p[3] < n
    <3> DEFINE m == p[2] \div 3
    <3>1. p[2] = 3 * m /\ m \in Nat  BY <1>7, <2>1
    <3>2. p[2] < w * 3 /\ p[3] \in Nat /\ p[3] <= 2  BY <1>7, <2>1
    <3> HIDE DEF m
    <3>3. m + 1 <= w  BY <1>1, <3>1, <3>2
    <3> QED BY <1>1, <3>1, <3>2, <3>3
  <2>6. p[2] \in Nat /\ p[3] \in Nat  BY <1>7, <2>1
  <2> DEFINE a == p[1] * n
             b == h * n
             c == p[2] + p[3]
  <2>7. ByteAt(s, p) = a + c  BY <2>2, <2>4, <2>6
  <2>8. a \in Nat /\ b \in Nat /\ a + n <= b /\ c \in Nat /\ c < n /\ n \in Nat
    BY <1>7, <2>4, <2>5
  <2> HIDE DEF n, h, a, b, c
  <2>9. a + c \in 0 .. b - 1  BY <2>8
  <2> QED BY <2>7, <2>9 DEF b
<1>9. ASSUME NEW k \in 0 .. h * n - 1  PROVE k \in {ByteAt(s, p) : p \in PixelsOf(s)}
  <2> DEFINE i == k \div n
             r == k % n
             j == 3 * (r \div 3)
             ch == r % 3
             p == <<i, j, ch>>
  <2>1. k \in Nat /\ k < h * n /\ h * n \in Nat  BY <1>1, <1>7
  <2>2. i \in Nat /\ r \in Nat /\ r < n /\ k = i * n + r  BY <1>7, <2>1, Divided
  <2>3. i \in 0 .. h - 1
    <3>1. CASE i < h  BY <1>1, <2>2, <3>1
    <3>2. CASE h <= i
      <4>1. h * n <= i * n  BY <1>1, <1>7, <2>2, <3>2, Grows
      <4>2. i * n \in Nat  BY <1>7, <2>2
      <4> HIDE DEF i, r, h, n
      <4> QED BY <2>1, <2>2, <4>1, <4>2
    <3> HIDE DEF i, r, h
    <3> QED BY <1>1, <2>2, <3>1, <3>2
  <2>4. ch \in 0 .. 2 /\ r = j + ch /\ j \in Nat /\ j % 3 = 0
    <3>1. r = 3 * (r \div 3) + ch /\ r \div 3 \in Nat /\ ch \in 0 .. 2
      <4> HIDE DEF r
      <4> QED BY <2>2
    <3> DEFINE m == r \div 3
    <3>2. j = 3 * m /\ m \in Nat  BY <3>1
    <3> HIDE DEF m
    <3>3. j \in Nat /\ j % 3 = 0
      <4>1. (3 * m) % 3 = 0 /\ 3 * m \in Nat  BY <3>2
      <4> HIDE DEF j
      <4> QED BY <3>2, <4>1
    <3> QED BY <3>1, <3>3
  <2>5. j \in RowColumns(s)
    <3> HIDE DEF j, r, ch
    <3>1. j \in 0 .. n - 1  BY <1>7, <2>2, <2>4
    <3> QED BY <2>4, <3>1 DEF RowColumns
  <2>6. p \in PixelsOf(s)
    <3> HIDE DEF i, j, ch
    <3> QED BY <2>3, <2>4, <2>5, PixelIs
  <2>7. ByteAt(s, p) = i * n + j + ch  BY <1>4 DEF ByteAt
  <2>8. i * n \in Nat  BY <1>7, <2>2
  <2> HIDE DEF i, j, ch, r, n
  <2>9. ByteAt(s, p) = k  BY <2>2, <2>4, <2>7, <2>8
  <2> QED BY <2>6, <2>9
<1> HIDE DEF w, h, n
<1>10. {ByteAt(s, p) : p \in PixelsOf(s)} = 0 .. h * n - 1  BY <1>8, <1>9
<1> QED BY <1>6, <1>7, <1>10

LEMMA BitmapShows == BitmapInv => BitmapHolds
<1> SUFFICES ASSUME BitmapInv PROVE BitmapHolds  OBVIOUS
<1>1. CASE bmp = NoBitmap /\ image = << >> /\ c24 = << >>
  BY <1>1 DEF BitmapHolds, HeaderReads, ImageFilled, ReadsNearby, ColoursKept
<1>2. ASSUME NEW s \in Screens, NEW c \in Colours, bmp = Bitmap24(s), image = Image(s),
             data = Serialised(bmp), c16 = c, c24 = Color16to24(c)
      PROVE  BitmapHolds
  <2>1. c \in Nat /\ c < 65536  BY BitmapAssumption, SMT
  <2>2. ColoursKept  BY <1>2, <2>1, ColourParts, SMT DEF ColoursKept
  <2> QED BY <1>2, <2>2, HeaderIsRead, ImageIsFilled, ReadNearby, SMT DEF BitmapHolds
<1> QED BY <1>1, <1>2, SMT DEF BitmapInv

---------------------------------------------------------------------------
(* The volume on a card *)

\* What the driver has mounted is what it makes of the card in the slot.
MountInv ==
  /\ medium \in Media \cup {NoCard}
  /\ mounted = NoVolume \/ (medium \in Media /\ mounted = LookForFAT16(medium))

LEMMA InitMount == MountInit \/ MountIdle => MountInv
BY DEF MountInit, MountIdle, MountInv

LEMMA MountKeeps == MountInv /\ [LookAtCard]_mountVars => MountInv'
BY DEF MountInv, LookAtCard, mountVars

\* A volume that is accepted is laid out by the card's boot sector, from the
\* start that its format tells.
LEMMA VolumeIs ==
  ASSUME NEW card \in Media, LookForFAT16(card).accepted
  PROVE  /\ card.boot \in BootSectors
         /\ \E start :
              /\ LookForFAT16(card) = Layout(card.boot, start)
              /\ card.format = "floppy" => start = 0
              /\ card.format = "disk" =>
                   Partition(card) # 0 /\ start = card.parts[Partition(card)].offset
         /\ BitsForCluster(VolumeSectors(card.boot) \div card.boot.spc) = 16
<1> DEFINE volume ==
        CASE card.format = "floppy" -> Layout(card.boot, 0)
          [] card.format = "disk" /\ Partition(card) # 0 ->
               Layout(card.boot, card.parts[Partition(card)].offset)
          [] OTHER -> NoVolume
<1>1. LookForFAT16(card) = IF volume.accepted /\ volume.bits = 16 THEN volume ELSE NoVolume
  BY DEF LookForFAT16
<1>2. \A start : Layout(card.boot, start).bits = BitsForCluster(VolumeSectors(card.boot) \div card.boot.spc)
  BY DEF Layout
<1>3. /\ card.format = "floppy" => volume = Layout(card.boot, 0)
      /\ card.format = "disk" /\ Partition(card) # 0 =>
           volume = Layout(card.boot, card.parts[Partition(card)].offset)
      /\ card.format # "floppy" /\ ~(card.format = "disk" /\ Partition(card) # 0) => volume = NoVolume
  OBVIOUS
<1> HIDE DEF volume
<1>4. ~NoVolume.accepted  BY DEF NoVolume
<1>5. volume.accepted /\ volume.bits = 16 /\ LookForFAT16(card) = volume  BY <1>1, <1>4
<1>6. card.format = "floppy" \/ (card.format = "disk" /\ Partition(card) # 0)  BY <1>3, <1>4, <1>5
<1>7. card.boot \in BootSectors  BY MountAssumption
<1>8. CASE card.format = "floppy"
  BY <1>2, <1>3, <1>5, <1>7, <1>8
<1>9. CASE card.format = "disk" /\ Partition(card) # 0
  BY <1>2, <1>3, <1>5, <1>7, <1>9
<1> QED BY <1>6, <1>8, <1>9

\* A quotient times its divisor is at most what was divided.
LEMMA QuotientFits ==
  ASSUME NEW n \in Int, NEW d \in Nat \ {0}
  PROVE  n \div d \in Int /\ (n \div d) * d <= n /\ n < (n \div d + 1) * d
BY SMT

LEMMA QuotientGrows ==
  ASSUME NEW n \in Int, NEW m \in Int, n <= m, NEW d \in Nat \ {0}
  PROVE  n \div d <= m \div d
<1> DEFINE p == n \div d
           q == m \div d
<1>1. p \in Int /\ q \in Int /\ p * d <= n /\ m < (q + 1) * d  BY QuotientFits
<1> HIDE DEF p, q
<1>2. p * d < (q + 1) * d  BY <1>1
<1>3. p < q + 1
  <2> SUFFICES ASSUME p >= q + 1 PROVE FALSE  BY <1>1
  <2>1. p * d >= (q + 1) * d  BY <1>1
  <2> QED BY <1>1, <1>2, <2>1
<1> QED BY <1>1, <1>3 DEF p, q

\* The fields of a boot sector are numbers; a cluster has a sector.
LEMMA ByteFieldIs == \A n \in ByteField : n \in Nat /\ n >= 1
BY SMT DEF ByteField

LEMMA ShortFieldIs == \A n \in ShortField : n \in Nat
BY SMT DEF ShortField

LEMMA VolumeNumbered ==
  ASSUME NEW boot \in BootSectors, NEW start, NEW v, v = Layout(boot, start),
         BitsForCluster(VolumeSectors(boot) \div boot.spc) = 16, NEW cluster \in EndMarks
  PROVE  ~InVolume(v, cluster)
<1>1. /\ boot.spc \in Nat /\ boot.spc >= 1 /\ boot.reserved \in Nat /\ boot.table \in Nat
      /\ boot.entries \in Nat /\ boot.sectors16 \in Nat /\ boot.sectors32 \in Nat
  BY ByteFieldIs, ShortFieldIs DEF BootSectors
<1> DEFINE all == VolumeSectors(boot)
           spc == boot.spc
           before == v.data
           q == all \div spc
<1>2. /\ v.spc = spc /\ VolumeSectors(v) = all
      /\ before = (boot.reserved + boot.table) + boot.table + (32 * boot.entries) \div 512
  BY DEF Layout, BytesPerSector, VolumeSectors
<1>3. before \in Nat  BY <1>1, <1>2, SMT
<1>4. all \in Nat  BY <1>1 DEF VolumeSectors
<1>5. spc \in Nat \ {0}  BY <1>1
<1>6. q \in Int /\ q <= 65517
  <2>1. q \in Int  BY <1>4, <1>5, QuotientFits
  <2> QED BY <2>1 DEF BitsForCluster
<1>7. cluster \in Int /\ cluster - 2 >= 65518 + 8  BY DEF EndMarks
<1> HIDE DEF all, spc, before
<1>8. q \in Int /\ all < (q + 1) * spc  BY <1>4, <1>5, QuotientFits
<1> HIDE DEF q
<1>9. (q + 1) * spc <= (cluster - 2) * spc
  <2>1. q + 1 <= cluster - 2  BY <1>6, <1>7
  <2> DEFINE more == (cluster - 2) - (q + 1)
  <2>2. more \in Nat  BY <2>1, <1>6, <1>7
  <2>3. cluster - 2 = (q + 1) + more  BY <1>6, <1>7
  <2> HIDE DEF more
  <2>4. ((q + 1) + more) * spc = (q + 1) * spc + more * spc /\ more * spc >= 0
    BY <2>2, <1>5, <1>6
  <2>5. (q + 1) * spc \in Int /\ more * spc \in Int  BY <2>2, <1>5, <1>6
  <2> QED BY <2>3, <2>4, <2>5
<1>10. all < before + ((cluster - 2) * spc) + (spc - 1)
  <2> DEFINE a == (q + 1) * spc
             b == (cluster - 2) * spc
  <2>1. a \in Int /\ b \in Int  BY <1>5, <1>6, <1>7
  <2>2. all < a /\ a <= b  BY <1>8, <1>9
  <2> HIDE DEF a, b
  <2>3. all < before + b + (spc - 1)  BY <2>1, <2>2, <1>3, <1>4, <1>5
  <2> QED BY <2>3 DEF b
<1> DEFINE last == before + ((cluster - 2) * spc) + (spc - 1)
<1>11. InVolume(v, cluster) <=> last < all  BY <1>2 DEF InVolume, before
<1>12. last \in Int
  <2>1. (cluster - 2) * spc \in Int  BY <1>5, <1>7
  <2> QED BY <2>1, <1>3, <1>5
<1>13. all < last  BY <1>10
<1> HIDE DEF last
<1> QED BY <1>4, <1>11, <1>12, <1>13

\* The partition taken is the first of a kind the driver knows.
LEMMA FirstPartition ==
  ASSUME NEW card, Partition(card) # 0
  PROVE  LET fits(k) == card.parts[k].type \in FatTypes /\ card.parts[k].size > 0
         IN /\ Partition(card) \in 1 .. 4 /\ fits(Partition(card))
            /\ \A j \in 1 .. Partition(card) - 1 : ~fits(j)
<1> DEFINE fits(k) == card.parts[k].type \in FatTypes /\ card.parts[k].size > 0
           fit == {k \in 1 .. 4 : fits(k)}
<1>1. Partition(card) = Min(fit) /\ fit # {}  BY DEF Partition
<1>2. fit \in SUBSET Nat  OBVIOUS
<1> HIDE DEF fit
<1>3. Min(fit) \in fit /\ \A n \in fit : Min(fit) <= n  BY <1>1, <1>2, MinIs
<1> DEFINE p == Partition(card)
<1>4. p \in 1 .. 4 /\ fits(p)  BY <1>1, <1>3 DEF fit
<1> HIDE DEF fits, p
<1>5. ASSUME NEW j \in 1 .. p - 1 PROVE ~fits(j)
  <2>1. j \in 1 .. 4 /\ j < p  BY <1>4, <1>5
  <2>2. j \notin fit  BY <1>1, <1>3, <1>4, <2>1 DEF p
  <2> QED BY <2>1, <2>2 DEF fit
<1> QED BY <1>4, <1>5 DEF fits, p

LEMMA MountHolds == MountInv => ClustersNumbered /\ FirstVolume
<1> SUFFICES ASSUME MountInv, mounted.accepted PROVE ClustersNumbered /\ FirstVolume
  BY DEF ClustersNumbered, FirstVolume
<1>1. medium \in Media /\ mounted = LookForFAT16(medium)  BY DEF MountInv, NoVolume
<1>2. PICK start :
        /\ mounted = Layout(medium.boot, start)
        /\ medium.format = "floppy" => start = 0
        /\ medium.format = "disk" =>
             Partition(medium) # 0 /\ start = medium.parts[Partition(medium)].offset
  BY <1>1, VolumeIs
<1>3. ClustersNumbered
  <2>1. /\ medium.boot \in BootSectors
        /\ BitsForCluster(VolumeSectors(medium.boot) \div medium.boot.spc) = 16
    BY <1>1, VolumeIs
  <2> QED BY <1>2, <2>1, VolumeNumbered DEF ClustersNumbered
<1>4. FirstVolume
  <2>1. mounted.start = start  BY <1>2 DEF Layout
  <2>2. ASSUME medium.format = "disk"
        PROVE  \E k \in 1 .. 4 :
                 /\ medium.parts[k].type \in FatTypes /\ medium.parts[k].size > 0
                 /\ mounted.start = medium.parts[k].offset
                 /\ \A j \in 1 .. k - 1 : ~(medium.parts[j].type \in FatTypes /\ medium.parts[j].size > 0)
    BY <1>2, <2>1, <2>2, FirstPartition
  <2> QED BY <1>2, <2>1, <2>2 DEF FirstVolume
<1> QED BY <1>3, <1>4

---------------------------------------------------------------------------
(* Sums over finite sets *)

SumOf(g) == FoldFunction(+, 0, g)

Pick(s) == CHOOSE x \in s : TRUE
SumStep(h, g, s) == IF s = {} THEN 0 ELSE g[Pick(s)] + h[s \ {Pick(s)}]
IsSum(h, g, D) == h = [s \in D |-> SumStep(h, g, s)]

\* The sum over a part s of the set S that g is defined on.
PartOf(g, S, s) == (CHOOSE h : IsSum(h, g, SUBSET S))[s]

LEMMA SumIs ==
  ASSUME NEW g
  PROVE  SumOf(g) = PartOf(g, DOMAIN g, DOMAIN g)
BY DEF SumOf, FoldFunction, FoldFunctionOnSet, MapThenFoldSet, IsSum, SumStep, Pick, PartOf

LEMMA SubsetsAre ==
  ASSUME NEW S, IsFiniteSet(S), NEW s \in SUBSET S
  PROVE  /\ IsFiniteSet(s) /\ Cardinality(s) \in Nat /\ Cardinality(s) <= Cardinality(S)
         /\ \A x \in s : s \ {x} \in SUBSET S /\ Cardinality(s \ {x}) = Cardinality(s) - 1
         /\ s # {} => Pick(s) \in s
<1>1. IsFiniteSet(s) /\ Cardinality(s) \in Nat /\ Cardinality(s) <= Cardinality(S)
  BY FS_Subset, FS_CardinalityType
<1>2. \A x \in s : Cardinality(s \ {x}) = Cardinality(s) - 1  BY <1>1, FS_RemoveElement
<1> QED BY <1>1, <1>2 DEF Pick

\* Subsets of a finite set, one element more at a time.
LEMMA BySubsets ==
  ASSUME NEW S, IsFiniteSet(S), NEW Good,
         \A s \in SUBSET S : (\A x \in s : s \ {x} \in Good) => s \in Good
  PROVE  \A s \in SUBSET S : s \in Good
<1> SUFFICES ASSUME NEW t \in SUBSET S, t \notin Good PROVE FALSE
  OBVIOUS
<1> DEFINE BadSizes == {Cardinality(s) : s \in {u \in SUBSET S : u \notin Good}}
<1>1. BadSizes \in SUBSET Nat /\ BadSizes # {}  BY SubsetsAre
<1>2. PICK m \in BadSizes : \A n \in BadSizes : m <= n  BY <1>1, LeastNumber
<1>3. PICK s \in SUBSET S : s \notin Good /\ Cardinality(s) = m  BY <1>2
<1>4. PICK x \in s : s \ {x} \notin Good  BY <1>3
<1>5. s \ {x} \in SUBSET S /\ Cardinality(s \ {x}) = m - 1  BY <1>3, <1>4, SubsetsAre
<1>6. m - 1 \in BadSizes  BY <1>4, <1>5
<1>7. m <= m - 1 /\ m \in Nat  BY <1>1, <1>2, <1>6
<1> QED BY <1>7

LEMMA SumsExist ==
  ASSUME NEW S, IsFiniteSet(S), NEW g
  PROVE  \E h : IsSum(h, g, SUBSET S)
<1> DEFINE Upto(n) == {s \in SUBSET S : Cardinality(s) <= n}
           Can(n) == \E h : IsSum(h, g, Upto(n))
<1>1. Can(0)
  <2> DEFINE h == [s \in Upto(0) |-> 0]
  <2>1. \A s \in Upto(0) : s = {}
    BY SubsetsAre, FS_EmptySet
  <2>2. \A s \in Upto(0) : SumStep(h, g, s) = 0  BY <2>1 DEF SumStep
  <2>3. h = [s \in Upto(0) |-> SumStep(h, g, s)]  BY <2>2
  <2> QED BY <2>3 DEF IsSum
<1>2. ASSUME NEW n \in Nat, Can(n) PROVE Can(n + 1)
  <2>1. PICK h : IsSum(h, g, Upto(n))  BY <1>2
  <2> DEFINE k == [s \in Upto(n + 1) |-> SumStep(h, g, s)]
  <2>2. \A s \in Upto(n) : s \in Upto(n + 1)  BY SubsetsAre
  <2>3. \A s \in Upto(n) : k[s] = h[s]  BY <2>1, <2>2 DEF IsSum
  <2>4. \A s \in Upto(n + 1) : s # {} => s \ {Pick(s)} \in Upto(n)  BY SubsetsAre
  <2> HIDE DEF Upto
  <2>5. \A s \in Upto(n + 1) : SumStep(k, g, s) = SumStep(h, g, s)
    <3> HIDE DEF k
    <3> QED BY <2>3, <2>4 DEF SumStep
  <2>6. k = [s \in Upto(n + 1) |-> SumStep(k, g, s)]  BY <2>5
  <2> QED BY <2>6 DEF IsSum
<1>3. \A n \in Nat : Can(n)
  <2> HIDE DEF Can
  <2> SUFFICES ASSUME NEW j \in Nat, ~Can(j) PROVE FALSE  OBVIOUS
  <2> DEFINE Bad == {n \in Nat : ~Can(n)}
  <2>1. PICK m \in Bad : \A n \in Bad : m <= n  BY LeastNumber
  <2>2. m # 0 /\ m \in Nat  BY <1>1, <2>1
  <2>3. m - 1 \in Nat /\ ~(m <= m - 1)  BY <2>2
  <2>4. Can(m - 1)  BY <2>1, <2>3
  <2>5. Can((m - 1) + 1)  BY <1>2, <2>3, <2>4
  <2>6. (m - 1) + 1 = m  BY <2>2
  <2> QED BY <2>1, <2>5, <2>6
<1>4. Cardinality(S) \in Nat  BY FS_CardinalityType
<1>5. Upto(Cardinality(S)) = SUBSET S  BY SubsetsAre
<1> QED BY <1>3, <1>4, <1>5

LEMMA PartIs ==
  ASSUME NEW S, IsFiniteSet(S), NEW g, NEW s \in SUBSET S
  PROVE  PartOf(g, S, s) = IF s = {} THEN 0 ELSE g[Pick(s)] + PartOf(g, S, s \ {Pick(s)})
<1> DEFINE h == CHOOSE k : IsSum(k, g, SUBSET S)
<1>1. IsSum(h, g, SUBSET S)  BY SumsExist
<1> HIDE DEF h
<1>2. h[s] = SumStep(h, g, s)  BY <1>1 DEF IsSum
<1> QED BY <1>2 DEF SumStep, PartOf, h

LEMMA PartNat ==
  ASSUME NEW S, IsFiniteSet(S), NEW g \in [S -> Nat]
  PROVE  \A s \in SUBSET S : PartOf(g, S, s) \in Nat
<1> DEFINE Good == {s \in SUBSET S : PartOf(g, S, s) \in Nat}
<1>1. ASSUME NEW s \in SUBSET S, \A x \in s : s \ {x} \in Good PROVE s \in Good
  <2>0. PartOf(g, S, s) = IF s = {} THEN 0 ELSE g[Pick(s)] + PartOf(g, S, s \ {Pick(s)})
    BY PartIs
  <2>1. CASE s = {}
    <3>1. PartOf(g, S, s) = 0  BY <2>0, <2>1
    <3> QED BY <3>1
  <2>2. CASE s # {}
    <3>1. Pick(s) \in s  BY <2>2, SubsetsAre
    <3>2. g[Pick(s)] \in Nat /\ PartOf(g, S, s \ {Pick(s)}) \in Nat  BY <1>1, <3>1
    <3> QED BY <2>0, <2>2, <3>2
  <2> QED BY <2>1, <2>2
<1> HIDE DEF Good
<1>2. \A s \in SUBSET S : s \in Good  BY <1>1, BySubsets
<1> QED BY <1>2 DEF Good

\* Any element may be taken out first.
LEMMA PartAny ==
  ASSUME NEW S, IsFiniteSet(S), NEW g \in [S -> Nat], NEW t \in SUBSET S, NEW z \in t
  PROVE  PartOf(g, S, t) = g[z] + PartOf(g, S, t \ {z})
<1> DEFINE Good == {s \in SUBSET S : \A y \in s : PartOf(g, S, s) = g[y] + PartOf(g, S, s \ {y})}
<1>1. ASSUME NEW s \in SUBSET S, \A x \in s : s \ {x} \in Good PROVE s \in Good
  <2> SUFFICES ASSUME NEW y \in s PROVE PartOf(g, S, s) = g[y] + PartOf(g, S, s \ {y})
    OBVIOUS
  <2> DEFINE x == Pick(s)
  <2>1. x \in s  BY SubsetsAre
  <2>2. PartOf(g, S, s) = g[x] + PartOf(g, S, s \ {x})  BY PartIs
  <2> HIDE DEF x
  <2>3. CASE x # y
    <3>1. y \in s \ {x} /\ x \in s \ {y}  BY <2>1, <2>3
    <3>2. PartOf(g, S, s \ {x}) = g[y] + PartOf(g, S, (s \ {x}) \ {y})  BY <1>1, <2>1, <3>1
    <3>3. PartOf(g, S, s \ {y}) = g[x] + PartOf(g, S, (s \ {y}) \ {x})  BY <1>1, <3>1
    <3>4. (s \ {x}) \ {y} = (s \ {y}) \ {x}  OBVIOUS
    <3>5. PartOf(g, S, (s \ {x}) \ {y}) \in Nat  BY PartNat
    <3>6. g[x] \in Nat /\ g[y] \in Nat  BY <2>1
    <3> DEFINE r == PartOf(g, S, (s \ {x}) \ {y})
    <3>7. /\ PartOf(g, S, s \ {x}) = g[y] + r /\ PartOf(g, S, s \ {y}) = g[x] + r
          /\ r \in Nat
      BY <3>2, <3>3, <3>4, <3>5
    <3> HIDE DEF r
    <3> QED BY <2>2, <3>6, <3>7
  <2> QED BY <2>2, <2>3
<1> HIDE DEF Good
<1>2. t \in Good  BY <1>1, BySubsets
<1> QED BY <1>2 DEF Good

\* A sum depends on what is summed.
LEMMA PartSame ==
  ASSUME NEW S, NEW V, IsFiniteSet(S), IsFiniteSet(V), NEW T, T \subseteq S, T \subseteq V,
         NEW g, NEW f, \A x \in T : g[x] = f[x]
  PROVE  PartOf(g, S, T) = PartOf(f, V, T)
<1> DEFINE Good == {s \in SUBSET T : PartOf(g, S, s) = PartOf(f, V, s)}
<1>1. ASSUME NEW s \in SUBSET T, \A x \in s : s \ {x} \in Good PROVE s \in Good
  <2>1. IsFiniteSet(T)  BY FS_Subset
  <2>2. s # {} => Pick(s) \in s  BY <2>1, SubsetsAre
  <2>3. /\ PartOf(g, S, s) = IF s = {} THEN 0 ELSE g[Pick(s)] + PartOf(g, S, s \ {Pick(s)})
        /\ PartOf(f, V, s) = IF s = {} THEN 0 ELSE f[Pick(s)] + PartOf(f, V, s \ {Pick(s)})
    BY PartIs
  <2>4. s # {} => /\ PartOf(g, S, s \ {Pick(s)}) = PartOf(f, V, s \ {Pick(s)})
                  /\ g[Pick(s)] = f[Pick(s)]
    BY <1>1, <2>2
  <2> QED BY <2>3, <2>4
<1> HIDE DEF Good
<1>2. IsFiniteSet(T)  BY FS_Subset
<1>3. \A s \in SUBSET T : s \in Good  BY <1>1, <1>2, BySubsets
<1> QED BY <1>3 DEF Good

LEMMA SumNat ==
  ASSUME NEW S, IsFiniteSet(S), NEW g \in [S -> Nat]
  PROVE  SumOf(g) = PartOf(g, S, S) /\ SumOf(g) \in Nat
BY SumIs, PartNat

LEMMA SumOfNone ==
  ASSUME NEW g \in [{} -> Nat] PROVE SumOf(g) = 0
<1>1. IsFiniteSet({})  BY FS_EmptySet
<1> QED BY <1>1, SumNat, PartIs

LEMMA SumAdds ==
  ASSUME NEW S, IsFiniteSet(S), NEW g \in [S -> Nat], NEW e, e \notin S,
         NEW k \in [S \cup {e} -> Nat], \A x \in S : k[x] = g[x]
  PROVE  SumOf(k) = SumOf(g) + k[e]
<1> DEFINE V == S \cup {e}
<1>1. IsFiniteSet(V)  BY FS_AddElement
<1>2. k \in [V -> Nat] /\ S \subseteq V /\ e \in V /\ V \ {e} = S  OBVIOUS
<1>3. k[e] \in Nat  BY <1>2
<1> HIDE DEF V
<1>4. PartOf(k, V, V) = k[e] + PartOf(k, V, S)  BY <1>1, <1>2, PartAny
<1>5. PartOf(k, V, S) = PartOf(g, S, S)  BY <1>1, <1>2, PartSame
<1>6. SumOf(k) = PartOf(k, V, V)  BY <1>1, <1>2, SumNat
<1>7. SumOf(g) = PartOf(g, S, S) /\ SumOf(g) \in Nat  BY SumNat
<1> QED BY <1>3, <1>4, <1>5, <1>6, <1>7

LEMMA SumChanges ==
  ASSUME NEW S, IsFiniteSet(S), NEW g \in [S -> Nat], NEW k \in [S -> Nat], NEW e \in S,
         \A x \in S : x # e => k[x] = g[x]
  PROVE  SumOf(k) + g[e] = SumOf(g) + k[e]
<1> DEFINE T == S \ {e}
<1>1. PartOf(g, S, S) = g[e] + PartOf(g, S, T)  BY PartAny
<1>2. PartOf(k, S, S) = k[e] + PartOf(k, S, T)  BY PartAny
<1>3. T \subseteq S /\ \A x \in T : g[x] = k[x]  OBVIOUS
<1>4. PartOf(g, S, T) \in Nat  BY PartNat
<1> HIDE DEF T
<1>5. PartOf(g, S, T) = PartOf(k, S, T)  BY <1>3, PartSame
<1>6. SumOf(g) = PartOf(g, S, S) /\ SumOf(k) = PartOf(k, S, S)  BY SumNat
<1>7. g[e] \in Nat /\ k[e] \in Nat  OBVIOUS
<1> QED BY <1>1, <1>2, <1>4, <1>5, <1>6, <1>7

---------------------------------------------------------------------------
(* The profile *)

McSteps == {"out", "function", "arc", "store", "record", "clear", "start", "started", "not started",
            "add function", "add arc"}
ArcEntries == [from : Callers, count : Nat, at : Nat]
FnEntries == [self : Functions, arcs : Seq(ArcEntries), at : Nat]
CallStates ==
  [pc : McSteps, self : Functions \cup {"none"}, from : Callers \cup {"none"}, head : Nat, fn : Nat,
   arc : Nat, count : Nat]

ProfTypes ==
  /\ fns \in Seq(FnEntries)
  /\ slab \in [ptr : Nat, left : Nat, top : Nat] /\ slab.ptr + slab.left = slab.top
  /\ doing \in [Who -> CallStates] /\ inside \in BOOLEAN

\* The places of a function in the list, and of an arc in a function's.
FnsOf(self) == {f \in 1 .. Len(fns) : fns[f].self = self}
ArcsOf(f, from) == {k \in 1 .. Len(fns[f].arcs) : fns[f].arcs[k].from = from}

\* What a call of mcount has found is there.
CallHolds(c) ==
  /\ c.pc # "out" => c.self \in Functions /\ c.from \in Callers
  /\ c.fn # 0 => c.fn \in 1 .. Len(fns) /\ fns[c.fn].self = c.self
  /\ c.pc = "function" => c.fn = 0 /\ c.head <= Len(fns)
  /\ c.pc \in {"arc", "store", "add arc"} => c.fn # 0
  /\ c.pc = "arc" => 0 < c.head /\ c.head <= Len(fns[c.fn].arcs)
  /\ c.pc = "store" => c.arc \in ArcsOf(c.fn, c.from)

\* A call that adds a function, or an arc, because it did not find it.
AddsFunction(c) ==
  c.pc # "out" /\ c.fn = 0 /\ (c.pc = "function" => \A k \in 1 .. c.head : fns[k].self # c.self)
AddsArc(c) ==
  /\ c.pc \notin {"out", "store"} /\ c.fn # 0
  /\ c.pc = "arc" => \A k \in 1 .. c.head : fns[c.fn].arcs[k].from # c.from

\* The handler runs alone, so that what it did not find is not there; what the
\* program did not find may have been added once since.
AtMostOne(S) == \A x, y \in S : x = y
AtMostTwo(S) == \A x, y, z \in S : x = y \/ y = z \/ x = z
Room(w, S) == IF w = "handler" THEN S = {} ELSE AtMostOne(S)
MayAdd(w, c) ==
  /\ AddsFunction(c) => Room(w, FnsOf(c.self))
  /\ AddsArc(c) => Room(w, ArcsOf(c.fn, c.from))

CallsInv == \A w \in Who : CallHolds(doing[w]) /\ MayAdd(w, doing[w])
TurnsInv ==
  /\ inside => doing["program"].pc \notin MaskedAt
  /\ ~inside => doing["handler"].pc = "out"

\* A function without an arc is one whose first arc is being added.
ArcsInv ==
  \A f \in 1 .. Len(fns) : fns[f].arcs # << >> \/ (Here.pc = "add arc" /\ Here.fn = f)

FewInv ==
  /\ \A a \in Functions : AtMostTwo(FnsOf(a))
  /\ \A f \in 1 .. Len(fns), c \in Callers : AtMostTwo(ArcsOf(f, c))

\* The entries lie below the rest of the slab, apart from each other.
ProfEntries ==
  {<<0, f>> : f \in 1 .. Len(fns)} \cup
  UNION {{<<f, k>> : k \in 1 .. Len(fns[f].arcs)} : f \in 1 .. Len(fns)}
PlaceOf(e) == IF e[1] = 0 THEN fns[e[2]].at ELSE fns[e[1]].arcs[e[2]].at
PlacesInv ==
  /\ \A e \in ProfEntries : PlaceOf(e) \in Nat /\ PlaceOf(e) + EntryBytes <= slab.ptr
  /\ \A e, g \in ProfEntries :
       e = g \/ PlaceOf(e) + EntryBytes <= PlaceOf(g) \/ PlaceOf(g) + EntryBytes <= PlaceOf(e)

ListsInv == ProfTypes /\ CallsInv /\ TurnsInv /\ ArcsInv /\ FewInv /\ PlacesInv

\* Unless the race has been lost, one call at most starts the sampler, while
\* the flag says so and no alarm has been started.
Starting == {"start", "started", "not started"}
SamplerInv ==
  /\ starts \in Nat /\ raced \in BOOLEAN /\ pcsample_need_init \in BOOLEAN
  /\ raced \/
       /\ starts <= 1 /\ (pcsample_need_init => starts = 0)
       /\ \A w \in Who :
            /\ doing[w].pc = "clear" => pcsample_need_init
            /\ doing[w].pc \in Starting => ~pcsample_need_init
            /\ doing[w].pc \in {"start", "not started"} => starts = 0
       /\ ~(doing["program"].pc \in Starting \cup {"clear"} /\ doing["handler"].pc \in Starting \cup {"clear"})

ProfInv == ListsInv /\ SamplerInv /\ SamplesInside

\* Calls that have ended are counted, but for those of the handler whose count
\* the program has overwritten; a call under way is one that has not ended.
ArcOfCall(c) == <<c.self, c.from>>
CountAt(c) == fns[c.fn].arcs[c.arc].count

EndedInv ==
  /\ begun \in [Who -> [Arcs -> Nat]] /\ ended \in [Who -> [Arcs -> Nat]]
  /\ \A w \in Who, a \in Arcs :
       /\ ended[w][a] <= begun[w][a]
       /\ doing[w].pc # "out" /\ a = ArcOfCall(doing[w]) => ended[w][a] < begun[w][a]

TotalsInv ==
  \A a \in Arcs :
    /\ ended["program"][a] <= Total(a)
    /\ Total(a) <= ended["program"][a] + ended["handler"][a]

\* A count that was loaded may be old when the program stores it, not when the
\* handler does; what it was still makes up for the calls that had ended then.
StoresInv ==
  /\ doing["handler"].pc = "store" => doing["handler"].count = CountAt(doing["handler"])
  /\ doing["program"].pc = "store" =>
       LET c == doing["program"]
       IN /\ c.count <= CountAt(c)
          /\ ended["program"][ArcOfCall(c)] + CountAt(c) <= Total(ArcOfCall(c)) + c.count

CountInv == EndedInv /\ TotalsInv /\ StoresInv

LEMMA GreatestNumber ==
  ASSUME NEW n \in Nat, NEW S \in SUBSET (1 .. n), S # {}
  PROVE  Max(S) \in S /\ \A m \in S : m <= Max(S)
<1> DEFINE T == {n - x : x \in S}
<1>1. T \in SUBSET Nat /\ T # {}
  <2>1. \A x \in S : x \in Nat /\ x <= n  OBVIOUS
  <2>2. \A x \in S : n - x \in Nat  BY <2>1
  <2> QED BY <2>2
<1>2. PICK t \in T : \A u \in T : t <= u  BY <1>1, LeastNumber
<1>3. PICK x \in S : t = n - x  BY <1>2
<1>4. \A y \in S : x >= y
  <2> SUFFICES ASSUME NEW y \in S PROVE x >= y  OBVIOUS
  <2>1. n - y \in T  OBVIOUS
  <2>2. n - x <= n - y  BY <1>2, <1>3, <2>1
  <2> QED BY <2>2
<1>5. Max(S) \in S /\ \A y \in S : Max(S) >= y  BY <1>4 DEF Max
<1> QED BY <1>5

\* What the search returns: a place that was found, or 0 and nothing was.
LEMMA NewestIs ==
  ASSUME NEW n \in Nat, NEW S \in SUBSET (1 .. n)
  PROVE  /\ Newest(S) \in Nat /\ Newest(S) <= n
         /\ Newest(S) = 0 => S = {}
         /\ Newest(S) # 0 => Newest(S) \in S
<1>1. CASE S = {}  BY <1>1 DEF Newest
<1>2. CASE S # {}
  <2>1. Max(S) \in S  BY <1>2, GreatestNumber
  <2>2. Max(S) \in 1 .. n  BY <2>1
  <2> QED BY <1>2, <2>1, <2>2 DEF Newest
<1> QED BY <1>1, <1>2

\* Small sets by their cardinality.
LEMMA FewElements ==
  ASSUME NEW S, IsFiniteSet(S), AtMostTwo(S)
  PROVE  Cardinality(S) <= 2
<1>1. CASE S = {}  BY <1>1, FS_EmptySet
<1>2. CASE S # {}
  <2>1. PICK x \in S : TRUE  BY <1>2
  <2>2. PICK y \in S : S \subseteq {x, y}
    <3>1. CASE S = {x}  BY <3>1
    <3>2. CASE S # {x}
      <4>1. PICK y \in S : y # x  BY <2>1, <3>2
      <4>2. S \subseteq {x, y}  BY <2>1, <4>1 DEF AtMostTwo
      <4> QED BY <4>1, <4>2
    <3> QED BY <3>1, <3>2
  <2>3. IsFiniteSet({x, y}) /\ Cardinality({x, y}) <= 2
    <3>1. IsFiniteSet({x}) /\ Cardinality({x}) = 1  BY FS_Singleton
    <3>2. {x} \cup {y} = {x, y}  OBVIOUS
    <3>3. IsFiniteSet({x} \cup {y}) /\ Cardinality({x} \cup {y}) <= 2
      BY <3>1, FS_AddElement
    <3> QED BY <3>2, <3>3
  <2>4. Cardinality(S) <= Cardinality({x, y}) /\ Cardinality(S) \in Nat /\ Cardinality({x, y}) \in Nat
    BY <2>2, <2>3, FS_Subset, FS_CardinalityType
  <2> QED BY <2>3, <2>4
<1> QED BY <1>1, <1>2

LEMMA InitProfile == ProfileInit => ProfInv
<1> SUFFICES ASSUME ProfileInit PROVE ProfInv  OBVIOUS
<1> USE DEF ProfileInit
<1>1. fns = << >> /\ Len(fns) = 0 /\ fns \in Seq(FnEntries)  BY EmptySeq
<1>2. Resting \in CallStates /\ Resting.pc = "out" /\ Resting.fn = 0
  BY DEF Resting, CallStates, McSteps
<1>3. \A w \in Who : doing[w] = Resting  OBVIOUS
<1>4. doing \in [Who -> CallStates]  BY <1>2
<1>5. ProfTypes
  <2>1. slab \in [ptr : Nat, left : Nat, top : Nat] /\ slab.ptr + slab.left = slab.top  OBVIOUS
  <2>2. inside \in BOOLEAN  OBVIOUS
  <2> HIDE DEF ProfileInit
  <2> QED BY <1>1, <1>4, <2>1, <2>2 DEF ProfTypes
<1>6. CallsInv  BY <1>2, <1>3 DEF CallsInv, CallHolds, MayAdd, AddsFunction, AddsArc
<1>7. TurnsInv  BY <1>2, <1>3 DEF TurnsInv, Who
<1>8. \A f : f \notin 1 .. Len(fns)  BY <1>1
<1>9. ArcsInv /\ PlacesInv
  <2>1. ProfEntries = {}  BY <1>8 DEF ProfEntries
  <2> QED BY <1>8, <2>1 DEF ArcsInv, PlacesInv
<1>10. FewInv  BY <1>8 DEF FewInv, FnsOf, AtMostTwo
<1>11. SamplerInv
  <2>1. \A w \in Who : doing[w].pc = "out"  BY <1>2, <1>3
  <2>2. starts \in Nat /\ starts <= 1 /\ starts = 0  OBVIOUS
  <2>5. raced \in BOOLEAN /\ pcsample_need_init \in BOOLEAN  BY Zenon
  <2>3. doing["program"].pc = "out"  BY <2>1 DEF Who
  <2>4. "out" \notin Starting \cup {"clear"} /\ "out" # "clear" /\ "out" \notin {"start", "not started"}
    BY DEF Starting
  <2> HIDE DEF ProfileInit
  <2> QED BY <2>1, <2>2, <2>3, <2>4, <2>5, Zenon DEF SamplerInv
<1>12. SamplesInside  BY DEF SamplesInside
<1> QED BY <1>5, <1>6, <1>7, <1>9, <1>10, <1>11, <1>12 DEF ProfInv, ListsInv

\* The one that moves, and the other.
LEMMA NowIs0 ==
  ASSUME ListsInv
  PROVE  /\ Now0 \in Who /\ Here \in CallStates /\ CallHolds(Here) /\ MayAdd(Now0, Here)
         /\ \A w \in Who : w # Now0 => doing[w].pc \notin MaskedAt
         /\ \A w \in Who : w # Now0 /\ w = "handler" => doing[w].pc = "out"
         /\ Now0 = "handler" <=> inside
<1>1. Now0 \in Who /\ (Now0 = "handler" <=> inside)  BY DEF ListsInv, ProfTypes, Now0, Who
<1>2. Here \in CallStates  BY <1>1 DEF ListsInv, ProfTypes, Here
<1>3. \A w \in Who : w # Now0 => doing[w].pc \notin MaskedAt
  BY DEF ListsInv, TurnsInv, ProfTypes, Now0, Who, MaskedAt
<1>4. \A w \in Who : w # Now0 /\ w = "handler" => doing[w].pc = "out"
  BY DEF ListsInv, TurnsInv, ProfTypes, Now0, Who
<1> QED BY <1>1, <1>2, <1>3, <1>4 DEF ListsInv, CallsInv, Here

\* Lists with the same functions and arcs in the same places.
SameLists(s) ==
  /\ Len(s) = Len(fns)
  /\ \A f \in 1 .. Len(fns) :
       /\ s[f].self = fns[f].self /\ s[f].at = fns[f].at /\ Len(s[f].arcs) = Len(fns[f].arcs)
       /\ (s[f].arcs = << >>) = (fns[f].arcs = << >>)
       /\ \A k \in 1 .. Len(fns[f].arcs) :
            s[f].arcs[k].from = fns[f].arcs[k].from /\ s[f].arcs[k].at = fns[f].arcs[k].at

LEMMA SameFound ==
  ASSUME ListsInv, SameLists(fns')
  PROVE  /\ \A a : FnsOf(a)' = FnsOf(a)
         /\ \A f \in 1 .. Len(fns) : \A c : ArcsOf(f, c)' = ArcsOf(f, c)
         /\ ProfEntries' = ProfEntries
         /\ \A e \in ProfEntries : PlaceOf(e)' = PlaceOf(e)
<1>1. Len(fns) \in Nat  BY LenProperties DEF ListsInv, ProfTypes
<1>2. \A a : FnsOf(a)' = FnsOf(a)  BY DEF SameLists, FnsOf
<1>3. \A f \in 1 .. Len(fns) : \A c : ArcsOf(f, c)' = ArcsOf(f, c)  BY DEF SameLists, ArcsOf
<1>4. ProfEntries' = ProfEntries  BY DEF SameLists, ProfEntries
<1>5. ASSUME NEW e \in ProfEntries PROVE PlaceOf(e)' = PlaceOf(e)
  <2>1. CASE \E f \in 1 .. Len(fns) : e = <<0, f>>
    BY <2>1 DEF SameLists, PlaceOf
  <2>2. CASE \E f \in 1 .. Len(fns) : \E k \in 1 .. Len(fns[f].arcs) : e = <<f, k>>
    <3>1. PICK f \in 1 .. Len(fns) : \E k \in 1 .. Len(fns[f].arcs) : e = <<f, k>>  BY <2>2
    <3>2. f # 0  BY <1>1
    <3> QED BY <3>1, <3>2 DEF SameLists, PlaceOf
  <2> QED BY <2>1, <2>2 DEF ProfEntries
<1> QED BY <1>2, <1>3, <1>4, <1>5

LEMMA SameCall ==
  ASSUME ListsInv, SameLists(fns'), NEW c \in CallStates, NEW w
  PROVE  /\ CallHolds(c) => CallHolds(c)'
         /\ CallHolds(c) /\ MayAdd(w, c) => MayAdd(w, c)'
<1>1. Len(fns) \in Nat  BY LenProperties DEF ListsInv, ProfTypes
<1>2. c.head \in Nat  BY DEF CallStates
<1>3. CallHolds(c) => CallHolds(c)'
  BY SameFound DEF CallHolds, SameLists
<1>4. ASSUME CallHolds(c) PROVE AddsFunction(c)' => AddsFunction(c)
  <2>1. c.pc = "function" => \A k \in 1 .. c.head : k \in 1 .. Len(fns)
    BY <1>1, <1>2, <1>4 DEF CallHolds
  <2> QED BY <2>1 DEF AddsFunction, SameLists
<1>5. ASSUME CallHolds(c) PROVE AddsArc(c)' => AddsArc(c)
  <2>1. c.pc = "arc" => c.fn \in 1 .. Len(fns) /\ c.head <= Len(fns[c.fn].arcs)
    BY <1>5 DEF CallHolds
  <2>2. \A f \in 1 .. Len(fns) : Len(fns[f].arcs) \in Nat
    BY ElementOfSeq, LenProperties DEF ListsInv, ProfTypes, FnEntries
  <2>3. c.pc = "arc" => \A k \in 1 .. c.head : k \in 1 .. Len(fns[c.fn].arcs)
    BY <1>2, <2>1, <2>2
  <2> QED BY <2>1, <2>3 DEF AddsArc, SameLists
<1>6. ASSUME CallHolds(c), MayAdd(w, c), AddsFunction(c)' PROVE Room(w, FnsOf(c.self))'
  BY <1>4, <1>6, SameFound DEF MayAdd, Room
<1>7. ASSUME CallHolds(c), MayAdd(w, c), AddsArc(c)' PROVE Room(w, ArcsOf(c.fn, c.from))'
  <2>1. c.fn \in 1 .. Len(fns)  BY <1>5, <1>7 DEF AddsArc, CallHolds
  <2> QED BY <1>5, <1>7, <2>1, SameFound DEF MayAdd, Room
<1> QED BY <1>3, <1>6, <1>7 DEF MayAdd

\* A step that leaves the lists as they are, counts aside.
LEMMA CallMoves ==
  ASSUME ListsInv, SameLists(fns'), fns' \in Seq(FnEntries), UNCHANGED <<slab, inside>>,
         NEW c \in CallStates, Goes(c), CallHolds(c), MayAdd(Now0, c), Here.pc # "add arc"
  PROVE  ListsInv'
<1>1. Now0 \in Who /\ Now0' = Now0  BY NowIs0 DEF Now0
<1>2. doing' \in [Who -> CallStates] /\ doing'[Now0] = c
      /\ \A w \in Who : w # Now0 => doing'[w] = doing[w]
  BY <1>1 DEF Goes, ListsInv, ProfTypes
<1>3. ProfTypes'  BY <1>2 DEF ListsInv, ProfTypes
<1>4. CallsInv'
  <2> SUFFICES ASSUME NEW w \in Who PROVE CallHolds(doing[w])' /\ MayAdd(w, doing[w])'
    BY DEF CallsInv
  <2>1. CASE w = Now0
    <3>1. CallHolds(c)' /\ MayAdd(w, c)'  BY <2>1, SameCall
    <3> QED BY <1>2, <2>1, <3>1 DEF CallHolds, MayAdd, AddsFunction, AddsArc
  <2>2. CASE w # Now0
    <3>1. doing[w] \in CallStates /\ CallHolds(doing[w]) /\ MayAdd(w, doing[w])
      BY DEF ListsInv, ProfTypes, CallsInv
    <3> DEFINE d == doing[w]
    <3>2. d \in CallStates /\ CallHolds(d) /\ MayAdd(w, d)  BY <3>1
    <3>3. doing'[w] = d  BY <1>2, <2>2
    <3> HIDE DEF d
    <3>4. PICK x : x = d  OBVIOUS
    <3>5. CallHolds(x)' /\ MayAdd(w, x)'  BY <3>2, <3>4, SameCall
    <3> QED BY <3>3, <3>4, <3>5 DEF CallHolds, MayAdd, AddsFunction, AddsArc
  <2> QED BY <2>1, <2>2
<1>5. TurnsInv'
  <2>1. \A w \in Who : w # Now0 => doing'[w].pc = doing[w].pc  BY <1>2
  <2> QED BY <1>1, <2>1 DEF ListsInv, TurnsInv, Now0, Who, ProfTypes
<1>6. ArcsInv'
  <2> SUFFICES ASSUME NEW f \in 1 .. Len(fns') PROVE fns'[f].arcs # << >>  BY DEF ArcsInv
  <2>1. f \in 1 .. Len(fns) /\ fns[f].arcs # << >>  BY DEF SameLists, ListsInv, ArcsInv
  <2> QED BY <2>1 DEF SameLists
<1>7. FewInv'
  BY SameFound DEF ListsInv, FewInv, SameLists
<1>8. PlacesInv'
  BY SameFound DEF ListsInv, PlacesInv
<1> QED BY <1>3, <1>4, <1>5, <1>6, <1>7, <1>8 DEF ListsInv

LEMMA ListsAre ==
  ASSUME ListsInv
  PROVE  /\ fns \in Seq(FnEntries) /\ Len(fns) \in Nat
         /\ \A f \in 1 .. Len(fns) :
              /\ fns[f] \in FnEntries /\ fns[f].self \in Functions /\ fns[f].at \in Nat
              /\ fns[f].arcs \in Seq(ArcEntries) /\ Len(fns[f].arcs) \in Nat
              /\ \A k \in 1 .. Len(fns[f].arcs) : fns[f].arcs[k] \in ArcEntries
<1>1. fns \in Seq(FnEntries) /\ Len(fns) \in Nat  BY LenProperties DEF ListsInv, ProfTypes
<1>2. \A f \in 1 .. Len(fns) : fns[f] \in FnEntries  BY <1>1, ElementOfSeq
<1>3. \A f \in 1 .. Len(fns) : /\ fns[f].self \in Functions /\ fns[f].at \in Nat
                               /\ fns[f].arcs \in Seq(ArcEntries)
  BY <1>2 DEF FnEntries
<1> QED BY <1>1, <1>2, <1>3, LenProperties, ElementOfSeq

LEMMA NothingAdded == fns' = fns => SameLists(fns')
BY DEF SameLists

LEMMA McountKeeps ==
  ASSUME ListsInv, NEW self \in Functions, NEW from \in Callers, Mcount(self, from)
  PROVE  ListsInv'
<1> DEFINE c == [Resting EXCEPT !.pc = "function", !.self = self, !.from = from, !.head = Len(fns)]
<1>1. /\ c \in CallStates /\ c.pc = "function" /\ c.self = self /\ c.from = from
      /\ c.head = Len(fns) /\ c.fn = 0
  BY ListsAre DEF Resting, CallStates, McSteps
<1>2. Goes(c) /\ Here.pc = "out" /\ UNCHANGED <<fns, slab, inside>>  BY DEF Mcount, AtStep
<1> HIDE DEF c
<1>3. CallHolds(c)  BY <1>1, ListsAre DEF CallHolds
<1>4. MayAdd(Now0, c)
  <2>1. AddsFunction(c) => FnsOf(self) = {}  BY <1>1 DEF AddsFunction, FnsOf
  <2>2. ~AddsArc(c)  BY <1>1 DEF AddsArc
  <2> QED BY <1>1, <2>1, <2>2 DEF MayAdd, Room, AtMostOne
<1> QED BY <1>1, <1>2, <1>3, <1>4, NothingAdded, ListsAre, CallMoves

LEMMA FindFunctionKeeps == ASSUME ListsInv, FindFunction PROVE ListsInv'
<1> DEFINE found == {k \in 1 .. Here.head : fns[k].self = Here.self}
           fn == Newest(found)
<1>1. /\ Here.pc = "function" /\ UNCHANGED <<fns, slab, inside>>
      /\ Goes(IF fn = 0 THEN [Here EXCEPT !.pc = "record"]
              ELSE [Here EXCEPT !.pc = "arc", !.fn = fn, !.head = Len(fns[fn].arcs)])
  BY DEF FindFunction, AtStep
<1>2. Here \in CallStates /\ CallHolds(Here) /\ MayAdd(Now0, Here)  BY NowIs0
<1>3. Here.head \in Nat /\ Here.head <= Len(fns) /\ Here.fn = 0 /\ Len(fns) \in Nat
  BY <1>1, <1>2, ListsAre DEF CallHolds, CallStates
<1>4. /\ fn \in Nat /\ (fn = 0 => found = {}) /\ (fn # 0 => fn \in found)
  BY <1>3, NewestIs
<1> HIDE DEF fn
<1>5. CASE fn = 0
  <2> DEFINE c == [Here EXCEPT !.pc = "record"]
  <2>1. c \in CallStates /\ c.pc = "record" /\ c.fn = 0 /\ c.self = Here.self /\ c.from = Here.from
    BY <1>2, <1>3 DEF CallStates, McSteps
  <2>2. Goes(c)  BY <1>1, <1>5
  <2> HIDE DEF c
  <2>3. CallHolds(c)  BY <1>1, <1>2, <2>1 DEF CallHolds
  <2>4. AddsFunction(Here)  BY <1>1, <1>3, <1>4, <1>5 DEF AddsFunction
  <2>5. MayAdd(Now0, c)  BY <1>2, <2>1, <2>4 DEF MayAdd, AddsArc
  <2> QED BY <1>1, <2>1, <2>2, <2>3, <2>5, NothingAdded, ListsAre, CallMoves
<1>6. CASE fn # 0
  <2> DEFINE n == Len(fns[fn].arcs)
             c == [Here EXCEPT !.pc = "arc", !.fn = fn, !.head = n]
  <2>1. fn \in 1 .. Len(fns) /\ fns[fn].self = Here.self  BY <1>3, <1>4, <1>6
  <2>2. n \in Nat /\ n > 0
    <3>1. fns[fn].arcs # << >>  BY <1>1, <2>1 DEF ListsInv, ArcsInv
    <3>2. fns[fn].arcs \in Seq(ArcEntries)  BY <2>1, ListsAre
    <3> QED BY <3>1, <3>2, EmptySeq
  <2>3. Goes(c)  BY <1>1, <1>6
  <2>4. /\ c \in CallStates /\ c.pc = "arc" /\ c.fn = fn /\ c.head = n
        /\ c.self = Here.self /\ c.from = Here.from
    BY <1>2, <1>4, <2>2 DEF CallStates, McSteps
  <2> HIDE DEF c
  <2>5. CallHolds(c)  BY <1>1, <1>2, <1>6, <2>1, <2>2, <2>4 DEF CallHolds
  <2>6. MayAdd(Now0, c)
    <3>1. AddsArc(c) => ArcsOf(fn, c.from) = {}  BY <2>4 DEF AddsArc, ArcsOf
    <3>2. ~AddsFunction(c)  BY <1>6, <2>4 DEF AddsFunction
    <3> QED BY <2>4, <3>1, <3>2 DEF MayAdd, Room, AtMostOne
  <2> QED BY <1>1, <2>3, <2>4, <2>5, <2>6, NothingAdded, ListsAre, CallMoves
<1> QED BY <1>5, <1>6

LEMMA FindArcKeeps == ASSUME ListsInv, FindArc PROVE ListsInv'
<1> DEFINE found == {k \in 1 .. Here.head : fns[Here.fn].arcs[k].from = Here.from}
           arc == Newest(found)
           count == fns[Here.fn].arcs[arc].count
<1>1. /\ Here.pc = "arc" /\ UNCHANGED <<fns, slab, inside>>
      /\ Goes(IF arc = 0 THEN [Here EXCEPT !.pc = "record"]
              ELSE [Here EXCEPT !.pc = "store", !.arc = arc, !.count = count])
  BY DEF FindArc, ArcOf, AtStep
<1>2. Here \in CallStates /\ CallHolds(Here) /\ MayAdd(Now0, Here)  BY NowIs0
<1>3. /\ Here.fn # 0 /\ Here.fn \in 1 .. Len(fns)
      /\ Here.head \in Nat /\ Here.head <= Len(fns[Here.fn].arcs)
  BY <1>1, <1>2 DEF CallHolds, CallStates
<1>4. /\ arc \in Nat /\ (arc = 0 => found = {}) /\ (arc # 0 => arc \in found)
  BY <1>3, NewestIs
<1> HIDE DEF arc
<1>5. CASE arc = 0
  <2> DEFINE c == [Here EXCEPT !.pc = "record"]
  <2>1. /\ c \in CallStates /\ c.pc = "record" /\ c.fn = Here.fn /\ c.self = Here.self
        /\ c.from = Here.from
    BY <1>2, <1>3 DEF CallStates, McSteps
  <2>2. Goes(c)  BY <1>1, <1>5
  <2> HIDE DEF c
  <2>3. CallHolds(c)  BY <1>1, <1>2, <1>3, <2>1 DEF CallHolds
  <2>4. AddsArc(Here)  BY <1>1, <1>3, <1>4, <1>5 DEF AddsArc
  <2>5. MayAdd(Now0, c)  BY <1>2, <1>3, <2>1, <2>4 DEF MayAdd, AddsFunction
  <2> QED BY <1>1, <2>1, <2>2, <2>3, <2>5, NothingAdded, ListsAre, CallMoves
<1>6. CASE arc # 0
  <2> DEFINE c == [Here EXCEPT !.pc = "store", !.arc = arc, !.count = count]
  <2>1. arc \in ArcsOf(Here.fn, Here.from)
    <3>1. Len(fns[Here.fn].arcs) \in Nat  BY <1>3, ListsAre
    <3> QED BY <1>3, <1>4, <1>6, <3>1 DEF ArcsOf
  <2>2. count \in Nat
    <3>1. fns[Here.fn].arcs[arc] \in ArcEntries  BY <1>3, <2>1, ListsAre DEF ArcsOf
    <3> QED BY <3>1 DEF ArcEntries
  <2>3. Goes(c)  BY <1>1, <1>6
  <2> HIDE DEF count
  <2>4. /\ c \in CallStates /\ c.pc = "store" /\ c.fn = Here.fn /\ c.arc = arc
        /\ c.self = Here.self /\ c.from = Here.from
    BY <1>2, <1>4, <2>2 DEF CallStates, McSteps
  <2> HIDE DEF c
  <2>5. CallHolds(c)  BY <1>1, <1>2, <1>3, <2>1, <2>4 DEF CallHolds
  <2>6. MayAdd(Now0, c)  BY <1>3, <2>4 DEF MayAdd, AddsFunction, AddsArc
  <2> QED BY <1>1, <2>3, <2>4, <2>5, <2>6, NothingAdded, ListsAre, CallMoves
<1> QED BY <1>5, <1>6

\* The steps of __mcount_record before the lists.
LEMMA RecordKeeps ==
  ASSUME ListsInv, UNCHANGED <<fns, slab, inside>>,
         Here.pc \in {"record", "clear", "add function"} \cup Starting,
         NEW p \in {"clear", "add function", "add arc"} \cup Starting, p = "add arc" => Here.fn # 0,
         Goes([Here EXCEPT !.pc = p])
  PROVE  ListsInv'
<1> DEFINE c == [Here EXCEPT !.pc = p]
<1>1. Here \in CallStates /\ CallHolds(Here) /\ MayAdd(Now0, Here)  BY NowIs0
<1>2. /\ c \in CallStates /\ c.pc = p /\ c.fn = Here.fn /\ c.self = Here.self /\ c.from = Here.from
  BY <1>1 DEF CallStates, McSteps, Starting
<1>3. Goes(c)  OBVIOUS
<1> HIDE DEF c
<1>4. /\ Here.pc \notin {"out", "function", "arc", "store", "add arc"}
      /\ p \notin {"out", "function", "arc", "store"}
  BY DEF Starting
<1>5. CallHolds(c)  BY <1>1, <1>2, <1>4 DEF CallHolds
<1>6. MayAdd(Now0, c)
  <2>1. AddsFunction(c) => AddsFunction(Here)  BY <1>2, <1>4 DEF AddsFunction
  <2>2. AddsArc(c) => AddsArc(Here)  BY <1>2, <1>4 DEF AddsArc
  <2> QED BY <1>1, <1>2, <2>1, <2>2 DEF MayAdd
<1> QED BY <1>2, <1>3, <1>4, <1>5, <1>6, NothingAdded, ListsAre, CallMoves

LEMMA StoreCountKeeps == ASSUME ListsInv, StoreCount PROVE ListsInv'
<1> DEFINE g == Here.fn
           a == Here.arc
           arcs == fns[g].arcs
           new == [arcs EXCEPT ![a].count = Here.count + 1]
<1>1. /\ Here.pc = "store" /\ fns' = [fns EXCEPT ![g].arcs = new]
      /\ Goes(Resting) /\ UNCHANGED <<slab, inside>>
  BY DEF StoreCount, AtStep, Finish, Counted
<1>2. Here \in CallStates /\ CallHolds(Here)  BY NowIs0
<1>3. g \in 1 .. Len(fns) /\ a \in 1 .. Len(arcs) /\ Here.count \in Nat
  BY <1>1, <1>2 DEF CallHolds, CallStates, ArcsOf
<1>4. arcs \in Seq(ArcEntries) /\ Len(arcs) \in Nat /\ arcs[a] \in ArcEntries  BY <1>3, ListsAre
<1>5. /\ new \in Seq(ArcEntries) /\ Len(new) = Len(arcs) /\ (new = << >>) = (arcs = << >>)
      /\ \A k \in 1 .. Len(arcs) : new[k].from = arcs[k].from /\ new[k].at = arcs[k].at
  <2> DEFINE x == [arcs[a] EXCEPT !.count = Here.count + 1]
  <2>1. x \in ArcEntries /\ x.from = arcs[a].from /\ x.at = arcs[a].at
    <3> DEFINE y == arcs[a]
               n == Here.count + 1
    <3>1. y \in ArcEntries /\ n \in Nat  BY <1>3, <1>4
    <3> HIDE DEF y, n
    <3>2. [y EXCEPT !.count = n] \in ArcEntries /\ [y EXCEPT !.count = n].from = y.from
          /\ [y EXCEPT !.count = n].at = y.at
      BY <3>1 DEF ArcEntries
    <3> QED BY <3>2 DEF y, n
  <2>2. new = [arcs EXCEPT ![a] = x]  OBVIOUS
  <2> HIDE DEF x, new
  <2>3. new \in Seq(ArcEntries) /\ Len(new) = Len(arcs)
        /\ \A k \in 1 .. Len(arcs) : new[k] = IF k = a THEN x ELSE arcs[k]
    BY <1>3, <1>4, <2>1, <2>2, ExceptSeq
  <2>4. new # << >> /\ arcs # << >>  BY <1>3, <1>4, <2>3, EmptySeq
  <2> QED BY <2>1, <2>3, <2>4
<1> HIDE DEF new
<1>6. /\ fns' \in Seq(FnEntries) /\ Len(fns') = Len(fns)
      /\ \A f \in 1 .. Len(fns) : fns'[f] = IF f = g THEN [fns[g] EXCEPT !.arcs = new] ELSE fns[f]
  <2> DEFINE x == [fns[g] EXCEPT !.arcs = new]
  <2>1. x \in FnEntries  BY <1>3, <1>5, ListsAre DEF FnEntries
  <2>2. fns' = [fns EXCEPT ![g] = x]  BY <1>1
  <2> HIDE DEF x
  <2>3. fns \in Seq(FnEntries)  BY ListsAre
  <2>4. /\ fns' \in Seq(FnEntries) /\ Len(fns') = Len(fns)
        /\ \A f \in 1 .. Len(fns) : fns'[f] = IF f = g THEN x ELSE fns[f]
    BY <1>3, <2>1, <2>2, <2>3, ExceptSeq
  <2> QED BY <2>4 DEF x
<1>7. SameLists(fns')
  <2> SUFFICES ASSUME NEW f \in 1 .. Len(fns)
               PROVE  /\ fns'[f].self = fns[f].self /\ fns'[f].at = fns[f].at
                      /\ Len(fns'[f].arcs) = Len(fns[f].arcs)
                      /\ (fns'[f].arcs = << >>) = (fns[f].arcs = << >>)
                      /\ \A k \in 1 .. Len(fns[f].arcs) :
                           fns'[f].arcs[k].from = fns[f].arcs[k].from /\ fns'[f].arcs[k].at = fns[f].arcs[k].at
    BY <1>6 DEF SameLists
  <2>1. CASE f # g  BY <1>6, <2>1
  <2>2. CASE f = g
    <3>1. fns[g] \in FnEntries  BY <1>3, ListsAre
    <3>2. fns'[f].arcs = new /\ fns'[f].self = fns[g].self /\ fns'[f].at = fns[g].at
      BY <1>6, <2>2, <3>1 DEF FnEntries
    <3> QED BY <1>5, <2>2, <3>2
  <2> QED BY <2>1, <2>2
<1>8. Resting \in CallStates /\ Resting.pc = "out" /\ Resting.fn = 0
  BY DEF Resting, CallStates, McSteps
<1>9. CallHolds(Resting) /\ MayAdd(Now0, Resting)
  BY <1>8 DEF CallHolds, MayAdd, AddsFunction, AddsArc
<1> QED BY <1>1, <1>6, <1>7, <1>8, <1>9, CallMoves

LEMMA FreshSlabIs ==
  ASSUME ListsInv
  PROVE  /\ FreshSlab(slab) \in [ptr : Nat, left : Nat, top : Nat]
         /\ FreshSlab(slab).ptr + FreshSlab(slab).left = FreshSlab(slab).top
         /\ FreshSlab(slab).left >= EntryBytes /\ FreshSlab(slab).ptr >= slab.ptr
<1>1. /\ slab \in [ptr : Nat, left : Nat, top : Nat] /\ slab.ptr + slab.left = slab.top
      /\ SlabBytes \in Nat /\ SlabBytes >= 12
  BY ProfileAssumption DEF ListsInv, ProfTypes
<1>2. CASE slab.left >= 12
  BY <1>1, <1>2 DEF FreshSlab, NewSlab, EntryBytes
<1>3. CASE ~(slab.left >= 12)
  <2> DEFINE s == [ptr |-> slab.top, left |-> SlabBytes, top |-> slab.top + SlabBytes]
  <2>1. FreshSlab(slab) = s  BY <1>1, <1>3 DEF FreshSlab, NewSlab, EntryBytes
  <2>2. s.ptr = slab.top /\ s.left = SlabBytes /\ s.top = slab.top + SlabBytes
        /\ s \in [ptr : Nat, left : Nat, top : Nat]
    BY <1>1
  <2>3. slab.top >= slab.ptr  BY <1>1
  <2> QED BY <1>1, <2>1, <2>2, <2>3 DEF EntryBytes
<1> QED BY <1>2, <1>3

\* An entry more, at the start of what is left.
LEMMA EntryMade ==
  ASSUME ListsInv, Allocate, NEW n, ProfEntries' \subseteq ProfEntries \cup {n},
         \A e \in ProfEntries : PlaceOf(e)' = PlaceOf(e), PlaceOf(n)' = SlabPlace
  PROVE  /\ slab' \in [ptr : Nat, left : Nat, top : Nat] /\ slab'.ptr + slab'.left = slab'.top
         /\ PlacesInv'
<1> DEFINE s == FreshSlab(slab)
<1>1. /\ s \in [ptr : Nat, left : Nat, top : Nat] /\ s.ptr + s.left = s.top
      /\ s.left >= 12 /\ s.ptr >= slab.ptr /\ slab.ptr \in Nat
  BY FreshSlabIs DEF EntryBytes, ListsInv, ProfTypes
<1>2. slab' = [s EXCEPT !.ptr = @ + 12, !.left = @ - 12]  BY DEF Allocate, EntryBytes
<1>3. SlabPlace = s.ptr  BY DEF SlabPlace
<1> HIDE DEF s
<1>4. slab'.ptr = s.ptr + 12 /\ slab'.left = s.left - 12 /\ slab'.top = s.top
      /\ slab' \in [ptr : Nat, left : Nat, top : Nat]
  <2> DEFINE p == s.ptr + 12
             l == s.left - 12
  <2>1. p \in Nat /\ l \in Nat  BY <1>1
  <2>2. slab' = [s EXCEPT !.ptr = p, !.left = l]  BY <1>2
  <2> HIDE DEF p, l
  <2>3. slab'.ptr = p /\ slab'.left = l /\ slab'.top = s.top
        /\ slab' \in [ptr : Nat, left : Nat, top : Nat]
    BY <1>1, <2>1, <2>2
  <2> QED BY <2>3 DEF p, l
<1>5. slab'.ptr + slab'.left = slab'.top  BY <1>1, <1>4
<1>6. \A e \in ProfEntries : PlaceOf(e)' \in Nat /\ PlaceOf(e)' + 12 <= slab.ptr
  BY DEF ListsInv, PlacesInv, EntryBytes
<1>7. \A e \in ProfEntries' : e \in ProfEntries \/ e = n  OBVIOUS
<1>8. PlaceOf(n)' = s.ptr /\ s.ptr \in Nat  BY <1>1, <1>3
<1>9. \A e \in ProfEntries' : PlaceOf(e)' \in Nat /\ PlaceOf(e)' + 12 <= slab'.ptr
  <2> SUFFICES ASSUME NEW e \in ProfEntries'
               PROVE  PlaceOf(e)' \in Nat /\ PlaceOf(e)' + 12 <= slab'.ptr
    OBVIOUS
  <2>1. CASE e \in ProfEntries
    <3>1. PlaceOf(e)' \in Nat /\ PlaceOf(e)' + 12 <= slab.ptr  BY <1>6, <2>1
    <3> QED BY <1>1, <1>4, <3>1
  <2>2. CASE e = n
    BY <1>4, <1>8, <2>2
  <2> QED BY <1>7, <2>1, <2>2
<1>10. ASSUME NEW e \in ProfEntries', NEW g \in ProfEntries', e # g
       PROVE  PlaceOf(e)' + 12 <= PlaceOf(g)' \/ PlaceOf(g)' + 12 <= PlaceOf(e)'
  <2>1. CASE e \in ProfEntries /\ g \in ProfEntries
    <3>1. PlaceOf(e)' = PlaceOf(e) /\ PlaceOf(g)' = PlaceOf(g)  BY <2>1
    <3>2. PlaceOf(e) + 12 <= PlaceOf(g) \/ PlaceOf(g) + 12 <= PlaceOf(e)
      BY <1>10, <2>1 DEF ListsInv, PlacesInv, EntryBytes
    <3> QED BY <3>1, <3>2
  <2>2. CASE e \in ProfEntries /\ g = n
    <3>1. PlaceOf(e)' + 12 <= slab.ptr /\ PlaceOf(e)' \in Nat  BY <1>6, <2>2
    <3> QED BY <1>1, <1>8, <2>2, <3>1
  <2>3. CASE g \in ProfEntries /\ e = n
    <3>1. PlaceOf(g)' + 12 <= slab.ptr /\ PlaceOf(g)' \in Nat  BY <1>6, <2>3
    <3> QED BY <1>1, <1>8, <2>3, <3>1
  <2> QED BY <1>7, <1>10, <2>1, <2>2, <2>3
<1>11. PlacesInv'
  <2>1. \A e, g \in ProfEntries' : e = g \/ PlaceOf(e)' + 12 <= PlaceOf(g)' \/ PlaceOf(g)' + 12 <= PlaceOf(e)'
    BY <1>10
  <2> QED BY <1>9, <2>1 DEF PlacesInv, EntryBytes
<1> QED BY <1>4, <1>5, <1>11

\* The other call, while one adds to the lists.
LEMMA OtherIs ==
  ASSUME ListsInv, NEW w \in Who, w # Now0
  PROVE  /\ doing[w] \in CallStates /\ CallHolds(doing[w]) /\ MayAdd(w, doing[w])
         /\ doing[w].pc # "add arc"
         /\ w = "handler" => doing[w].pc = "out"
         /\ w = "program" => Now0 = "handler"
<1>1. doing[w].pc \notin MaskedAt /\ (w = "handler" => doing[w].pc = "out")  BY NowIs0
<1>2. doing[w] \in CallStates /\ CallHolds(doing[w]) /\ MayAdd(w, doing[w])
  BY DEF ListsInv, ProfTypes, CallsInv
<1>3. w = "program" => Now0 = "handler"  BY NowIs0 DEF Who
<1> QED BY <1>1, <1>2, <1>3 DEF MaskedAt

LEMMA AddFunctionKeeps == ASSUME ListsInv, AddFunction PROVE ListsInv'
<1>a. PICK n : n = Len(fns) + 1  OBVIOUS
<1>b. PICK self : self = Here.self  OBVIOUS
<1>c. PICK c : c = [Here EXCEPT !.pc = "add arc", !.fn = n]  OBVIOUS
<1> DEFINE x == NewFunction(self)
<1>1. Here.pc = "add function" /\ UNCHANGED inside
  BY DEF AddFunction, AtStep
<1>2. Here \in CallStates /\ CallHolds(Here) /\ MayAdd(Now0, Here) /\ Now0 \in Who  BY NowIs0
<1>3. CASE Here.fn # 0
  <2>1. Goes([Here EXCEPT !.pc = "add arc"]) /\ UNCHANGED <<fns, slab>>
    BY <1>3 DEF AddFunction
  <2> QED BY <1>1, <1>3, <2>1, RecordKeeps
<1>4. CASE Here.fn = 0
  <2>1. fns' = Append(fns, x) /\ Allocate /\ Goes(c)  BY <1>4, <1>a, <1>b, <1>c DEF AddFunction
  <2>2. /\ x.self = self /\ x.arcs = << >> /\ x.at = SlabPlace /\ x \in FnEntries
        /\ self \in Functions /\ Here.from \in Callers
    <3>1. self \in Functions /\ Here.from \in Callers  BY <1>1, <1>2, <1>b DEF CallHolds
    <3>2. SlabPlace \in Nat
      <4>1. FreshSlab(slab) \in [ptr : Nat, left : Nat, top : Nat]  BY FreshSlabIs
      <4> QED BY <4>1 DEF SlabPlace
    <3>3. << >> \in Seq(ArcEntries)  BY EmptySeq
    <3> QED BY <3>1, <3>2, <3>3 DEF NewFunction, FnEntries
  <2>3. /\ c \in CallStates /\ c.pc = "add arc" /\ c.fn = n /\ c.self = self /\ c.from = Here.from
        /\ n \in Nat /\ n # 0
    <3>1. n \in Nat /\ n # 0  BY <1>a, ListsAre
    <3> QED BY <1>2, <1>b, <1>c, <3>1 DEF CallStates, McSteps
  <2> HIDE DEF x
  <2>4. /\ fns' \in Seq(FnEntries) /\ Len(fns') = n /\ fns'[n] = x
        /\ \A f \in 1 .. Len(fns) : fns'[f] = fns[f]
    BY <1>a, <2>1, <2>2, ListsAre, AppendProperties
  <2>5. /\ Len(fns) \in Nat /\ n \notin 1 .. Len(fns) /\ 1 .. n = (1 .. Len(fns)) \cup {n}
        /\ Len(x.arcs) = 0
    BY <1>a, <2>2, ListsAre, EmptySeq
  <2>6. /\ \A a : FnsOf(a)' = IF a = self THEN FnsOf(a) \cup {n} ELSE FnsOf(a)
        /\ \A f \in 1 .. Len(fns) : \A from : ArcsOf(f, from)' = ArcsOf(f, from)
        /\ \A from : ArcsOf(n, from)' = {}
    <3>1. \A a : FnsOf(a)' = IF a = self THEN FnsOf(a) \cup {n} ELSE FnsOf(a)
      BY <2>2, <2>4, <2>5 DEF FnsOf
    <3>2. \A f \in 1 .. Len(fns) : \A from : ArcsOf(f, from)' = ArcsOf(f, from)
      BY <2>4, <2>5 DEF ArcsOf
    <3>3. \A from : ArcsOf(n, from)' = {}
      <4>1. Len(fns'[n].arcs) = 0  BY <2>4, <2>5
      <4> QED BY <4>1 DEF ArcsOf
    <3> QED BY <3>1, <3>2, <3>3
  <2>7. /\ ProfEntries' \subseteq ProfEntries \cup {<<0, n>>}
        /\ \A e \in ProfEntries : PlaceOf(e)' = PlaceOf(e)
        /\ PlaceOf(<<0, n>>)' = SlabPlace
    <3>1. ProfEntries' \subseteq ProfEntries \cup {<<0, n>>}
      <4>1. 1 .. Len(fns'[n].arcs) = {}  BY <2>4, <2>5
      <4> QED BY <2>4, <2>5, <4>1 DEF ProfEntries
    <3>2. ASSUME NEW e \in ProfEntries PROVE PlaceOf(e)' = PlaceOf(e)
      <4>1. CASE \E f \in 1 .. Len(fns) : e = <<0, f>>
        BY <2>4, <4>1 DEF PlaceOf
      <4>2. CASE \E f \in 1 .. Len(fns) : \E k \in 1 .. Len(fns[f].arcs) : e = <<f, k>>
        <5>1. PICK f \in 1 .. Len(fns) : \E k \in 1 .. Len(fns[f].arcs) : e = <<f, k>>  BY <4>2
        <5>2. f # 0  BY <2>5
        <5> QED BY <2>4, <5>1, <5>2 DEF PlaceOf
      <4> QED BY <4>1, <4>2 DEF ProfEntries
    <3>3. PlaceOf(<<0, n>>)' = SlabPlace  BY <2>2, <2>4 DEF PlaceOf
    <3> QED BY <3>1, <3>2, <3>3
  <2>8. /\ slab' \in [ptr : Nat, left : Nat, top : Nat] /\ slab'.ptr + slab'.left = slab'.top
        /\ PlacesInv'
    BY <2>1, <2>7, EntryMade
  <2>9. Now0' = Now0 /\ doing' \in [Who -> CallStates] /\ doing'[Now0] = c
        /\ \A w \in Who : w # Now0 => doing'[w] = doing[w]
    BY <1>1, <1>2, <2>1, <2>3 DEF Goes, Now0, ListsInv, ProfTypes
  <2>10. ProfTypes'  BY <1>1, <2>4, <2>8, <2>9 DEF ProfTypes, ListsInv
  <2>11. Room(Now0, FnsOf(self))
    BY <1>1, <1>2, <1>4, <1>b DEF MayAdd, AddsFunction
  <2>12. CallsInv'
    <3> SUFFICES ASSUME NEW w \in Who PROVE CallHolds(doing[w])' /\ MayAdd(w, doing[w])'
      BY DEF CallsInv
    <3>1. CASE w = Now0
      <4>1. CallHolds(c)'
        <5>1. c.fn \in 1 .. Len(fns') /\ fns'[c.fn].self = c.self  BY <2>2, <2>3, <2>4, <2>5
        <5> QED BY <2>2, <2>3, <5>1 DEF CallHolds
      <4>2. MayAdd(w, c)'
        BY <2>3, <2>6 DEF MayAdd, AddsFunction, AddsArc, Room, AtMostOne
      <4> QED BY <2>9, <3>1, <4>1, <4>2 DEF CallHolds, MayAdd, AddsFunction, AddsArc
    <3>2. CASE w # Now0
      <4> DEFINE d == doing[w]
      <4>1. /\ d \in CallStates /\ CallHolds(d) /\ MayAdd(w, d) /\ (w = "handler" => d.pc = "out")
            /\ (w = "program" => Now0 = "handler")
        BY <3>2, OtherIs
      <4>2. doing'[w] = d  BY <2>9, <3>2
      <4> HIDE DEF d
      <4>3. PICK z : z = d  OBVIOUS
      <4>4. CallHolds(z)'
        <5>1. z.fn # 0 => z.fn \in 1 .. Len(fns)  BY <4>1, <4>3 DEF CallHolds
        <5>2. CallHolds(z)  BY <4>1, <4>3
        <5>3. z.fn # 0 => z.fn \in 1 .. Len(fns') /\ fns'[z.fn] = fns[z.fn] /\ fns'[z.fn].self = z.self
          BY <2>4, <2>5, <5>1, <5>2 DEF CallHolds
        <5>4. z.pc = "function" => z.head <= Len(fns')
          BY <2>4, <2>5, <1>a, <4>1, <4>3, <5>2 DEF CallHolds, CallStates
        <5>5. z.pc = "store" => z.arc \in ArcsOf(z.fn, z.from)'
          BY <2>6, <5>1, <5>2 DEF CallHolds
        <5> QED BY <5>2, <5>3, <5>4, <5>5 DEF CallHolds
      <4>5. AddsFunction(z)' => AddsFunction(z)
        <5>1. z.pc = "function" => \A k \in 1 .. z.head : k \in 1 .. Len(fns)
          BY <2>5, <4>1, <4>3 DEF CallHolds, CallStates
        <5> QED BY <2>4, <5>1 DEF AddsFunction
      <4>6. AddsArc(z)' => AddsArc(z) /\ z.fn \in 1 .. Len(fns)
        <5>1. z.fn # 0 => z.fn \in 1 .. Len(fns)  BY <4>1, <4>3 DEF CallHolds
        <5> QED BY <2>4, <5>1 DEF AddsArc
      <4>7. ASSUME AddsFunction(z)' PROVE Room(w, FnsOf(z.self))'
        <5>1. w = "program" /\ Now0 = "handler" /\ AtMostOne(FnsOf(z.self))
          BY <4>1, <4>3, <4>5, <4>7 DEF Who, MayAdd, Room, AddsFunction
        <5>2. FnsOf(self) = {}  BY <2>11, <5>1 DEF Room
        <5>3. AtMostOne(FnsOf(z.self)')  BY <2>6, <5>1, <5>2 DEF AtMostOne
        <5> QED BY <5>1, <5>3 DEF Room, AtMostOne
      <4>8. ASSUME AddsArc(z)' PROVE Room(w, ArcsOf(z.fn, z.from))'
        <5>1. Room(w, ArcsOf(z.fn, z.from))  BY <4>1, <4>3, <4>6, <4>8 DEF MayAdd
        <5>2. ArcsOf(z.fn, z.from)' = ArcsOf(z.fn, z.from)  BY <2>6, <4>6, <4>8
        <5> QED BY <5>1, <5>2 DEF Room, AtMostOne
      <4> QED BY <4>2, <4>3, <4>4, <4>7, <4>8 DEF CallHolds, MayAdd, AddsFunction, AddsArc
    <3> QED BY <3>1, <3>2
  <2>13. TurnsInv'
    <3>1. \A w \in Who : w # Now0 => doing'[w].pc = doing[w].pc  BY <2>9
    <3> QED BY <1>1, <2>9, <3>1 DEF ListsInv, TurnsInv, Now0, Who
  <2>14. ArcsInv'
    <3> SUFFICES ASSUME NEW f \in 1 .. Len(fns')
                 PROVE  fns'[f].arcs # << >> \/ (Here'.pc = "add arc" /\ Here'.fn = f)
      BY DEF ArcsInv
    <3>1. Here' = c  BY <2>9 DEF Here
    <3>2. CASE f = n  BY <2>3, <3>1, <3>2
    <3>3. CASE f \in 1 .. Len(fns)
      BY <1>1, <2>4, <3>3 DEF ListsInv, ArcsInv
    <3> QED BY <2>4, <2>5, <3>2, <3>3
  <2>15. FewInv'
    <3>1. ASSUME NEW a \in Functions PROVE AtMostTwo(FnsOf(a))'
      <4>1. CASE a = self
        <5>1. AtMostOne(FnsOf(a))  BY <2>11, <4>1 DEF Room, AtMostOne
        <5>2. AtMostTwo(FnsOf(a) \cup {n})  BY <5>1 DEF AtMostOne, AtMostTwo
        <5> QED BY <2>6, <4>1, <5>2 DEF AtMostTwo
      <4>2. CASE a # self
        BY <2>6, <4>2 DEF ListsInv, FewInv, AtMostTwo
      <4> QED BY <4>1, <4>2
    <3>2. ASSUME NEW f \in 1 .. Len(fns'), NEW from \in Callers PROVE AtMostTwo(ArcsOf(f, from))'
      <4>1. CASE f = n  BY <2>6, <4>1 DEF AtMostTwo
      <4>2. CASE f \in 1 .. Len(fns)
        BY <2>6, <4>2 DEF ListsInv, FewInv, AtMostTwo
      <4> QED BY <2>4, <2>5, <4>1, <4>2
    <3> QED BY <3>1, <3>2 DEF FewInv
  <2> QED BY <2>8, <2>10, <2>12, <2>13, <2>14, <2>15 DEF ListsInv
<1> QED BY <1>3, <1>4

LEMMA AddArcKeeps == ASSUME ListsInv, AddArc PROVE ListsInv'
<1>1. PICK g : g = Here.fn  OBVIOUS
<1>2. PICK from : from = Here.from  OBVIOUS
<1>3. PICK m : m = Len(fns[g].arcs) + 1  OBVIOUS
<1> DEFINE x == NewArc(from)
           arcs == fns[g].arcs
           new == Append(arcs, x)
<1>4. /\ Here.pc = "add arc" /\ fns' = [fns EXCEPT ![g].arcs = new] /\ Allocate
      /\ Goes(Resting) /\ UNCHANGED inside
  BY <1>1, <1>2 DEF AddArc, AtStep, Finish
<1>5. Here \in CallStates /\ CallHolds(Here) /\ MayAdd(Now0, Here) /\ Now0 \in Who  BY NowIs0
<1>6. Here.fn # 0 /\ g \in 1 .. Len(fns) /\ from \in Callers  BY <1>1, <1>2, <1>4, <1>5 DEF CallHolds
<1>7. arcs \in Seq(ArcEntries) /\ Len(arcs) \in Nat /\ m \in Nat /\ m \notin 1 .. Len(arcs)
      /\ 1 .. m = (1 .. Len(arcs)) \cup {m} /\ fns \in Seq(FnEntries) /\ Len(fns) \in Nat
  BY <1>3, <1>6, ListsAre
<1>8. x.from = from /\ x.at = SlabPlace /\ x \in ArcEntries
  <2>1. SlabPlace \in Nat
    <3>1. FreshSlab(slab) \in [ptr : Nat, left : Nat, top : Nat]  BY FreshSlabIs
    <3> QED BY <3>1 DEF SlabPlace
  <2> QED BY <1>6, <2>1 DEF NewArc, ArcEntries
<1> HIDE DEF x
<1>9. /\ new \in Seq(ArcEntries) /\ Len(new) = m /\ new[m] = x /\ new # << >>
      /\ \A k \in 1 .. Len(arcs) : new[k] = arcs[k]
  <2>1. /\ new \in Seq(ArcEntries) /\ Len(new) = m /\ new[m] = x
        /\ \A k \in 1 .. Len(arcs) : new[k] = arcs[k]
    BY <1>3, <1>7, <1>8, AppendProperties
  <2>2. m # 0  BY <1>3, <1>7
  <2> QED BY <2>1, <2>2, EmptySeq
<1> HIDE DEF new
<1>10. /\ fns' \in Seq(FnEntries) /\ Len(fns') = Len(fns) /\ fns'[g].arcs = new
       /\ \A f \in 1 .. Len(fns) :
            /\ fns'[f].self = fns[f].self /\ fns'[f].at = fns[f].at
            /\ f # g => fns'[f] = fns[f]
  <2> DEFINE y == [fns[g] EXCEPT !.arcs = new]
  <2>1. fns[g] \in FnEntries  BY <1>6, ListsAre
  <2>2. y \in FnEntries /\ y.arcs = new /\ y.self = fns[g].self /\ y.at = fns[g].at
    BY <1>9, <2>1 DEF FnEntries
  <2>3. fns' = [fns EXCEPT ![g] = y]  BY <1>4
  <2> HIDE DEF y
  <2>4. /\ fns' \in Seq(FnEntries) /\ Len(fns') = Len(fns)
        /\ \A f \in 1 .. Len(fns) : fns'[f] = IF f = g THEN y ELSE fns[f]
    BY <1>6, <1>7, <2>2, <2>3, ExceptSeq
  <2> QED BY <1>6, <2>2, <2>4
<1>11. /\ \A a : FnsOf(a)' = FnsOf(a)
       /\ \A f \in 1 .. Len(fns) : \A b :
            ArcsOf(f, b)' = IF f = g /\ b = from THEN ArcsOf(f, b) \cup {m} ELSE ArcsOf(f, b)
  <2>1. \A a : FnsOf(a)' = FnsOf(a)  BY <1>10 DEF FnsOf
  <2>2. ASSUME NEW f \in 1 .. Len(fns), NEW b
        PROVE  ArcsOf(f, b)' = IF f = g /\ b = from THEN ArcsOf(f, b) \cup {m} ELSE ArcsOf(f, b)
    <3>1. CASE f = g
      <4>1. ArcsOf(f, b)' = {k \in 1 .. m : new[k].from = b}  BY <1>9, <1>10, <3>1 DEF ArcsOf
      <4>2. ArcsOf(f, b) = {k \in 1 .. Len(arcs) : arcs[k].from = b}  BY <3>1 DEF ArcsOf
      <4> QED BY <1>7, <1>8, <1>9, <3>1, <4>1, <4>2
    <3>2. CASE f # g  BY <1>10, <3>2 DEF ArcsOf
    <3> QED BY <3>1, <3>2
  <2> QED BY <2>1, <2>2
<1>12. /\ ProfEntries' \subseteq ProfEntries \cup {<<g, m>>}
       /\ \A e \in ProfEntries : PlaceOf(e)' = PlaceOf(e)
       /\ PlaceOf(<<g, m>>)' = SlabPlace
  <2>1. ProfEntries' \subseteq ProfEntries \cup {<<g, m>>}
    <3>1. \A f \in 1 .. Len(fns) : \A k \in 1 .. Len(fns'[f].arcs) :
            <<f, k>> = <<g, m>> \/ k \in 1 .. Len(fns[f].arcs)
      BY <1>7, <1>9, <1>10
    <3> QED BY <1>10, <3>1 DEF ProfEntries
  <2>2. ASSUME NEW e \in ProfEntries PROVE PlaceOf(e)' = PlaceOf(e)
    <3>1. CASE \E f \in 1 .. Len(fns) : e = <<0, f>>
      BY <1>10, <3>1 DEF PlaceOf
    <3>2. CASE \E f \in 1 .. Len(fns) : \E k \in 1 .. Len(fns[f].arcs) : e = <<f, k>>
      <4>1. PICK f \in 1 .. Len(fns) : \E k \in 1 .. Len(fns[f].arcs) : e = <<f, k>>  BY <3>2
      <4>2. PICK k \in 1 .. Len(fns[f].arcs) : e = <<f, k>>  BY <4>1
      <4>3. f # 0  BY <1>7
      <4>4. fns'[f].arcs[k] = fns[f].arcs[k]  BY <1>9, <1>10
      <4> QED BY <4>2, <4>3, <4>4 DEF PlaceOf
    <3> QED BY <3>1, <3>2 DEF ProfEntries
  <2>3. PlaceOf(<<g, m>>)' = SlabPlace
    <3>1. g # 0  BY <1>6, <1>7
    <3> QED BY <1>8, <1>9, <1>10, <3>1 DEF PlaceOf
  <2> QED BY <2>1, <2>2, <2>3
<1>13. /\ slab' \in [ptr : Nat, left : Nat, top : Nat] /\ slab'.ptr + slab'.left = slab'.top
       /\ PlacesInv'
  BY <1>4, <1>12, EntryMade
<1>14. Resting \in CallStates /\ Resting.pc = "out" /\ Resting.fn = 0
  BY DEF Resting, CallStates, McSteps
<1>15. /\ Now0' = Now0 /\ doing' \in [Who -> CallStates] /\ doing'[Now0] = Resting
       /\ \A w \in Who : w # Now0 => doing'[w] = doing[w]
  BY <1>4, <1>5, <1>14 DEF Goes, Now0, ListsInv, ProfTypes
<1>16. ProfTypes'  BY <1>4, <1>10, <1>13, <1>15 DEF ProfTypes, ListsInv
<1>17. Room(Now0, ArcsOf(g, from))
  BY <1>1, <1>2, <1>4, <1>5, <1>6 DEF MayAdd, AddsArc
<1>18. CallsInv'
  <2> SUFFICES ASSUME NEW w \in Who PROVE CallHolds(doing[w])' /\ MayAdd(w, doing[w])'
    BY DEF CallsInv
  <2>1. CASE w = Now0
    BY <1>14, <1>15, <2>1 DEF CallHolds, MayAdd, AddsFunction, AddsArc
  <2>2. CASE w # Now0
    <3> DEFINE d == doing[w]
    <3>1. /\ d \in CallStates /\ CallHolds(d) /\ MayAdd(w, d) /\ (w = "handler" => d.pc = "out")
          /\ (w = "program" => Now0 = "handler")
      BY <2>2, OtherIs
    <3>2. doing'[w] = d  BY <1>15, <2>2
    <3> HIDE DEF d
    <3>3. PICK z : z = d  OBVIOUS
    <3>4. /\ CallHolds(z) /\ z \in CallStates /\ (z.fn # 0 => z.fn \in 1 .. Len(fns))
          /\ (z.pc = "arc" => z.fn # 0 /\ \A k \in 1 .. z.head : k \in 1 .. Len(fns[z.fn].arcs))
      <4>1. CallHolds(z) /\ z \in CallStates /\ (z.fn # 0 => z.fn \in 1 .. Len(fns))
        BY <3>1, <3>3 DEF CallHolds
      <4>2. ASSUME z.pc = "arc"
            PROVE  z.fn # 0 /\ \A k \in 1 .. z.head : k \in 1 .. Len(fns[z.fn].arcs)
        <5>1. z.fn # 0 /\ z.head <= Len(fns[z.fn].arcs) /\ z.head \in Nat
          BY <4>1, <4>2 DEF CallHolds, CallStates
        <5>2. Len(fns[z.fn].arcs) \in Nat  BY <4>1, <5>1, ListsAre
        <5> QED BY <5>1, <5>2
      <4> QED BY <4>1, <4>2
    <3>5. \A f \in 1 .. Len(fns) : Len(fns[f].arcs) \in Nat /\ Len(fns'[f].arcs) \in Nat
                                 /\ Len(fns[f].arcs) <= Len(fns'[f].arcs)
      <4> SUFFICES ASSUME NEW f \in 1 .. Len(fns)
                   PROVE  Len(fns[f].arcs) \in Nat /\ Len(fns'[f].arcs) \in Nat
                          /\ Len(fns[f].arcs) <= Len(fns'[f].arcs)
        OBVIOUS
      <4>1. Len(fns[f].arcs) \in Nat  BY ListsAre
      <4>2. CASE f = g
        <5>1. Len(fns'[f].arcs) = m /\ m = Len(fns[f].arcs) + 1  BY <1>3, <1>9, <1>10, <4>2
        <5> QED BY <4>1, <5>1
      <4>3. CASE f # g  BY <1>10, <4>1, <4>3
      <4> QED BY <4>2, <4>3
    <3>6. CallHolds(z)'
      <4>1. z.fn # 0 => z.fn \in 1 .. Len(fns') /\ fns'[z.fn].self = z.self
        BY <1>10, <3>4 DEF CallHolds
      <4>2. z.pc = "function" => z.head <= Len(fns')  BY <1>10, <3>4 DEF CallHolds
      <4>3. z.pc = "arc" => z.head <= Len(fns'[z.fn].arcs)
        <5> SUFFICES ASSUME z.pc = "arc" PROVE z.head <= Len(fns'[z.fn].arcs)  OBVIOUS
        <5>1. z.fn \in 1 .. Len(fns) /\ z.head <= Len(fns[z.fn].arcs) /\ z.head \in Nat
          BY <3>4 DEF CallHolds, CallStates
        <5> QED BY <3>5, <5>1
      <4>4. z.pc = "store" => z.arc \in ArcsOf(z.fn, z.from)'
        BY <1>11, <3>4 DEF CallHolds
      <4> QED BY <3>4, <4>1, <4>2, <4>3, <4>4 DEF CallHolds
    <3>7. AddsFunction(z)' => AddsFunction(z)
      <4>1. z.pc = "function" => \A k \in 1 .. z.head : k \in 1 .. Len(fns)
        BY <1>7, <3>4 DEF CallHolds, CallStates
      <4> QED BY <1>10, <4>1 DEF AddsFunction
    <3>8. AddsArc(z)' => AddsArc(z) /\ z.fn \in 1 .. Len(fns)
      <4>1. \A f \in 1 .. Len(fns) : \A k \in 1 .. Len(fns[f].arcs) : fns'[f].arcs[k] = fns[f].arcs[k]
        BY <1>9, <1>10
      <4> QED BY <3>4, <4>1 DEF AddsArc
    <3>9. ASSUME AddsFunction(z)' PROVE Room(w, FnsOf(z.self))'
      <4>1. Room(w, FnsOf(z.self))  BY <3>1, <3>3, <3>7, <3>9 DEF MayAdd
      <4>2. FnsOf(z.self)' = FnsOf(z.self)  BY <1>11
      <4> QED BY <4>1, <4>2 DEF Room, AtMostOne
    <3>10. ASSUME AddsArc(z)' PROVE Room(w, ArcsOf(z.fn, z.from))'
      <4>1. w = "program" /\ Now0 = "handler" /\ AtMostOne(ArcsOf(z.fn, z.from))
        BY <3>1, <3>3, <3>8, <3>10 DEF Who, MayAdd, Room, AddsArc
      <4>2. ArcsOf(g, from) = {}  BY <1>17, <4>1 DEF Room
      <4>3. AtMostOne(ArcsOf(z.fn, z.from)')  BY <1>11, <3>8, <3>10, <4>1, <4>2 DEF AtMostOne
      <4> QED BY <4>1, <4>3 DEF Room, AtMostOne
    <3> QED BY <3>2, <3>3, <3>6, <3>9, <3>10 DEF CallHolds, MayAdd, AddsFunction, AddsArc
  <2> QED BY <2>1, <2>2
<1>19. TurnsInv'
  <2>1. \A w \in Who : w # Now0 => doing'[w].pc = doing[w].pc  BY <1>15
  <2> QED BY <1>4, <1>15, <2>1 DEF ListsInv, TurnsInv, Now0, Who
<1>20. ArcsInv'
  <2> SUFFICES ASSUME NEW f \in 1 .. Len(fns') PROVE fns'[f].arcs # << >>  BY DEF ArcsInv
  <2>1. CASE f = g  BY <1>9, <1>10, <2>1
  <2>2. CASE f # g
    <3>1. fns[f].arcs # << >>  BY <1>1, <1>10, <2>2 DEF ListsInv, ArcsInv
    <3> QED BY <1>10, <2>2, <3>1
  <2> QED BY <2>1, <2>2
<1>21. FewInv'
  <2>1. \A a \in Functions : AtMostTwo(FnsOf(a))'
    BY <1>11 DEF ListsInv, FewInv, AtMostTwo
  <2>2. ASSUME NEW f \in 1 .. Len(fns'), NEW b \in Callers PROVE AtMostTwo(ArcsOf(f, b))'
    <3>1. CASE f = g /\ b = from
      <4>1. AtMostOne(ArcsOf(f, b))  BY <1>17, <3>1 DEF Room, AtMostOne
      <4>2. AtMostTwo(ArcsOf(f, b) \cup {m})  BY <4>1 DEF AtMostOne, AtMostTwo
      <4> QED BY <1>10, <1>11, <3>1, <4>2 DEF AtMostTwo
    <3>2. CASE ~(f = g /\ b = from)
      BY <1>10, <1>11, <3>2 DEF ListsInv, FewInv, AtMostTwo
    <3> QED BY <3>1, <3>2
  <2> QED BY <2>1, <2>2 DEF FewInv
<1> QED BY <1>13, <1>16, <1>18, <1>19, <1>20, <1>21 DEF ListsInv

LEMMA CallsStill ==
  ASSUME ListsInv, UNCHANGED <<fns, slab, doing>>
  PROVE  CallsInv' /\ FewInv' /\ PlacesInv'
<1>1. SameLists(fns')  BY NothingAdded
<1>2. CallsInv'
  <2> SUFFICES ASSUME NEW w \in Who PROVE CallHolds(doing[w])' /\ MayAdd(w, doing[w])'
    BY DEF CallsInv
  <2> DEFINE d == doing[w]
  <2>1. d \in CallStates /\ CallHolds(d) /\ MayAdd(w, d) /\ doing'[w] = d
    BY DEF ListsInv, ProfTypes, CallsInv
  <2> HIDE DEF d
  <2>2. PICK z : z = d  OBVIOUS
  <2>3. CallHolds(z)' /\ MayAdd(w, z)'  BY <1>1, <2>1, <2>2, SameCall
  <2> QED BY <2>1, <2>2, <2>3 DEF CallHolds, MayAdd, AddsFunction, AddsArc
<1>3. FewInv'  BY <1>1, SameFound DEF ListsInv, FewInv, SameLists
<1>4. PlacesInv'  BY <1>1, SameFound DEF ListsInv, PlacesInv
<1> QED BY <1>2, <1>3, <1>4

LEMMA TurnKeeps == ASSUME ListsInv, Interrupted \/ Returned PROVE ListsInv'
<1>1. UNCHANGED <<fns, slab, doing>> /\ inside' \in BOOLEAN  BY DEF Interrupted, Returned
<1>2. Here.pc # "add arc"  BY DEF Interrupted, Returned, AtStep, MaskedAt
<1>3. /\ inside' => doing["program"].pc \notin MaskedAt
      /\ ~inside' => doing["handler"].pc = "out"
  BY DEF Interrupted, Returned, AtStep, Here, Now0
<1>4. ProfTypes'  BY <1>1 DEF ListsInv, ProfTypes
<1>5. TurnsInv'  BY <1>1, <1>3 DEF TurnsInv
<1>6. CallsInv' /\ FewInv' /\ PlacesInv'  BY <1>1, CallsStill
<1>7. ArcsInv'  BY <1>1, <1>2 DEF ListsInv, ArcsInv
<1> QED BY <1>4, <1>5, <1>6, <1>7 DEF ListsInv

LEMMA ListsStill ==
  ASSUME ListsInv, UNCHANGED <<fns, slab, doing, inside>>
  PROVE  ListsInv'
<1>1. ProfTypes' /\ TurnsInv'  BY DEF ListsInv, ProfTypes, TurnsInv
<1>2. CallsInv' /\ FewInv' /\ PlacesInv'  BY CallsStill
<1>3. ArcsInv'  BY DEF ListsInv, ArcsInv, Here, Now0
<1> QED BY <1>1, <1>2, <1>3 DEF ListsInv

\* The flag and the alarms of the sampler.
LEMMA SamplerMoves ==
  ASSUME ListsInv, SamplerInv, NEW c, Goes(c)
  PROVE  /\ doing'[Now0] = c
         /\ \A w \in Who : w # Now0 => doing'[w] = doing[w]
BY NowIs0 DEF Goes, ListsInv, ProfTypes

LEMMA SamplerIdle ==
  ASSUME ListsInv, SamplerInv, UNCHANGED <<starts, raced, pcsample_need_init>>,
         NEW c, Goes(c), c.pc \notin Starting \cup {"clear"}
  PROVE  SamplerInv'
<1>1. /\ doing'[Now0] = c
      /\ \A w \in Who : w # Now0 => doing'[w] = doing[w]
  BY SamplerMoves
<1>2. \A w \in Who : doing'[w].pc \in Starting \cup {"clear"} => doing'[w].pc = doing[w].pc
  BY <1>1
<1>3. "start" \in Starting /\ "not started" \in Starting  BY DEF Starting
<1> QED BY <1>2, <1>3, Zenon DEF SamplerInv, Who

LEMMA TestFlagSamples == ASSUME ListsInv, SamplerInv, TestFlag PROVE SamplerInv'
<1> DEFINE c == [Here EXCEPT !.pc = IF pcsample_need_init THEN "clear" ELSE "add function"]
<1>1. /\ Goes(c) /\ UNCHANGED <<starts, pcsample_need_init>> /\ Here.pc = "record"
      /\ raced' = (raced \/ (inside /\ doing["program"].pc = "clear"))
  BY DEF TestFlag, AtStep
<1>2. c.pc = (IF pcsample_need_init THEN "clear" ELSE "add function")  BY NowIs0 DEF CallStates
<1> HIDE DEF c
<1>3. /\ doing'[Now0] = c
      /\ \A w \in Who : w # Now0 => doing'[w] = doing[w]
  BY <1>1, SamplerMoves
<1>4. Now0 \in Who /\ (Now0 = "handler" <=> inside)
      /\ (Now0 # "handler" => doing["handler"].pc = "out")
  BY NowIs0 DEF Who
<1>5. starts \in Nat /\ raced \in BOOLEAN /\ pcsample_need_init \in BOOLEAN  BY DEF SamplerInv
<1>6. raced' \in BOOLEAN /\ starts' \in Nat /\ pcsample_need_init' \in BOOLEAN
  BY <1>1, <1>5, Zenon
<1>7. ASSUME ~raced'
      PROVE  /\ starts' <= 1 /\ (pcsample_need_init' => starts' = 0)
             /\ \A w \in Who :
                  /\ doing'[w].pc = "clear" => pcsample_need_init'
                  /\ doing'[w].pc \in Starting => ~pcsample_need_init'
                  /\ doing'[w].pc \in {"start", "not started"} => starts' = 0
             /\ ~(doing'["program"].pc \in Starting \cup {"clear"}
                    /\ doing'["handler"].pc \in Starting \cup {"clear"})
  <2>1. ~raced /\ ~(inside /\ doing["program"].pc = "clear")  BY <1>1, <1>5, <1>7
  <2>2. /\ starts <= 1 /\ (pcsample_need_init => starts = 0)
        /\ \A w \in Who :
             /\ doing[w].pc = "clear" => pcsample_need_init
             /\ doing[w].pc \in Starting => ~pcsample_need_init
             /\ doing[w].pc \in {"start", "not started"} => starts = 0
    BY <2>1 DEF SamplerInv
  <2>3. c.pc \in {"clear", "add function"} /\ (c.pc = "clear" => pcsample_need_init)  BY <1>2
  <2>4. c.pc \notin Starting /\ "clear" \notin Starting /\ "out" \notin Starting
        /\ "add function" \notin Starting
    BY <2>3 DEF Starting
  <2>5. \A w \in Who :
          /\ doing'[w].pc = "clear" => pcsample_need_init'
          /\ doing'[w].pc \in Starting => ~pcsample_need_init'
          /\ doing'[w].pc \in {"start", "not started"} => starts' = 0
    <3> SUFFICES ASSUME NEW w \in Who
                 PROVE  /\ doing'[w].pc = "clear" => pcsample_need_init
                        /\ doing'[w].pc \in Starting => ~pcsample_need_init
                        /\ doing'[w].pc \in {"start", "not started"} => starts = 0
      BY <1>1
    <3>1. CASE w = Now0
      BY <1>3, <2>3, <2>4, <3>1
    <3>2. CASE w # Now0
      BY <1>3, <2>2, <3>2
    <3> QED BY <3>1, <3>2
  <2>6. ~(doing'["program"].pc \in Starting \cup {"clear"}
            /\ doing'["handler"].pc \in Starting \cup {"clear"})
    <3>1. CASE Now0 = "handler"
      <4>1. doing'["program"] = doing["program"] /\ doing'["handler"] = c
        BY <1>3, <3>1 DEF Who
      <4>2. doing["program"].pc # "clear"  BY <1>4, <2>1, <3>1
      <4>3. doing["program"].pc \in Starting => c.pc = "add function"
        <5>1. doing["program"].pc \in Starting => ~pcsample_need_init  BY <2>2 DEF Who
        <5> QED BY <1>2, <5>1
      <4> QED BY <2>4, <4>1, <4>2, <4>3
    <3>2. CASE Now0 # "handler"
      <4>1. doing'["handler"] = doing["handler"] /\ doing["handler"].pc = "out"
        BY <1>3, <1>4, <3>2 DEF Who
      <4> QED BY <2>4, <4>1
    <3> QED BY <3>1, <3>2
  <2> QED BY <1>1, <2>2, <2>5, <2>6
<1> QED BY <1>6, <1>7 DEF SamplerInv

\* The steps of the one that starts the sampler.
LEMMA StartsKeeps ==
  ASSUME ListsInv, SamplerInv, UNCHANGED raced, starts' \in Nat, pcsample_need_init' \in BOOLEAN,
         Here.pc \in Starting \cup {"clear"}, NEW c, Goes(c),
         ~raced => /\ starts' <= 1 /\ (pcsample_need_init' => starts' = 0)
                   /\ c.pc = "clear" => pcsample_need_init'
                   /\ c.pc \in Starting => ~pcsample_need_init'
                   /\ c.pc \in {"start", "not started"} => starts' = 0
  PROVE  SamplerInv'
<1>1. /\ doing'[Now0] = c /\ Now0 \in Who
      /\ \A w \in Who : w # Now0 => doing'[w] = doing[w]
  BY SamplerMoves, NowIs0
<1>2. raced' \in BOOLEAN  BY Zenon DEF SamplerInv
<1>3. ASSUME ~raced
      PROVE  /\ starts' <= 1 /\ (pcsample_need_init' => starts' = 0)
             /\ \A w \in Who :
                  /\ doing'[w].pc = "clear" => pcsample_need_init'
                  /\ doing'[w].pc \in Starting => ~pcsample_need_init'
                  /\ doing'[w].pc \in {"start", "not started"} => starts' = 0
             /\ ~(doing'["program"].pc \in Starting \cup {"clear"}
                    /\ doing'["handler"].pc \in Starting \cup {"clear"})
  <2>1. \A w \in Who : w # Now0 => doing[w].pc \notin Starting \cup {"clear"}
    BY <1>1, <1>3 DEF SamplerInv, Here, Who
  <2>2. "start" \in Starting /\ "not started" \in Starting  BY DEF Starting
  <2>3. \A w \in Who : w # Now0 => doing'[w].pc \notin Starting \cup {"clear"}
    BY <1>1, <2>1
  <2>4. \A w \in Who :
          /\ doing'[w].pc = "clear" => pcsample_need_init'
          /\ doing'[w].pc \in Starting => ~pcsample_need_init'
          /\ doing'[w].pc \in {"start", "not started"} => starts' = 0
    <3> SUFFICES ASSUME NEW w \in Who
                 PROVE  /\ doing'[w].pc = "clear" => pcsample_need_init'
                        /\ doing'[w].pc \in Starting => ~pcsample_need_init'
                        /\ doing'[w].pc \in {"start", "not started"} => starts' = 0
      OBVIOUS
    <3>1. CASE w = Now0  BY <1>1, <1>3, <3>1
    <3>2. CASE w # Now0  BY <2>2, <2>3, <3>2
    <3> QED BY <3>1, <3>2
  <2>5. ~(doing'["program"].pc \in Starting \cup {"clear"}
            /\ doing'["handler"].pc \in Starting \cup {"clear"})
    <3>1. "program" \in Who /\ "handler" \in Who /\ ("program" # Now0 \/ "handler" # Now0)  BY DEF Who
    <3> QED BY <2>3, <3>1
  <2> QED BY <1>3, <2>4, <2>5
<1> QED BY <1>2, <1>3 DEF SamplerInv

LEMMA SamplerStarts ==
  ASSUME ListsInv, SamplerInv, ClearFlag \/ StartSampler \/ SetFlag
  PROVE  SamplerInv'
<1>1. Here \in CallStates /\ Now0 \in Who /\ Here = doing[Now0]  BY NowIs0 DEF Here
<1>2. starts \in Nat /\ raced \in BOOLEAN /\ pcsample_need_init \in BOOLEAN  BY DEF SamplerInv
<1>3. ~raced =>
        /\ starts <= 1 /\ (pcsample_need_init => starts = 0)
        /\ Here.pc = "clear" => pcsample_need_init
        /\ Here.pc \in Starting => ~pcsample_need_init
        /\ Here.pc \in {"start", "not started"} => starts = 0
  BY <1>1, <1>2 DEF SamplerInv
<1>4. ASSUME ClearFlag PROVE SamplerInv'
  <2> DEFINE c == [Here EXCEPT !.pc = "start"]
  <2>1. /\ Here.pc = "clear" /\ Goes(c) /\ UNCHANGED <<starts, raced>> /\ ~pcsample_need_init'
        /\ pcsample_need_init' \in BOOLEAN
    BY <1>4 DEF ClearFlag, AtStep, Cleared
  <2>2. c.pc = "start"  BY <1>1 DEF CallStates
  <2> HIDE DEF c
  <2> QED BY <1>2, <1>3, <2>1, <2>2, StartsKeeps
<1>5. ASSUME StartSampler PROVE SamplerInv'
  <2> DEFINE c == [Here EXCEPT !.pc = IF ticking THEN "started" ELSE "not started"]
  <2>1. /\ Here.pc = "start" /\ Goes(c) /\ UNCHANGED <<raced, pcsample_need_init>>
        /\ starts' = IF ticking THEN starts + 1 ELSE starts
    BY <1>5 DEF StartSampler, AtStep
  <2>2. c.pc = IF ticking THEN "started" ELSE "not started"  BY <1>1 DEF CallStates
  <2> HIDE DEF c
  <2>3. starts' \in Nat /\ pcsample_need_init' \in BOOLEAN  BY <1>2, <2>1
  <2>4. Here.pc \in Starting  BY <2>1 DEF Starting
  <2>5. ~raced => starts' <= 1 /\ ~pcsample_need_init'
                  /\ (c.pc \in {"start", "not started"} => starts' = 0) /\ c.pc # "clear"
    <3>1. CASE ticking
      <4>1. c.pc = "started" /\ starts' = starts + 1  BY <2>1, <2>2, <3>1
      <4> QED BY <1>2, <1>3, <2>1, <2>4, <4>1
    <3>2. CASE ~ticking
      <4>1. c.pc = "not started" /\ starts' = starts  BY <2>1, <2>2, <3>2
      <4> QED BY <1>2, <1>3, <2>1, <2>4, <4>1
    <3> QED BY <3>1, <3>2
  <2> QED BY <2>1, <2>3, <2>4, <2>5, StartsKeeps
<1>6. ASSUME SetFlag PROVE SamplerInv'
  <2> DEFINE c == [Here EXCEPT !.pc = "add function"]
  <2>1. /\ Here.pc \in {"started", "not started"} /\ Goes(c) /\ UNCHANGED <<raced, starts>>
        /\ pcsample_need_init' = (Here.pc = "not started")
    BY <1>6 DEF SetFlag, AtStep
  <2>2. c.pc = "add function"  BY <1>1 DEF CallStates
  <2> HIDE DEF c
  <2>3. pcsample_need_init' \in BOOLEAN /\ starts' \in Nat  BY <1>2, <2>1
  <2>4. Here.pc \in Starting /\ c.pc \notin Starting  BY <2>1, <2>2 DEF Starting
  <2>5. ~raced => starts' <= 1 /\ (pcsample_need_init' => starts' = 0)
    BY <1>3, <2>1
  <2> QED BY <2>1, <2>2, <2>3, <2>4, <2>5, StartsKeeps
<1> QED BY <1>4, <1>5, <1>6

LEMMA SamplerStill ==
  ASSUME SamplerInv, UNCHANGED <<doing, starts, raced, pcsample_need_init>>
  PROVE  SamplerInv'
BY DEF SamplerInv

LEMMA SampleKeeps ==
  ASSUME SamplesInside, NEW pc0 \in {0, TextBytes - 1, TextBytes}, Pcsample(pc0)
  PROVE  SamplesInside'
<1> DEFINE q == pc0 \div BucketBytes
           last == TextBytes \div BucketBytes
           spare == TextBytes % BucketBytes
<1>1. /\ TextBytes \in Nat /\ TextBytes > 0 /\ BucketBytes \in Nat \ {0}
      /\ pc0 \in Nat /\ pc0 < TextBytes
  BY ProfileAssumption DEF Pcsample, Profiled
<1>2. /\ q \in Int /\ q * BucketBytes <= pc0 /\ last \in Int /\ spare \in Int
      /\ TextBytes = last * BucketBytes + spare /\ q <= last
  <2>1. q \in Int /\ q * BucketBytes <= pc0  BY <1>1, QuotientFits
  <2>2. last \in Int /\ spare \in Int /\ TextBytes = last * BucketBytes + spare  BY <1>1, SMT
  <2>3. q <= last  BY <1>1, QuotientGrows
  <2> QED BY <2>1, <2>2, <2>3
<1> HIDE DEF q, last, spare
<1>3. q < last \/ (q = last /\ spare # 0)
  <2>1. CASE q = last
    <3> DEFINE p == q * BucketBytes
    <3>1. p \in Int /\ p <= pc0 /\ TextBytes = p + spare  BY <1>1, <1>2, <2>1
    <3> HIDE DEF p
    <3>2. spare # 0  BY <1>1, <1>2, <3>1
    <3> QED BY <2>1, <3>2
  <2>2. CASE q # last  BY <1>2, <2>2
  <2> QED BY <2>1, <2>2
<1>4. buckets' = buckets \cup {q}  BY DEF Pcsample, q
<1>5. \A b \in buckets : b < last \/ (b = last /\ spare # 0)  BY DEF SamplesInside, last, spare
<1>6. \A b \in buckets' : b < last \/ (b = last /\ spare # 0)  BY <1>3, <1>4, <1>5
<1> QED BY <1>6 DEF SamplesInside, last, spare

LEMMA ProfileKeeps == ProfInv /\ [ProfileNext]_profileVars => ProfInv'
<1> SUFFICES ASSUME ListsInv, SamplerInv, SamplesInside, [ProfileNext]_profileVars PROVE ProfInv'
  BY DEF ProfInv
<1>1. ASSUME UNCHANGED profileVars PROVE ProfInv'
  <2>1. UNCHANGED <<fns, slab, doing, inside, starts, raced, pcsample_need_init, buckets>>
    BY <1>1 DEF profileVars
  <2> QED BY <2>1, ListsStill, SamplerStill DEF SamplesInside, ProfInv
<1>2. ASSUME NEW self \in Functions, NEW from \in Callers, Mcount(self, from) PROVE ProfInv'
  <2> DEFINE c == [Resting EXCEPT !.pc = "function", !.self = self, !.from = from, !.head = Len(fns)]
  <2>1. Goes(c) /\ UNCHANGED <<starts, raced, pcsample_need_init, buckets>>  BY <1>2 DEF Mcount
  <2>2. c.pc \notin Starting \cup {"clear"}  BY DEF Resting, Starting
  <2> HIDE DEF c
  <2> QED BY <1>2, <2>1, <2>2, McountKeeps, SamplerIdle DEF SamplesInside, ProfInv
<1>3. ASSUME FindFunction PROVE ProfInv'
  <2>1. Here \in CallStates  BY NowIs0
  <2>2. UNCHANGED <<starts, raced, pcsample_need_init, buckets>>  BY <1>3 DEF FindFunction
  <2>3. \E c : Goes(c) /\ c.pc \in {"record", "arc"}
    <3> DEFINE fn == Newest({k \in 1 .. Here.head : fns[k].self = Here.self})
               r == [Here EXCEPT !.pc = "record"]
               s == [Here EXCEPT !.pc = "arc", !.fn = fn, !.head = Len(fns[fn].arcs)]
    <3>1. r.pc = "record" /\ s.pc = "arc"  BY <2>1 DEF CallStates
    <3>2. Goes(IF fn = 0 THEN r ELSE s)  BY <1>3 DEF FindFunction
    <3> HIDE DEF fn, r, s
    <3>3. Goes(r) \/ Goes(s)  BY <3>2
    <3> QED BY <3>1, <3>3
  <2>4. \E c : Goes(c) /\ c.pc \notin Starting \cup {"clear"}  BY <2>3 DEF Starting
  <2> QED BY <1>3, <2>2, <2>4, FindFunctionKeeps, SamplerIdle DEF SamplesInside, ProfInv
<1>4. ASSUME FindArc PROVE ProfInv'
  <2>1. Here \in CallStates  BY NowIs0
  <2>2. UNCHANGED <<starts, raced, pcsample_need_init, buckets>>  BY <1>4 DEF FindArc
  <2>3. \E c : Goes(c) /\ c.pc \in {"record", "store"}
    <3> DEFINE arc == ArcOf(Here.fn, Here.head, Here.from)
               r == [Here EXCEPT !.pc = "record"]
               s == [Here EXCEPT !.pc = "store", !.arc = arc, !.count = fns[Here.fn].arcs[arc].count]
    <3>1. r.pc = "record" /\ s.pc = "store"  BY <2>1 DEF CallStates
    <3>2. Goes(IF arc = 0 THEN r ELSE s)  BY <1>4 DEF FindArc
    <3> HIDE DEF arc, r, s
    <3>3. Goes(r) \/ Goes(s)  BY <3>2
    <3> QED BY <3>1, <3>3
  <2>4. \E c : Goes(c) /\ c.pc \notin Starting \cup {"clear"}  BY <2>3 DEF Starting
  <2> QED BY <1>4, <2>2, <2>4, FindArcKeeps, SamplerIdle DEF SamplesInside, ProfInv
<1>5. ASSUME StoreCount \/ AddArc PROVE ProfInv'
  <2>1. Goes(Resting) /\ UNCHANGED <<starts, raced, pcsample_need_init, buckets>>
    BY <1>5 DEF StoreCount, AddArc, Finish
  <2>2. Resting.pc \notin Starting \cup {"clear"}  BY DEF Resting, Starting
  <2>3. SamplerInv'  BY <2>1, <2>2, SamplerIdle
  <2> QED BY <1>5, <2>1, <2>3, StoreCountKeeps, AddArcKeeps DEF SamplesInside, ProfInv
<1>6. ASSUME AddFunction PROVE ProfInv'
  <2>1. Here \in CallStates  BY NowIs0
  <2>2. UNCHANGED <<starts, raced, pcsample_need_init, buckets>>  BY <1>6 DEF AddFunction
  <2>3. \E c : Goes(c) /\ c.pc = "add arc"
    <3> DEFINE r == [Here EXCEPT !.pc = "add arc", !.fn = Len(fns) + 1]
               s == [Here EXCEPT !.pc = "add arc"]
    <3>1. r.pc = "add arc" /\ s.pc = "add arc"  BY <2>1 DEF CallStates
    <3>2. Goes(r) \/ Goes(s)  BY <1>6 DEF AddFunction
    <3> HIDE DEF r, s
    <3> QED BY <3>1, <3>2
  <2>4. \E c : Goes(c) /\ c.pc \notin Starting \cup {"clear"}  BY <2>3 DEF Starting
  <2> QED BY <1>6, <2>2, <2>4, AddFunctionKeeps, SamplerIdle DEF SamplesInside, ProfInv
<1>7. ASSUME TestFlag \/ ClearFlag \/ StartSampler \/ SetFlag PROVE ProfInv'
  <2>1. UNCHANGED <<fns, slab, inside, buckets>>
    BY <1>7 DEF TestFlag, ClearFlag, StartSampler, SetFlag
  <2>2. Here.pc \in {"record", "clear", "add function"} \cup Starting
    BY <1>7 DEF TestFlag, ClearFlag, StartSampler, SetFlag, AtStep, Starting
  <2>3. \E p \in {"clear", "add function"} \cup Starting : Goes([Here EXCEPT !.pc = p])
    <3>1. CASE TestFlag
      <4>1. CASE pcsample_need_init  BY <3>1, <4>1 DEF TestFlag
      <4>2. CASE ~pcsample_need_init  BY <3>1, <4>2 DEF TestFlag
      <4> QED BY <4>1, <4>2
    <3>2. CASE ClearFlag  BY <3>2 DEF ClearFlag, Starting
    <3>3. CASE StartSampler
      <4>1. CASE ticking  BY <3>3, <4>1 DEF StartSampler, Starting
      <4>2. CASE ~ticking  BY <3>3, <4>2 DEF StartSampler, Starting
      <4> QED BY <4>1, <4>2
    <3>4. CASE SetFlag  BY <3>4 DEF SetFlag
    <3> QED BY <1>7, <3>1, <3>2, <3>3, <3>4
  <2>4. PICK p \in {"clear", "add function"} \cup Starting : Goes([Here EXCEPT !.pc = p])  BY <2>3
  <2>5. p \in {"clear", "add function", "add arc"} \cup Starting /\ p # "add arc"
    BY DEF Starting
  <2>6. ListsInv'  BY <2>1, <2>2, <2>4, <2>5, RecordKeeps
  <2>7. SamplerInv'  BY <1>7, TestFlagSamples, SamplerStarts
  <2> QED BY <2>1, <2>6, <2>7 DEF SamplesInside, ProfInv
<1>8. ASSUME Interrupted \/ Returned \/ TimerStarts PROVE ProfInv'
  <2>1. UNCHANGED <<fns, slab, doing, starts, raced, pcsample_need_init, buckets>>
    BY <1>8 DEF Interrupted, Returned, TimerStarts
  <2>2. TimerStarts => UNCHANGED inside  BY DEF TimerStarts
  <2>3. ListsInv'  BY <1>8, <2>1, <2>2, TurnKeeps, ListsStill
  <2> QED BY <2>1, <2>3, SamplerStill DEF SamplesInside, ProfInv
<1>9. ASSUME NEW pc0 \in {0, TextBytes - 1, TextBytes}, Pcsample(pc0) PROVE ProfInv'
  <2>1. UNCHANGED <<fns, slab, doing, inside, starts, raced, pcsample_need_init>>
    BY <1>9 DEF Pcsample
  <2> QED BY <1>9, <2>1, ListsStill, SamplerStill, SampleKeeps DEF ProfInv
<1> QED BY <1>1, <1>2, <1>3, <1>4, <1>5, <1>6, <1>7, <1>8, <1>9 DEF ProfileNext

\* The counts of an arc's copies.
CountsOf(a) == [p \in Copies(a) |-> fns[p[1]].arcs[p[2]].count]

LEMMA CopiesAre ==
  ASSUME ListsInv, NEW a
  PROVE  /\ IsFiniteSet(Copies(a)) /\ CountsOf(a) \in [Copies(a) -> Nat]
         /\ Total(a) = SumOf(CountsOf(a)) /\ Total(a) \in Nat
         /\ \A f, k : <<f, k>> \in Copies(a) <=>
              /\ f \in 1 .. Len(fns) /\ k \in 1 .. Len(fns[f].arcs)
              /\ fns[f].self = a[1] /\ fns[f].arcs[k].from = a[2]
         /\ \A p \in Copies(a) : p = <<p[1], p[2]>>
<1>1. IsFiniteSet(ArcPlaces)
  <2> DEFINE places(f) == {<<f, k>> : k \in 1 .. Len(fns[f].arcs)}
             all == {places(f) : f \in 1 .. Len(fns)}
  <2>1. ASSUME NEW f \in 1 .. Len(fns) PROVE IsFiniteSet(places(f))
    <3>1. IsFiniteSet(1 .. Len(fns[f].arcs)) /\ IsFiniteSet({f})
      <4>1. PICK n \in Nat : n = Len(fns[f].arcs)  BY ListsAre
      <4>2. IsFiniteSet(1 .. n)  BY FS_Interval
      <4>3. IsFiniteSet({f})  BY FS_Singleton
      <4> QED BY <4>1, <4>2, <4>3
    <3>2. IsFiniteSet({f} \X (1 .. Len(fns[f].arcs)))  BY <3>1, FS_Product
    <3>3. places(f) \in SUBSET ({f} \X (1 .. Len(fns[f].arcs)))  OBVIOUS
    <3> QED BY <3>2, <3>3, FS_Subset
  <2>2. IsFiniteSet(all)
    <3>1. IsFiniteSet(1 .. Len(fns))
      <4>1. Len(fns) \in Nat  BY ListsAre
      <4> QED BY <4>1, FS_Interval
    <3> DEFINE sets == [f \in 1 .. Len(fns) |-> places(f)]
    <3>2. all = {sets[f] : f \in 1 .. Len(fns)}  OBVIOUS
    <3>3. sets \in Surjection(1 .. Len(fns), all)
      <4>1. sets \in [1 .. Len(fns) -> all]  OBVIOUS
      <4>2. \A s \in all : \E f \in 1 .. Len(fns) : sets[f] = s  OBVIOUS
      <4> HIDE DEF sets, all
      <4> QED BY <4>1, <4>2 DEF Surjection
    <3> HIDE DEF sets, all
    <3> QED BY <3>1, <3>3, FS_Surjection
  <2>3. \A s \in all : IsFiniteSet(s)  BY <2>1
  <2> HIDE DEF places
  <2>4. ArcPlaces = UNION all  BY DEF ArcPlaces, places
  <2> HIDE DEF all
  <2> QED BY <2>2, <2>3, <2>4, FS_UNION
<1>2. IsFiniteSet(Copies(a))  BY <1>1, FS_Subset DEF Copies
<1>3. \A p \in ArcPlaces : /\ p = <<p[1], p[2]>> /\ p[1] \in 1 .. Len(fns)
                           /\ p[2] \in 1 .. Len(fns[p[1]].arcs)
  BY DEF ArcPlaces
<1>4. CountsOf(a) \in [Copies(a) -> Nat]
  <2>1. \A p \in Copies(a) : fns[p[1]].arcs[p[2]] \in ArcEntries  BY <1>3, ListsAre DEF Copies
  <2>2. \A p \in Copies(a) : fns[p[1]].arcs[p[2]].count \in Nat  BY <2>1 DEF ArcEntries
  <2> QED BY <2>2 DEF CountsOf
<1>5. Total(a) = SumOf(CountsOf(a))  BY DEF Total, SumOf, CountsOf
<1>6. ASSUME NEW f, NEW k
      PROVE  <<f, k>> \in Copies(a) <=>
              /\ f \in 1 .. Len(fns) /\ k \in 1 .. Len(fns[f].arcs)
              /\ fns[f].self = a[1] /\ fns[f].arcs[k].from = a[2]
  <2>1. f \in 1 .. Len(fns) /\ k \in 1 .. Len(fns[f].arcs) => <<f, k>> \in ArcPlaces
    BY DEF ArcPlaces
  <2> QED BY <1>3, <2>1 DEF Copies
<1>7. \A p \in Copies(a) : p = <<p[1], p[2]>>  BY <1>3 DEF Copies
<1>8. Total(a) \in Nat  BY <1>2, <1>4, <1>5, SumNat
<1> QED BY <1>2, <1>4, <1>5, <1>6, <1>7, <1>8

\* Lists in which one function has other arcs.
LEMMA ArcsChanged ==
  ASSUME ListsInv, NEW g \in 1 .. Len(fns), NEW new \in Seq(ArcEntries), fns' = [fns EXCEPT ![g].arcs = new]
  PROVE  /\ Len(fns') = Len(fns) /\ fns'[g].arcs = new
         /\ \A f \in 1 .. Len(fns) : fns'[f].self = fns[f].self /\ (f # g => fns'[f] = fns[f])
<1> DEFINE y == [fns[g] EXCEPT !.arcs = new]
<1>1. fns[g] \in FnEntries /\ fns \in Seq(FnEntries)  BY ListsAre
<1>2. y \in FnEntries /\ y.arcs = new /\ y.self = fns[g].self  BY <1>1 DEF FnEntries
<1>3. fns' = [fns EXCEPT ![g] = y]  OBVIOUS
<1> HIDE DEF y
<1>4. /\ Len(fns') = Len(fns)
      /\ \A f \in 1 .. Len(fns) : fns'[f] = IF f = g THEN y ELSE fns[f]
  BY <1>1, <1>2, <1>3, ExceptSeq
<1> QED BY <1>2, <1>4

\* A call that stores its count changes that of one entry, and so the sum of
\* one arc.
LEMMA StoreTotals ==
  ASSUME ListsInv, ListsInv', StoreCount, NEW c, c = Here
  PROVE  /\ c.pc = "store" /\ ArcOfCall(c) \in Arcs /\ CountAt(c) \in Nat /\ c.count \in Nat
         /\ Total(ArcOfCall(c))' + CountAt(c) = Total(ArcOfCall(c)) + (c.count + 1)
         /\ \A a \in Arcs : a # ArcOfCall(c) => Total(a)' = Total(a)
         /\ \A f \in 1 .. Len(fns), k \in Nat : k \in 1 .. Len(fns[f].arcs) =>
              fns'[f].arcs[k].count = IF f = c.fn /\ k = c.arc THEN c.count + 1 ELSE fns[f].arcs[k].count
<1>1. PICK g, b : g = c.fn /\ b = c.arc  OBVIOUS
<1> DEFINE arcs == fns[g].arcs
           new == [arcs EXCEPT ![b].count = c.count + 1]
<1>2. c.pc = "store" /\ fns' = [fns EXCEPT ![g].arcs = new]
  BY <1>1 DEF StoreCount, AtStep, Counted
<1>3. c \in CallStates /\ CallHolds(c)  BY NowIs0
<1>4. /\ g \in 1 .. Len(fns) /\ b \in 1 .. Len(arcs) /\ c.count \in Nat
      /\ fns[g].self = c.self /\ arcs[b].from = c.from
      /\ c.self \in Functions /\ c.from \in Callers
  BY <1>1, <1>2, <1>3 DEF CallHolds, CallStates, ArcsOf
<1>5. arcs \in Seq(ArcEntries) /\ Len(arcs) \in Nat /\ arcs[b] \in ArcEntries  BY <1>4, ListsAre
<1>6. CountAt(c) = arcs[b].count /\ arcs[b].count \in Nat /\ ArcOfCall(c) \in Arcs
  BY <1>1, <1>4, <1>5 DEF CountAt, ArcEntries, ArcOfCall, Arcs
<1>7. /\ new \in Seq(ArcEntries) /\ Len(new) = Len(arcs)
      /\ new[b].count = c.count + 1 /\ new[b].from = arcs[b].from
      /\ \A k \in 1 .. Len(arcs) : k # b => new[k] = arcs[k]
  <2> DEFINE y == arcs[b]
             n == c.count + 1
             x == [y EXCEPT !.count = n]
  <2>1. y \in ArcEntries /\ n \in Nat  BY <1>4, <1>5
  <2> HIDE DEF y, n
  <2>2. x \in ArcEntries /\ x.from = y.from /\ x.count = n  BY <2>1 DEF ArcEntries
  <2>3. new = [arcs EXCEPT ![b] = x]  BY DEF y, n
  <2> HIDE DEF x, new
  <2>4. new \in Seq(ArcEntries) /\ Len(new) = Len(arcs)
        /\ \A k \in 1 .. Len(arcs) : new[k] = IF k = b THEN x ELSE arcs[k]
    BY <1>4, <1>5, <2>2, <2>3, ExceptSeq
  <2> QED BY <1>4, <2>2, <2>4 DEF y, n
<1> HIDE DEF new
<1>8. /\ Len(fns') = Len(fns) /\ fns'[g].arcs = new
      /\ \A f \in 1 .. Len(fns) : fns'[f].self = fns[f].self /\ (f # g => fns'[f] = fns[f])
  BY <1>2, <1>4, <1>7, ArcsChanged
<1>9. \A f \in 1 .. Len(fns) :
        /\ Len(fns'[f].arcs) = Len(fns[f].arcs)
        /\ \A k \in 1 .. Len(fns[f].arcs) :
             /\ fns'[f].arcs[k].from = fns[f].arcs[k].from
             /\ fns'[f].arcs[k].count = IF f = g /\ k = b THEN c.count + 1 ELSE fns[f].arcs[k].count
  <2> SUFFICES ASSUME NEW f \in 1 .. Len(fns)
               PROVE  /\ Len(fns'[f].arcs) = Len(fns[f].arcs)
                      /\ \A k \in 1 .. Len(fns[f].arcs) :
                           /\ fns'[f].arcs[k].from = fns[f].arcs[k].from
                           /\ fns'[f].arcs[k].count = IF f = g /\ k = b THEN c.count + 1 ELSE fns[f].arcs[k].count
    OBVIOUS
  <2>1. CASE f = g  BY <1>7, <1>8, <2>1
  <2>2. CASE f # g  BY <1>8, <2>2
  <2> QED BY <2>1, <2>2
<1>10. ASSUME NEW a \in Arcs
       PROVE  /\ Copies(a)' = Copies(a)
              /\ \A p \in Copies(a) : CountsOf(a)'[p] = IF p = <<g, b>> THEN c.count + 1 ELSE CountsOf(a)[p]
  <2>1. ArcPlaces' = ArcPlaces  BY <1>8, <1>9 DEF ArcPlaces
  <2>2. \A p \in ArcPlaces : p = <<p[1], p[2]>> /\ p[1] \in 1 .. Len(fns) /\ p[2] \in 1 .. Len(fns[p[1]].arcs)
    BY DEF ArcPlaces
  <2>3. Copies(a)' = Copies(a)  BY <1>8, <1>9, <2>1, <2>2 DEF Copies
  <2>4. ASSUME NEW p \in Copies(a)
        PROVE  CountsOf(a)'[p] = IF p = <<g, b>> THEN c.count + 1 ELSE CountsOf(a)[p]
    <3>1. CountsOf(a)'[p] = fns'[p[1]].arcs[p[2]].count /\ CountsOf(a)[p] = fns[p[1]].arcs[p[2]].count
      BY <2>3 DEF CountsOf
    <3>2. p = <<p[1], p[2]>> /\ p[1] \in 1 .. Len(fns) /\ p[2] \in 1 .. Len(fns[p[1]].arcs)
      BY <2>2 DEF Copies
    <3>3. (p = <<g, b>>) = (p[1] = g /\ p[2] = b)  BY <3>2
    <3> QED BY <1>9, <3>1, <3>2, <3>3
  <2> QED BY <2>3, <2>4
<1>11. ASSUME NEW a \in Arcs
       PROVE  /\ CountsOf(a) \in [Copies(a) -> Nat] /\ CountsOf(a)' \in [Copies(a) -> Nat]
              /\ IsFiniteSet(Copies(a))
              /\ Total(a) = SumOf(CountsOf(a)) /\ Total(a)' = SumOf(CountsOf(a)')
  <2>1. /\ IsFiniteSet(Copies(a))' /\ (CountsOf(a) \in [Copies(a) -> Nat])'
        /\ (Total(a) = SumOf(CountsOf(a)))'
    BY CopiesAre, PTL
  <2> QED BY <1>10, <2>1, CopiesAre
<1>12. <<g, b>> \in Copies(ArcOfCall(c))
  <2>1. PICK a : a = ArcOfCall(c)  OBVIOUS
  <2>2. a[1] = c.self /\ a[2] = c.from  BY <2>1 DEF ArcOfCall
  <2>3. <<g, b>> \in Copies(a)  BY <1>4, <2>2, CopiesAre
  <2> QED BY <2>1, <2>3
<1>13. \A a \in Arcs : a # ArcOfCall(c) => <<g, b>> \notin Copies(a)
  <2> SUFFICES ASSUME NEW a \in Arcs, <<g, b>> \in Copies(a) PROVE a = ArcOfCall(c)
    OBVIOUS
  <2>1. a[1] = c.self /\ a[2] = c.from  BY <1>4, CopiesAre
  <2> QED BY <2>1 DEF Arcs, ArcOfCall
<1>14. ASSUME NEW a \in Arcs, a # ArcOfCall(c) PROVE Total(a)' = Total(a)
  <2>1. CountsOf(a)' = CountsOf(a)
    <3>1. \A p \in Copies(a) : CountsOf(a)'[p] = CountsOf(a)[p]  BY <1>10, <1>13, <1>14
    <3> QED BY <1>11, <3>1
  <2> QED BY <1>11, <2>1
<1>15. Total(ArcOfCall(c))' + CountAt(c) = Total(ArcOfCall(c)) + (c.count + 1)
  <2>1. PICK a \in Arcs : a = ArcOfCall(c)  BY <1>6
  <2>2. <<g, b>> \in Copies(a)  BY <1>12, <2>1
  <2>3. CountsOf(a)[<<g, b>>] = CountAt(c) /\ CountsOf(a)'[<<g, b>>] = c.count + 1
    BY <1>6, <1>10, <2>2 DEF CountsOf
  <2> DEFINE S == Copies(a)
             old == CountsOf(a)
             now == CountsOf(a)'
  <2>4. /\ IsFiniteSet(S) /\ old \in [S -> Nat] /\ now \in [S -> Nat] /\ <<g, b>> \in S
        /\ \A p \in S : p # <<g, b>> => now[p] = old[p]
    BY <1>10, <1>11, <2>2
  <2> HIDE DEF S, old, now
  <2>5. SumOf(now) + old[<<g, b>>] = SumOf(old) + now[<<g, b>>]  BY <2>4, SumChanges
  <2>6. Total(a)' + CountAt(c) = Total(a) + (c.count + 1)  BY <1>11, <2>3, <2>5 DEF old, now
  <2>7. (a = ArcOfCall(c))'  BY <2>1 DEF ArcOfCall
  <2> QED BY <2>1, <2>6, <2>7
<1> QED BY <1>1, <1>2, <1>4, <1>6, <1>9, <1>14, <1>15

\* A function that is added has no arc yet.
LEMMA AddFunctionTotals ==
  ASSUME ListsInv, ListsInv', AddFunction
  PROVE  /\ \A a \in Arcs : Total(a)' = Total(a)
         /\ \A f \in 1 .. Len(fns) : fns'[f] = fns[f]
<1>0. ASSUME NEW a \in Arcs
      PROVE  Total(a) = SumOf(CountsOf(a)) /\ Total(a)' = SumOf(CountsOf(a)')
  <2>1. (Total(a) = SumOf(CountsOf(a)))'  BY CopiesAre, PTL
  <2> QED BY <2>1, CopiesAre
<1>1. CASE UNCHANGED fns
  <2>1. \A a \in Arcs : CountsOf(a)' = CountsOf(a)  BY <1>1 DEF CountsOf, Copies, ArcPlaces
  <2> QED BY <1>0, <1>1, <2>1
<1>2. CASE ~UNCHANGED fns
  <2>1. PICK self : self = Here.self  OBVIOUS
  <2>n. PICK n : n = Len(fns) + 1  OBVIOUS
  <2> DEFINE x == NewFunction(self)
  <2>2. fns' = Append(fns, x) /\ Here.pc = "add function"  BY <1>2, <2>1 DEF AddFunction, AtStep
  <2>3. self \in Functions  BY <2>1, <2>2, NowIs0 DEF CallHolds
  <2>4. x \in FnEntries /\ x.arcs = << >>
    <3>1. FreshSlab(slab) \in [ptr : Nat, left : Nat, top : Nat]  BY FreshSlabIs
    <3>2. SlabPlace \in Nat  BY <3>1 DEF SlabPlace
    <3>3. << >> \in Seq(ArcEntries)  BY EmptySeq
    <3> QED BY <2>3, <3>2, <3>3 DEF NewFunction, FnEntries
  <2> HIDE DEF x
  <2>5. /\ Len(fns') = n /\ fns'[n] = x
        /\ \A f \in 1 .. Len(fns) : fns'[f] = fns[f]
    <3>1. PICK s, t : s = fns /\ t = fns'  OBVIOUS
    <3>2. s \in Seq(FnEntries) /\ x \in FnEntries /\ t = Append(s, x)  BY <2>2, <2>4, <3>1, ListsAre
    <3>3. Len(t) = Len(s) + 1  BY <3>2, AppendProperties
    <3>4. t[Len(s) + 1] = x  BY <3>2, AppendProperties
    <3>5. \A f \in 1 .. Len(s) : t[f] = s[f]  BY <3>2, AppendProperties
    <3> QED BY <2>n, <3>1, <3>3, <3>4, <3>5
  <2>6. Len(fns) \in Nat /\ 1 .. n = (1 .. Len(fns)) \cup {n} /\ Len(x.arcs) = 0
    BY <2>n, <2>4, ListsAre, EmptySeq
  <2>7. ArcPlaces' = ArcPlaces
    <3>1. {<<n, k>> : k \in 1 .. Len(fns'[n].arcs)} = {}  BY <2>5, <2>6
    <3>2. \A f \in 1 .. Len(fns) :
            {<<f, k>> : k \in 1 .. Len(fns'[f].arcs)} = {<<f, k>> : k \in 1 .. Len(fns[f].arcs)}
      BY <2>5
    <3>3. ArcPlaces' = UNION {{<<f, k>> : k \in 1 .. Len(fns'[f].arcs)} : f \in (1 .. Len(fns)) \cup {n}}
      BY <2>5, <2>6 DEF ArcPlaces
    <3> QED BY <3>1, <3>2, <3>3 DEF ArcPlaces
  <2>8. \A p \in ArcPlaces : fns'[p[1]] = fns[p[1]]
    <3>1. \A p \in ArcPlaces : p[1] \in 1 .. Len(fns)  BY DEF ArcPlaces
    <3> QED BY <2>5, <3>1
  <2>9. \A a \in Arcs : Total(a)' = Total(a)
    <3> SUFFICES ASSUME NEW a \in Arcs PROVE Total(a)' = Total(a)  OBVIOUS
    <3>1. Copies(a)' = Copies(a)  BY <2>7, <2>8 DEF Copies
    <3>2. CountsOf(a)' = CountsOf(a)
      <4>1. \A p \in Copies(a) : fns'[p[1]].arcs[p[2]].count = fns[p[1]].arcs[p[2]].count
        BY <2>8 DEF Copies
      <4> QED BY <3>1, <4>1 DEF CountsOf
    <3> QED BY <1>0, <3>2
  <2> QED BY <2>5, <2>9
<1> QED BY <1>1, <1>2

\* A new entry counts one call.
LEMMA AddArcTotals ==
  ASSUME ListsInv, ListsInv', AddArc, NEW c, c = Here
  PROVE  /\ c.pc = "add arc" /\ ArcOfCall(c) \in Arcs
         /\ Total(ArcOfCall(c))' = Total(ArcOfCall(c)) + 1
         /\ \A a \in Arcs : a # ArcOfCall(c) => Total(a)' = Total(a)
         /\ \A f \in 1 .. Len(fns), k \in Nat : k \in 1 .. Len(fns[f].arcs) =>
              fns'[f].arcs[k] = fns[f].arcs[k]
<1>1. PICK g : g = c.fn  OBVIOUS
<1>2. PICK m : m = Len(fns[g].arcs) + 1  OBVIOUS
<1> DEFINE x == NewArc(c.from)
           arcs == fns[g].arcs
           new == Append(arcs, x)
<1>3. c.pc = "add arc" /\ fns' = [fns EXCEPT ![g].arcs = new]
  BY <1>1 DEF AddArc, AtStep
<1>4. c \in CallStates /\ CallHolds(c)  BY NowIs0
<1>5. /\ g \in 1 .. Len(fns) /\ fns[g].self = c.self
      /\ c.self \in Functions /\ c.from \in Callers /\ ArcOfCall(c) \in Arcs
  BY <1>1, <1>3, <1>4 DEF CallHolds, ArcOfCall, Arcs
<1>6. /\ arcs \in Seq(ArcEntries) /\ Len(arcs) \in Nat /\ m \in Nat /\ m \notin 1 .. Len(arcs)
      /\ 1 .. m = (1 .. Len(arcs)) \cup {m}
  BY <1>2, <1>5, ListsAre
<1>7. x \in ArcEntries /\ x.from = c.from /\ x.count = 1
  <2>1. FreshSlab(slab) \in [ptr : Nat, left : Nat, top : Nat]  BY FreshSlabIs
  <2>2. SlabPlace \in Nat  BY <2>1 DEF SlabPlace
  <2> QED BY <1>5, <2>2 DEF NewArc, ArcEntries
<1> HIDE DEF x
<1>8. /\ new \in Seq(ArcEntries) /\ Len(new) = m /\ new[m] = x
      /\ \A k \in 1 .. Len(arcs) : new[k] = arcs[k]
  BY <1>2, <1>6, <1>7, AppendProperties
<1> HIDE DEF new
<1>9. /\ Len(fns') = Len(fns) /\ fns'[g].arcs = new
      /\ \A f \in 1 .. Len(fns) : fns'[f].self = fns[f].self /\ (f # g => fns'[f] = fns[f])
  BY <1>3, <1>5, <1>8, ArcsChanged
<1>10. \A f \in 1 .. Len(fns) : \A k \in 1 .. Len(fns[f].arcs) : fns'[f].arcs[k] = fns[f].arcs[k]
  BY <1>8, <1>9
<1> DEFINE e == <<g, m>>
<1>11. /\ e \notin ArcPlaces /\ ArcPlaces' = ArcPlaces \cup {e}
       /\ \A p \in ArcPlaces : p = <<p[1], p[2]>> /\ p[1] \in 1 .. Len(fns) /\ p[2] \in 1 .. Len(fns[p[1]].arcs)
  <2>1. \A p \in ArcPlaces : p = <<p[1], p[2]>> /\ p[1] \in 1 .. Len(fns) /\ p[2] \in 1 .. Len(fns[p[1]].arcs)
    BY DEF ArcPlaces
  <2>2. e \notin ArcPlaces  BY <1>6, <2>1
  <2>3. \A f \in 1 .. Len(fns) :
          {<<f, k>> : k \in 1 .. Len(fns'[f].arcs)} =
            {<<f, k>> : k \in 1 .. Len(fns[f].arcs)} \cup (IF f = g THEN {e} ELSE {})
    <3> SUFFICES ASSUME NEW f \in 1 .. Len(fns)
                 PROVE  {<<f, k>> : k \in 1 .. Len(fns'[f].arcs)} =
                          {<<f, k>> : k \in 1 .. Len(fns[f].arcs)} \cup (IF f = g THEN {e} ELSE {})
      OBVIOUS
    <3>1. CASE f = g
      <4>1. 1 .. Len(fns'[f].arcs) = (1 .. Len(fns[f].arcs)) \cup {m}  BY <1>6, <1>8, <1>9, <3>1
      <4> QED BY <3>1, <4>1
    <3>2. CASE f # g  BY <1>9, <3>2
    <3> QED BY <3>1, <3>2
  <2>4. ArcPlaces' = UNION {{<<f, k>> : k \in 1 .. Len(fns'[f].arcs)} : f \in 1 .. Len(fns)}
    BY <1>9 DEF ArcPlaces
  <2> DEFINE old == [f \in 1 .. Len(fns) |-> {<<f, k>> : k \in 1 .. Len(fns[f].arcs)}]
             now == [f \in 1 .. Len(fns) |-> {<<f, k>> : k \in 1 .. Len(fns'[f].arcs)}]
  <2>5. ArcPlaces = UNION {old[f] : f \in 1 .. Len(fns)} /\ ArcPlaces' = UNION {now[f] : f \in 1 .. Len(fns)}
    BY <2>4 DEF ArcPlaces
  <2>6. \A f \in 1 .. Len(fns) : now[f] = old[f] \cup (IF f = g THEN {e} ELSE {})  BY <2>3
  <2> HIDE DEF old, now, e
  <2>7. ArcPlaces' = ArcPlaces \cup {e}  BY <1>5, <2>5, <2>6
  <2> QED BY <2>1, <2>2, <2>7
<1>12. fns'[e[1]].arcs[e[2]].from = c.from /\ fns'[e[1]].arcs[e[2]].count = 1 /\ fns'[e[1]].self = c.self
  BY <1>5, <1>7, <1>8, <1>9
<1> HIDE DEF e
<1>13. ASSUME NEW a \in Arcs
       PROVE  /\ CountsOf(a) \in [Copies(a) -> Nat] /\ IsFiniteSet(Copies(a)) /\ e \notin Copies(a)
              /\ CountsOf(a)' \in [Copies(a)' -> Nat]
              /\ Total(a) = SumOf(CountsOf(a)) /\ Total(a)' = SumOf(CountsOf(a)')
              /\ \A p \in Copies(a) : p \in Copies(a)' /\ CountsOf(a)'[p] = CountsOf(a)[p]
              /\ Copies(a)' = IF a = ArcOfCall(c) THEN Copies(a) \cup {e} ELSE Copies(a)
  <2>1. (CountsOf(a) \in [Copies(a) -> Nat])' /\ (Total(a) = SumOf(CountsOf(a)))'
    BY CopiesAre, PTL
  <2>2. \A p \in ArcPlaces : /\ fns'[p[1]].self = fns[p[1]].self
                             /\ fns'[p[1]].arcs[p[2]] = fns[p[1]].arcs[p[2]]
    BY <1>9, <1>10, <1>11
  <2>3. (c.self = a[1] /\ c.from = a[2]) = (a = ArcOfCall(c))  BY <1>5 DEF Arcs, ArcOfCall
  <2>4. Copies(a)' = IF a = ArcOfCall(c) THEN Copies(a) \cup {e} ELSE Copies(a)
    BY <1>11, <1>12, <2>2, <2>3 DEF Copies
  <2>5. \A p \in Copies(a) : p \in Copies(a)' /\ CountsOf(a)'[p] = CountsOf(a)[p]
    <3>1. \A p \in Copies(a) : p \in ArcPlaces /\ p \in Copies(a)'  BY <2>4 DEF Copies
    <3> QED BY <2>2, <3>1 DEF CountsOf
  <2>6. e \notin Copies(a)  BY <1>11 DEF Copies
  <2> QED BY <2>1, <2>4, <2>5, <2>6, CopiesAre
<1>14. ASSUME NEW a \in Arcs, a # ArcOfCall(c) PROVE Total(a)' = Total(a)
  <2>1. Copies(a)' = Copies(a) /\ CountsOf(a)' \in [Copies(a) -> Nat]  BY <1>13, <1>14
  <2>2. CountsOf(a)' = CountsOf(a)  BY <1>13, <2>1
  <2> QED BY <1>13, <2>2
<1>15. Total(ArcOfCall(c))' = Total(ArcOfCall(c)) + 1
  <2>1. PICK a \in Arcs : a = ArcOfCall(c)  BY <1>5
  <2> DEFINE S == Copies(a)
             old == CountsOf(a)
             now == CountsOf(a)'
  <2>2. Copies(a)' = S \cup {e}  BY <1>13, <2>1
  <2>3. e \in Copies(a)' /\ now[e] = 1  BY <1>12, <2>2 DEF CountsOf
  <2>4. /\ IsFiniteSet(S) /\ old \in [S -> Nat] /\ now \in [S \cup {e} -> Nat] /\ e \notin S
        /\ \A p \in S : now[p] = old[p]
    BY <1>13, <2>2
  <2> HIDE DEF S, old, now
  <2>5. SumOf(now) = SumOf(old) + now[e]  BY <2>4, SumAdds
  <2>6. Total(a)' = Total(a) + 1  BY <1>13, <2>3, <2>5 DEF old, now
  <2>7. (a = ArcOfCall(c))'  BY <2>1 DEF ArcOfCall
  <2> QED BY <2>1, <2>6, <2>7
<1> QED BY <1>3, <1>5, <1>10, <1>14, <1>15

LEMMA InitCounts == ProfileInit => CountInv
<1> SUFFICES ASSUME ProfileInit PROVE CountInv  OBVIOUS
<1>1. ListsInv  BY InitProfile DEF ProfInv
<1>2. EndedInv
  BY DEF ProfileInit, NoCalls, EndedInv, Resting
<1>3. StoresInv  BY DEF ProfileInit, StoresInv, Resting, Who
<1>4. ASSUME NEW a \in Arcs PROVE Total(a) = 0 /\ ended["program"][a] = 0 /\ ended["handler"][a] = 0
  <2>1. ArcPlaces = {}  BY EmptySeq DEF ProfileInit, ArcPlaces
  <2>2. Copies(a) = {}  BY <2>1 DEF Copies
  <2>3. CountsOf(a) \in [{} -> Nat] /\ Total(a) = SumOf(CountsOf(a))  BY <1>1, <2>2, CopiesAre
  <2>4. SumOf(CountsOf(a)) = 0  BY <2>3, SumOfNone
  <2> QED BY <2>3, <2>4 DEF ProfileInit, NoCalls, Who
<1>5. TotalsInv  BY <1>4 DEF TotalsInv
<1> QED BY <1>2, <1>3, <1>5 DEF CountInv

\* A step that begins or ends no call.
LEMMA EndedStill ==
  ASSUME CountInv, UNCHANGED <<begun, ended>>,
         \A w \in Who :
           \/ doing'[w] = doing[w]
           \/ doing[w].pc # "out" /\ doing'[w].self = doing[w].self /\ doing'[w].from = doing[w].from
  PROVE  EndedInv'
<1>1. ASSUME NEW w \in Who, NEW a \in Arcs, doing'[w].pc # "out", a = ArcOfCall(doing'[w])
      PROVE  ended[w][a] < begun[w][a]
  <2>1. doing[w].pc # "out" /\ ArcOfCall(doing[w]) = ArcOfCall(doing'[w])  BY <1>1 DEF ArcOfCall
  <2> QED BY <1>1, <2>1 DEF CountInv, EndedInv
<1>2. \A w \in Who, a \in Arcs : doing'[w].pc # "out" /\ a = ArcOfCall(doing'[w]) => ended'[w][a] < begun'[w][a]
  BY <1>1
<1>3. \A w \in Who : (ArcOfCall(doing[w]))' = ArcOfCall(doing'[w])  BY DEF ArcOfCall
<1> QED BY <1>2, <1>3 DEF CountInv, EndedInv

\* What a pending store is about.
LEMMA PendingIs ==
  ASSUME ListsInv, NEW w \in Who, NEW d, d = doing[w], d.pc = "store"
  PROVE  /\ d.fn \in 1 .. Len(fns) /\ d.arc \in 1 .. Len(fns[d.fn].arcs) /\ d.arc \in Nat
         /\ ArcOfCall(d) \in Arcs /\ CountAt(d) \in Nat /\ d.count \in Nat
         /\ CountAt(d) = fns[d.fn].arcs[d.arc].count
         /\ fns[d.fn].self = d.self /\ fns[d.fn].arcs[d.arc].from = d.from
<1>1. CallHolds(d) /\ d \in CallStates  BY DEF ListsInv, CallsInv, ProfTypes
<1>2. /\ d.fn \in 1 .. Len(fns) /\ d.arc \in 1 .. Len(fns[d.fn].arcs) /\ d.arc \in Nat /\ d.count \in Nat
      /\ d.self \in Functions /\ d.from \in Callers
      /\ fns[d.fn].self = d.self /\ fns[d.fn].arcs[d.arc].from = d.from
  BY <1>1 DEF CallHolds, CallStates, ArcsOf
<1>3. fns[d.fn].arcs[d.arc] \in ArcEntries  BY <1>2, ListsAre
<1> QED BY <1>2, <1>3 DEF CountAt, ArcEntries, ArcOfCall, Arcs

\* A step that stores no count leaves the pending stores as they were.
LEMMA StoresStill ==
  ASSUME ListsInv, CountInv, UNCHANGED ended,
         \A a \in Arcs : Total(a)' = Total(a),
         \A f \in 1 .. Len(fns), k \in Nat : k \in 1 .. Len(fns[f].arcs) =>
           fns'[f].arcs[k].count = fns[f].arcs[k].count,
         \A w \in Who :
           doing'[w].pc = "store" =>
             \/ doing'[w] = doing[w]
             \/ /\ doing'[w].count = fns[doing'[w].fn].arcs[doing'[w].arc].count
                /\ doing'[w].fn \in 1 .. Len(fns) /\ doing'[w].arc \in Nat
                /\ doing'[w].arc \in 1 .. Len(fns[doing'[w].fn].arcs)
                /\ doing'[w].count \in Nat /\ ArcOfCall(doing'[w]) \in Arcs
  PROVE  TotalsInv' /\ StoresInv'
<1>1. TotalsInv'  BY DEF CountInv, TotalsInv
<1>2. ASSUME NEW w \in Who, NEW d, d = doing'[w], d.pc = "store"
      PROVE  /\ ArcOfCall(d) \in Arcs
             /\ \/ d = doing[w] /\ CountAt(d)' = CountAt(d)
                \/ d.count = CountAt(d)' /\ d.count \in Nat
  <2>1. CASE d = doing[w]
    <3>1. /\ d.fn \in 1 .. Len(fns) /\ d.arc \in 1 .. Len(fns[d.fn].arcs) /\ d.arc \in Nat
          /\ ArcOfCall(d) \in Arcs
      BY <1>2, <2>1, PendingIs
    <3>2. CountAt(d)' = CountAt(d)  BY <3>1 DEF CountAt
    <3> QED BY <2>1, <3>1, <3>2
  <2>2. CASE d # doing[w]
    <3>1. /\ d.count = fns[d.fn].arcs[d.arc].count /\ d.fn \in 1 .. Len(fns) /\ d.arc \in Nat
          /\ d.arc \in 1 .. Len(fns[d.fn].arcs) /\ d.count \in Nat /\ ArcOfCall(d) \in Arcs
      BY <1>2, <2>2
    <3>2. d.count = CountAt(d)'  BY <3>1 DEF CountAt
    <3> QED BY <3>1, <3>2
  <2> QED BY <2>1, <2>2
<1>3. doing'["handler"].pc = "store" => doing'["handler"].count = CountAt(doing["handler"])'
  <2> SUFFICES ASSUME doing'["handler"].pc = "store"
               PROVE  doing'["handler"].count = CountAt(doing["handler"])'
    OBVIOUS
  <2>1. PICK d : d = doing'["handler"]  OBVIOUS
  <2>2. CountAt(doing["handler"])' = CountAt(d)'  BY <2>1 DEF CountAt
  <2>3. \/ d = doing["handler"] /\ CountAt(d)' = CountAt(d)
        \/ d.count = CountAt(d)'
    BY <1>2, <2>1 DEF Who
  <2>4. d = doing["handler"] => d.count = CountAt(d)  BY <2>1 DEF CountInv, StoresInv
  <2> QED BY <2>1, <2>2, <2>3, <2>4
<1>4. ASSUME NEW d, d = doing'["program"], d.pc = "store"
      PROVE  /\ d.count <= CountAt(d)'
             /\ ended'["program"][ArcOfCall(d)] + CountAt(d)' <= Total(ArcOfCall(d))' + d.count
  <2>1. PICK a : a = ArcOfCall(d)  OBVIOUS
  <2>2. a \in Arcs /\ ended["program"][a] \in Nat /\ Total(a) \in Nat /\ Total(a)' = Total(a)
    BY <1>2, <1>4, <2>1, CopiesAre DEF Who, CountInv, EndedInv
  <2>3. ended["program"][a] <= Total(a)  BY <2>2 DEF CountInv, TotalsInv
  <2>4. Total(ArcOfCall(d))' = Total(a)'  BY <2>1
  <2>5. CASE d = doing["program"] /\ CountAt(d)' = CountAt(d)
    <3>1. d.count <= CountAt(d) /\ ended["program"][a] + CountAt(d) <= Total(a) + d.count
      BY <1>4, <2>1, <2>5 DEF CountInv, StoresInv
    <3> QED BY <2>1, <2>2, <2>4, <2>5, <3>1
  <2>6. CASE d.count = CountAt(d)' /\ d.count \in Nat
    <3>1. ended'["program"][a] <= Total(a)'  BY <2>2, <2>3
    <3>2. ended'["program"][a] \in Nat /\ Total(a)' \in Nat  BY <2>2
    <3>3. ended'["program"][a] + d.count <= Total(a)' + d.count  BY <2>6, <3>1, <3>2
    <3> QED BY <2>1, <2>4, <2>6, <3>3
  <2> QED BY <1>2, <1>4, <2>5, <2>6 DEF Who
<1>5. StoresInv'
  <2>1. PICK d : d = doing'["program"]  OBVIOUS
  <2>2. (ArcOfCall(doing["program"]))' = ArcOfCall(d) /\ CountAt(doing["program"])' = CountAt(d)'
        /\ Total(ArcOfCall(doing["program"]))' = Total(ArcOfCall(d))'
    <3>1. (doing["program"] = d)'  BY <2>1
    <3> QED BY <3>1 DEF ArcOfCall, CountAt
  <2>3. d.pc = "store" =>
          /\ d.count <= CountAt(doing["program"])'
          /\ ended'["program"][(ArcOfCall(doing["program"]))'] + CountAt(doing["program"])'
               <= Total(ArcOfCall(doing["program"]))' + d.count
    BY <1>4, <2>1, <2>2
  <2> QED BY <1>3, <2>1, <2>3 DEF StoresInv
<1> QED BY <1>1, <1>5

\* Lists that a step leaves alone keep their counts.
LEMMA SameTotals ==
  ASSUME ListsInv, ListsInv', UNCHANGED fns
  PROVE  /\ \A a \in Arcs : Total(a)' = Total(a)
         /\ \A f \in 1 .. Len(fns), k \in Nat : k \in 1 .. Len(fns[f].arcs) =>
              fns'[f].arcs[k].count = fns[f].arcs[k].count
<1>1. ASSUME NEW a \in Arcs PROVE Total(a)' = Total(a)
  <2>1. (Total(a) = SumOf(CountsOf(a)))'  BY CopiesAre, PTL
  <2>2. CountsOf(a)' = CountsOf(a)  BY DEF CountsOf, Copies, ArcPlaces
  <2> QED BY <2>1, <2>2, CopiesAre
<1> QED BY <1>1

\* What the step of the running call does to the calls.
LEMMA HereMoves ==
  ASSUME ListsInv, NEW c, Goes(c)
  PROVE  /\ Now0 \in Who /\ doing'[Now0] = c
         /\ \A w \in Who : w # Now0 => doing'[w] = doing[w]
<1>1. Now0 \in Who  BY NowIs0
<1>2. doing \in [Who -> CallStates]  BY DEF ListsInv, ProfTypes
<1> QED BY <1>1, <1>2 DEF Goes

\* A call that moves on, without a count to store.
LEMMA CallMovesOn ==
  ASSUME ListsInv, ListsInv', CountInv, NEW c, Goes(c), UNCHANGED <<begun, ended>>,
         c.pc # "store", Here.pc # "out", c.self = Here.self, c.from = Here.from,
         \A a \in Arcs : Total(a)' = Total(a),
         \A f \in 1 .. Len(fns), k \in Nat : k \in 1 .. Len(fns[f].arcs) =>
           fns'[f].arcs[k].count = fns[f].arcs[k].count
  PROVE  CountInv'
<1>1. PICK w0 \in Who : w0 = Now0  BY NowIs0
<1>2. doing'[w0] = c /\ \A w \in Who : w # w0 => doing'[w] = doing[w]  BY <1>1, HereMoves
<1>3. Here = doing[w0]  BY <1>1 DEF Here
<1>4. EndedInv'  BY <1>2, <1>3, EndedStill
<1>5. \A w \in Who : doing'[w].pc = "store" => doing'[w] = doing[w]  BY <1>2
<1>6. TotalsInv' /\ StoresInv'  BY <1>5, StoresStill
<1> QED BY <1>4, <1>6 DEF CountInv

\* A call that ends is counted; a pending store of the program, when it is the
\* handler's call, is of the same entry or of another.
LEMMA CallEnds ==
  ASSUME ListsInv, CountInv, Finish, UNCHANGED begun, Here.pc # "out",
         NEW b \in Arcs, b = ArcOfCall(Here),
         \A a \in Arcs : Total(a)' \in Nat /\ (a # b => Total(a)' = Total(a)),
         Total(b)' <= Total(b) + 1,
         Now0 = "program" => ended["program"][b] + 1 <= Total(b)',
         Now0 = "handler" =>
           /\ Total(b)' = Total(b) + 1
           /\ \A f \in 1 .. Len(fns), k \in Nat : k \in 1 .. Len(fns[f].arcs) =>
                \/ fns'[f].arcs[k].count = fns[f].arcs[k].count
                \/ /\ fns'[f].arcs[k].count = fns[f].arcs[k].count + 1
                   /\ fns[f].self = b[1] /\ fns[f].arcs[k].from = b[2]
  PROVE  CountInv'
<1>1. PICK w0 \in Who : w0 = Now0  BY NowIs0
<1>2. doing'[w0] = Resting /\ \A w \in Who : w # w0 => doing'[w] = doing[w]
  BY <1>1, HereMoves DEF Finish
<1>3. /\ ended \in [Who -> [Arcs -> Nat]] /\ begun \in [Who -> [Arcs -> Nat]]
      /\ \A w \in Who, a \in Arcs : /\ ended[w][a] <= begun[w][a]
                                    /\ ended[w][a] \in Nat /\ begun[w][a] \in Nat
  BY DEF CountInv, EndedInv
<1>4. /\ ended' \in [Who -> [Arcs -> Nat]]
      /\ \A w \in Who, a \in Arcs : ended'[w][a] = IF w = w0 /\ a = b THEN ended[w][a] + 1 ELSE ended[w][a]
  <2> DEFINE n == ended[w0][b] + 1
             r == [ended[w0] EXCEPT ![b] = n]
  <2>1. ended' = [ended EXCEPT ![w0] = r]  BY <1>1 DEF Finish, ArcOfCall
  <2>2. ended[w0] \in [Arcs -> Nat] /\ n \in Nat  BY <1>3
  <2> HIDE DEF n
  <2>3. r \in [Arcs -> Nat] /\ \A a \in Arcs : r[a] = IF a = b THEN n ELSE ended[w0][a]  BY <2>2
  <2> HIDE DEF r
  <2>4. ended' \in [Who -> [Arcs -> Nat]] /\ \A w \in Who : ended'[w] = IF w = w0 THEN r ELSE ended[w]
    BY <1>3, <2>1, <2>3
  <2> QED BY <2>3, <2>4 DEF n
<1>5. EndedInv'
  <2>1. ended[w0][b] < begun[w0][b]
    <3>1. doing[w0].pc # "out" /\ b = ArcOfCall(doing[w0])  BY <1>1 DEF Here
    <3> QED BY <3>1 DEF CountInv, EndedInv
  <2>2. ASSUME NEW w \in Who, NEW a \in Arcs PROVE ended'[w][a] <= begun[w][a]
    <3>1. ended[w][a] \in Nat /\ begun[w][a] \in Nat /\ ended[w][a] <= begun[w][a]  BY <1>3
    <3>2. CASE w = w0 /\ a = b
      <4>1. ended'[w][a] = ended[w][a] + 1 /\ ended[w][a] < begun[w][a]  BY <1>4, <2>1, <3>2
      <4> QED BY <3>1, <4>1
    <3>3. CASE ~(w = w0 /\ a = b)  BY <1>4, <3>1, <3>3
    <3> QED BY <3>2, <3>3
  <2>3. ASSUME NEW w \in Who, NEW a \in Arcs, doing'[w].pc # "out", a = ArcOfCall(doing'[w])
        PROVE  ended'[w][a] < begun[w][a]
    <3>1. w # w0  BY <1>2, <2>3 DEF Resting
    <3>2. doing'[w] = doing[w] /\ ended'[w][a] = ended[w][a]  BY <1>2, <1>4, <3>1
    <3> QED BY <2>3, <3>2 DEF CountInv, EndedInv
  <2>4. \A w \in Who, a \in Arcs : doing'[w].pc # "out" /\ a = ArcOfCall(doing'[w]) => ended'[w][a] < begun[w][a]
    BY <2>3
  <2>5. \A w \in Who : (ArcOfCall(doing[w]))' = ArcOfCall(doing'[w])  BY DEF ArcOfCall
  <2> QED BY <1>3, <1>4, <2>2, <2>4, <2>5 DEF EndedInv
<1>6. \A a \in Arcs : /\ Total(a) \in Nat /\ ended["program"][a] <= Total(a)
                      /\ Total(a) <= ended["program"][a] + ended["handler"][a]
  BY CopiesAre DEF CountInv, TotalsInv
<1>7. w0 = "program" \/ w0 = "handler"  BY DEF Who
<1>8. TotalsInv'
  <2> SUFFICES ASSUME NEW a \in Arcs
               PROVE  /\ ended'["program"][a] <= Total(a)'
                      /\ Total(a)' <= ended'["program"][a] + ended'["handler"][a]
    BY DEF TotalsInv
  <2>0. "program" \in Who /\ "handler" \in Who  BY DEF Who
  <2>1. CASE a # b  BY <1>4, <1>6, <2>0, <2>1
  <2>2. CASE a = b
    <3>1. /\ ended["program"][a] \in Nat /\ ended["handler"][a] \in Nat /\ Total(a) \in Nat /\ Total(a)' \in Nat
          /\ ended["program"][a] <= Total(a) /\ Total(a) <= ended["program"][a] + ended["handler"][a]
          /\ Total(a)' <= Total(a) + 1
      BY <1>3, <1>6, <2>0, <2>2
    <3>2. CASE w0 = "program"
      <4>1. /\ ended'["program"][a] = ended["program"][a] + 1 /\ ended'["handler"][a] = ended["handler"][a]
            /\ ended["program"][a] + 1 <= Total(a)'
        BY <1>1, <1>4, <2>0, <2>2, <3>2
      <4> QED BY <3>1, <4>1
    <3>3. CASE w0 = "handler"
      <4>1. /\ ended'["program"][a] = ended["program"][a] /\ ended'["handler"][a] = ended["handler"][a] + 1
            /\ Total(a)' = Total(a) + 1
        BY <1>1, <1>4, <2>0, <2>2, <3>3
      <4> QED BY <3>1, <4>1
    <3> QED BY <1>7, <3>2, <3>3
  <2> QED BY <2>1, <2>2
<1>9. doing'["handler"].pc # "store"
  <2>1. CASE w0 = "handler"  BY <1>2, <2>1 DEF Resting
  <2>2. CASE w0 # "handler"
    <3>1. doing["handler"].pc = "out"  BY <1>1, <2>2, NowIs0 DEF Who
    <3> QED BY <1>2, <2>2, <3>1 DEF Who
  <2> QED BY <2>1, <2>2
<1>10. ASSUME NEW d, d = doing'["program"], d.pc = "store"
       PROVE  /\ d.count <= CountAt(d)'
              /\ ended'["program"][ArcOfCall(d)] + CountAt(d)' <= Total(ArcOfCall(d))' + d.count
  <2>0. w0 = "handler" /\ d = doing["program"] /\ "program" \in Who
    BY <1>2, <1>7, <1>10 DEF Resting, Who
  <2>1. /\ d.fn \in 1 .. Len(fns) /\ d.arc \in 1 .. Len(fns[d.fn].arcs) /\ d.arc \in Nat
        /\ ArcOfCall(d) \in Arcs /\ CountAt(d) \in Nat /\ d.count \in Nat
        /\ CountAt(d) = fns[d.fn].arcs[d.arc].count
        /\ fns[d.fn].self = d.self /\ fns[d.fn].arcs[d.arc].from = d.from
    BY <1>10, <2>0, PendingIs
  <2>2. PICK a \in Arcs : a = ArcOfCall(d)  BY <2>1
  <2>3. d.count <= CountAt(d) /\ ended["program"][a] + CountAt(d) <= Total(a) + d.count
    BY <1>10, <2>0, <2>2 DEF CountInv, StoresInv
  <2>4. CountAt(d)' = fns'[d.fn].arcs[d.arc].count  BY DEF CountAt
  <2>5. /\ Total(ArcOfCall(d))' = Total(a)' /\ ended'["program"][a] = ended["program"][a]
        /\ ended["program"][a] \in Nat /\ Total(a) \in Nat /\ Total(a)' \in Nat
    BY <1>3, <1>4, <1>6, <2>0, <2>2
  <2>6. CASE CountAt(d)' = CountAt(d)
    <3>1. Total(a) <= Total(a)'  BY <1>1, <1>6, <2>0, <2>5
    <3>2. ended["program"][a] + CountAt(d) <= Total(a)' + d.count
      <4>1. PICK e, t, u, q, n \in Nat :
              /\ e = ended["program"][a] /\ t = Total(a) /\ u = Total(a)'
              /\ q = CountAt(d) /\ n = d.count
        BY <2>1, <2>5
      <4>2. e + q <= t + n /\ t <= u  BY <2>3, <3>1, <4>1
      <4>3. e + q <= u + n  BY <4>2
      <4> QED BY <4>1, <4>3
    <3> QED BY <2>2, <2>3, <2>5, <2>6, <3>2
  <2>7. CASE CountAt(d)' = CountAt(d) + 1 /\ d.self = b[1] /\ d.from = b[2]
    <3>1. a = b  BY <2>2, <2>7 DEF ArcOfCall, Arcs
    <3>2. Total(a)' = Total(a) + 1  BY <1>1, <2>0, <3>1
    <3>3. ended["program"][a] + (CountAt(d) + 1) <= Total(a)' + d.count
      <4>1. PICK e, t, u, q, n \in Nat :
              /\ e = ended["program"][a] /\ t = Total(a) /\ u = Total(a)'
              /\ q = CountAt(d) /\ n = d.count
        BY <2>1, <2>5
      <4>2. e + q <= t + n /\ u = t + 1  BY <2>3, <3>2, <4>1
      <4>3. e + (q + 1) <= u + n  BY <4>2
      <4> QED BY <4>1, <4>3
    <3>4. d.count <= CountAt(d) + 1  BY <2>1, <2>3
    <3> QED BY <2>2, <2>5, <2>7, <3>3, <3>4
  <2>8. \/ CountAt(d)' = CountAt(d)
        \/ CountAt(d)' = CountAt(d) + 1 /\ d.self = b[1] /\ d.from = b[2]
    <3>1. PICK f, k : f = d.fn /\ k = d.arc  OBVIOUS
    <3>2. f \in 1 .. Len(fns) /\ k \in 1 .. Len(fns[f].arcs) /\ k \in Nat  BY <2>1, <3>1
    <3>3. \/ fns'[f].arcs[k].count = fns[f].arcs[k].count
          \/ /\ fns'[f].arcs[k].count = fns[f].arcs[k].count + 1
             /\ fns[f].self = b[1] /\ fns[f].arcs[k].from = b[2]
      BY <1>1, <2>0, <3>2
    <3> QED BY <2>1, <2>4, <3>1, <3>3
  <2> QED BY <2>6, <2>7, <2>8
<1>11. StoresInv'
  <2>1. PICK d : d = doing'["program"]  OBVIOUS
  <2>2. (ArcOfCall(doing["program"]))' = ArcOfCall(d) /\ CountAt(doing["program"])' = CountAt(d)'
        /\ Total(ArcOfCall(doing["program"]))' = Total(ArcOfCall(d))'
    <3>1. (doing["program"] = d)'  BY <2>1
    <3> QED BY <3>1 DEF ArcOfCall, CountAt
  <2>3. d.pc = "store" =>
          /\ d.count <= CountAt(doing["program"])'
          /\ ended'["program"][(ArcOfCall(doing["program"]))'] + CountAt(doing["program"])'
               <= Total(ArcOfCall(doing["program"]))' + d.count
    BY <1>10, <2>1, <2>2
  <2> QED BY <1>9, <2>1, <2>3 DEF StoresInv
<1> QED BY <1>5, <1>8, <1>11 DEF CountInv

LEMMA McountCounts ==
  ASSUME ListsInv, ListsInv', CountInv, NEW self \in Functions, NEW from \in Callers, Mcount(self, from)
  PROVE  CountInv'
<1> DEFINE c == [Resting EXCEPT !.pc = "function", !.self = self, !.from = from, !.head = Len(fns)]
<1>1. PICK w0 \in Who : w0 = Now0  BY NowIs0
<1>2. PICK b \in Arcs : b = <<self, from>>  BY DEF Arcs
<1>3. c.pc = "function" /\ c.self = self /\ c.from = from  BY DEF Resting
<1>4. Goes(c) /\ UNCHANGED <<fns, ended>> /\ begun' = [begun EXCEPT ![w0][b] = @ + 1]
  BY <1>1, <1>2 DEF Mcount
<1> HIDE DEF c
<1>5. doing'[w0] = c /\ \A w \in Who : w # w0 => doing'[w] = doing[w]  BY <1>1, <1>4, HereMoves
<1>6. begun \in [Who -> [Arcs -> Nat]] /\ ended \in [Who -> [Arcs -> Nat]]  BY DEF CountInv, EndedInv
<1>7. /\ begun' \in [Who -> [Arcs -> Nat]]
      /\ \A w \in Who, a \in Arcs : begun'[w][a] = IF w = w0 /\ a = b THEN begun[w][a] + 1 ELSE begun[w][a]
  <2> DEFINE n == begun[w0][b] + 1
             r == [begun[w0] EXCEPT ![b] = n]
  <2>1. begun' = [begun EXCEPT ![w0] = r]  BY <1>4
  <2>2. begun[w0] \in [Arcs -> Nat] /\ n \in Nat  BY <1>6
  <2> HIDE DEF n
  <2>3. r \in [Arcs -> Nat] /\ \A a \in Arcs : r[a] = IF a = b THEN n ELSE begun[w0][a]  BY <2>2
  <2> HIDE DEF r
  <2>4. begun' \in [Who -> [Arcs -> Nat]] /\ \A w \in Who : begun'[w] = IF w = w0 THEN r ELSE begun[w]
    BY <1>6, <2>1, <2>3
  <2> QED BY <2>3, <2>4 DEF n
<1>8. ASSUME NEW w \in Who, NEW a \in Arcs
      PROVE  /\ ended[w][a] <= begun'[w][a]
             /\ doing'[w].pc # "out" /\ a = ArcOfCall(doing'[w]) => ended[w][a] < begun'[w][a]
  <2>1. /\ ended[w][a] \in Nat /\ begun[w][a] \in Nat /\ ended[w][a] <= begun[w][a]
        /\ doing[w].pc # "out" /\ a = ArcOfCall(doing[w]) => ended[w][a] < begun[w][a]
    BY <1>6 DEF CountInv, EndedInv
  <2>2. CASE w = w0 /\ a = b
    <3>1. begun'[w][a] = begun[w][a] + 1  BY <1>7, <2>2
    <3> QED BY <2>1, <3>1
  <2>3. CASE w = w0 /\ a # b
    <3>1. begun'[w][a] = begun[w][a]  BY <1>7, <2>3
    <3>2. ArcOfCall(doing'[w]) = b  BY <1>2, <1>3, <1>5, <2>3 DEF ArcOfCall
    <3> QED BY <2>1, <2>3, <3>1, <3>2
  <2>4. CASE w # w0
    <3>1. begun'[w][a] = begun[w][a] /\ doing'[w] = doing[w]  BY <1>5, <1>7, <2>4
    <3> QED BY <2>1, <3>1
  <2> QED BY <2>2, <2>3, <2>4
<1>9. EndedInv'
  <2>1. \A w \in Who : (ArcOfCall(doing[w]))' = ArcOfCall(doing'[w])  BY DEF ArcOfCall
  <2> QED BY <1>4, <1>6, <1>7, <1>8, <2>1 DEF EndedInv
<1>10. \A w \in Who : doing'[w].pc = "store" => doing'[w] = doing[w]  BY <1>3, <1>5
<1>11. TotalsInv' /\ StoresInv'  BY <1>4, <1>10, SameTotals, StoresStill
<1> QED BY <1>9, <1>11 DEF CountInv

\* The steps that look for a function, and those before the lists.
LEMMA SearchCounts ==
  ASSUME ListsInv, ListsInv', CountInv, FindFunction \/ TestFlag \/ ClearFlag \/ StartSampler \/ SetFlag
  PROVE  CountInv'
<1>1. Here \in CallStates /\ Here.pc # "out" /\ UNCHANGED <<fns, begun, ended>>
  BY NowIs0 DEF FindFunction, TestFlag, ClearFlag, StartSampler, SetFlag, AtStep
<1>2. \E c : Goes(c) /\ c.pc # "store" /\ c.self = Here.self /\ c.from = Here.from
  <2>1. ASSUME NEW p, p # "store", Goes([Here EXCEPT !.pc = p])
        PROVE  \E c : Goes(c) /\ c.pc # "store" /\ c.self = Here.self /\ c.from = Here.from
    <3> DEFINE c == [Here EXCEPT !.pc = p]
    <3>1. c.pc # "store" /\ c.self = Here.self /\ c.from = Here.from  BY <1>1, <2>1 DEF CallStates
    <3>2. Goes(c)  BY <2>1
    <3> HIDE DEF c
    <3> QED BY <3>1, <3>2
  <2>2. CASE FindFunction
    <3> DEFINE fn == Newest({k \in 1 .. Here.head : fns[k].self = Here.self})
               s == [Here EXCEPT !.pc = "arc", !.fn = fn, !.head = Len(fns[fn].arcs)]
    <3>1. s.pc # "store" /\ s.self = Here.self /\ s.from = Here.from  BY <1>1 DEF CallStates
    <3>2. Goes(IF fn = 0 THEN [Here EXCEPT !.pc = "record"] ELSE s)  BY <2>2 DEF FindFunction
    <3> HIDE DEF fn, s
    <3>3. Goes([Here EXCEPT !.pc = "record"]) \/ Goes(s)  BY <3>2
    <3> QED BY <2>1, <3>1, <3>3
  <2>3. CASE TestFlag
    <3>1. Goes([Here EXCEPT !.pc = "clear"]) \/ Goes([Here EXCEPT !.pc = "add function"])
      <4>1. CASE pcsample_need_init  BY <2>3, <4>1 DEF TestFlag
      <4>2. CASE ~pcsample_need_init  BY <2>3, <4>2 DEF TestFlag
      <4> QED BY <4>1, <4>2
    <3> QED BY <2>1, <3>1
  <2>4. CASE ClearFlag  BY <2>1, <2>4 DEF ClearFlag
  <2>5. CASE StartSampler
    <3>1. Goes([Here EXCEPT !.pc = "started"]) \/ Goes([Here EXCEPT !.pc = "not started"])
      <4>1. CASE ticking  BY <2>5, <4>1 DEF StartSampler
      <4>2. CASE ~ticking  BY <2>5, <4>2 DEF StartSampler
      <4> QED BY <4>1, <4>2
    <3> QED BY <2>1, <3>1
  <2>6. CASE SetFlag  BY <2>1, <2>6 DEF SetFlag
  <2> QED BY <2>2, <2>3, <2>4, <2>5, <2>6
<1>3. PICK c : Goes(c) /\ c.pc # "store" /\ c.self = Here.self /\ c.from = Here.from  BY <1>2
<1> QED BY <1>1, <1>3, SameTotals, CallMovesOn

LEMMA AddFunctionCounts == ASSUME ListsInv, ListsInv', CountInv, AddFunction PROVE CountInv'
<1>1. Here \in CallStates /\ Here.pc # "out" /\ UNCHANGED <<begun, ended>>
  BY NowIs0 DEF AddFunction, AtStep
<1>2. \E c : Goes(c) /\ c.pc # "store" /\ c.self = Here.self /\ c.from = Here.from
  <2> DEFINE r == [Here EXCEPT !.pc = "add arc", !.fn = Len(fns) + 1]
             s == [Here EXCEPT !.pc = "add arc"]
  <2>1. /\ r.pc # "store" /\ r.self = Here.self /\ r.from = Here.from
        /\ s.pc # "store" /\ s.self = Here.self /\ s.from = Here.from
    BY <1>1 DEF CallStates
  <2>2. Goes(r) \/ Goes(s)  BY DEF AddFunction
  <2> HIDE DEF r, s
  <2> QED BY <2>1, <2>2
<1>3. PICK c : Goes(c) /\ c.pc # "store" /\ c.self = Here.self /\ c.from = Here.from  BY <1>2
<1>4. /\ \A a \in Arcs : Total(a)' = Total(a)
      /\ \A f \in 1 .. Len(fns), k \in Nat : k \in 1 .. Len(fns[f].arcs) =>
           fns'[f].arcs[k].count = fns[f].arcs[k].count
  BY AddFunctionTotals
<1> QED BY <1>1, <1>3, <1>4, CallMovesOn

\* A call that finds its arc loads the count that is there.
LEMMA FindArcCounts == ASSUME ListsInv, ListsInv', CountInv, FindArc PROVE CountInv'
<1> DEFINE arc == ArcOf(Here.fn, Here.head, Here.from)
           count == fns[Here.fn].arcs[arc].count
           r == [Here EXCEPT !.pc = "record"]
           s == [Here EXCEPT !.pc = "store", !.arc = arc, !.count = count]
<1>1. /\ Here \in CallStates /\ CallHolds(Here) /\ Here.pc = "arc" /\ UNCHANGED <<fns, begun, ended>>
      /\ Goes(IF arc = 0 THEN r ELSE s)
  BY NowIs0 DEF FindArc, AtStep
<1>2. /\ r.pc = "record" /\ r.self = Here.self /\ r.from = Here.from
      /\ s.pc = "store" /\ s.self = Here.self /\ s.from = Here.from
      /\ s.fn = Here.fn /\ s.arc = arc /\ s.count = count
  BY <1>1 DEF CallStates
<1> HIDE DEF r, s, arc
<1>3. CASE Goes(r)  BY <1>1, <1>2, <1>3, SameTotals, CallMovesOn
<1>4. CASE Goes(s)
  <2>1. PICK w0 \in Who : w0 = Now0  BY NowIs0
  <2>2. doing'[w0] = s /\ \A w \in Who : w # w0 => doing'[w] = doing[w]  BY <1>4, <2>1, HereMoves
  <2>3. Here = doing[w0]  BY <2>1 DEF Here
  <2>4. EndedInv'  BY <1>1, <1>2, <2>2, <2>3, EndedStill
  <2>5. /\ s.fn \in 1 .. Len(fns) /\ s.arc \in Nat /\ s.arc \in 1 .. Len(fns[s.fn].arcs)
        /\ s.count = fns[s.fn].arcs[s.arc].count /\ s.count \in Nat /\ ArcOfCall(s) \in Arcs
    <3>1. PICK d : d = s  OBVIOUS
    <3>2. (d = doing[w0])' /\ (d.pc = "store")'  BY <1>2, <2>2, <3>1
    <3>3. doing'[w0] \in CallStates /\ CallHolds(doing[w0])'
      BY DEF ListsInv, CallsInv, ProfTypes
    <3>4. /\ d.fn \in 1 .. Len(fns) /\ d.arc \in 1 .. Len(fns[d.fn].arcs) /\ d.arc \in Nat
          /\ ArcOfCall(d) \in Arcs /\ d.count \in Nat
      <4>1. doing'[w0] = d /\ d.pc = "store"  BY <3>2
      <4>2. /\ d.fn \in 1 .. Len(fns) /\ d.arc \in 1 .. Len(fns[d.fn].arcs)
            /\ d.self \in Functions /\ d.from \in Callers
        BY <1>1, <3>3, <4>1 DEF CallHolds, ArcsOf
      <4>3. d.arc \in Nat /\ d.count \in Nat  BY <3>3, <4>1 DEF CallStates
      <4> QED BY <4>2, <4>3 DEF ArcOfCall, Arcs
    <3> QED BY <1>2, <3>1, <3>4
  <2>6. \A w \in Who : doing'[w].pc = "store" => doing'[w] = doing[w] \/ doing'[w] = s  BY <2>2
  <2>7. TotalsInv' /\ StoresInv'  BY <1>1, <2>5, <2>6, SameTotals, StoresStill
  <2> QED BY <2>4, <2>7 DEF CountInv
<1> QED BY <1>1, <1>3, <1>4

LEMMA StoreCountCounts == ASSUME ListsInv, ListsInv', CountInv, StoreCount PROVE CountInv'
<1>1. PICK c : c = Here  OBVIOUS
<1>2. PICK b : b = ArcOfCall(c)  OBVIOUS
<1>3. /\ c.pc = "store" /\ b \in Arcs /\ CountAt(c) \in Nat /\ c.count \in Nat
      /\ Total(b)' + CountAt(c) = Total(b) + (c.count + 1)
      /\ \A a \in Arcs : a # b => Total(a)' = Total(a)
      /\ \A f \in 1 .. Len(fns), k \in Nat : k \in 1 .. Len(fns[f].arcs) =>
           fns'[f].arcs[k].count = IF f = c.fn /\ k = c.arc THEN c.count + 1 ELSE fns[f].arcs[k].count
  <2>1. (b = ArcOfCall(c))'  BY <1>2 DEF ArcOfCall
  <2> QED BY <1>1, <1>2, <2>1, StoreTotals
<1>4. Finish /\ UNCHANGED begun  BY DEF StoreCount
<1>5. PICK w0 \in Who : w0 = Now0  BY NowIs0
<1>6. c = doing[w0] /\ b = ArcOfCall(doing[w0])  BY <1>1, <1>2, <1>5 DEF Here
<1>7. \A a \in Arcs : Total(a)' \in Nat /\ Total(a) \in Nat
  <2>1. ASSUME NEW a \in Arcs PROVE Total(a)' \in Nat
    <3>1. (Total(a) \in Nat)'  BY CopiesAre, PTL
    <3> QED BY <3>1
  <2> QED BY <2>1, CopiesAre
<1>8. PICK t, u, q, n \in Nat : t = Total(b) /\ u = Total(b)' /\ q = CountAt(c) /\ n = c.count
  BY <1>3, <1>7
<1>9. u + q = t + (n + 1)  BY <1>3, <1>8
<1>10. CASE w0 = "program"
  <2>1. n <= q /\ ended["program"][b] + q <= t + n
    BY <1>3, <1>6, <1>8, <1>10 DEF CountInv, StoresInv
  <2>2. PICK e \in Nat : e = ended["program"][b]  BY <1>3 DEF CountInv, EndedInv, Who
  <2>3. e + 1 <= u /\ u <= t + 1  BY <1>9, <2>1, <2>2
  <2> QED BY <1>1, <1>2, <1>3, <1>4, <1>5, <1>7, <1>8, <1>10, <2>2, <2>3, CallEnds
<1>11. CASE w0 = "handler"
  <2>1. n = q  BY <1>3, <1>6, <1>8, <1>11 DEF CountInv, StoresInv
  <2>2. u = t + 1  BY <1>9, <2>1
  <2>3. /\ c.fn \in 1 .. Len(fns) /\ c.arc \in 1 .. Len(fns[c.fn].arcs)
        /\ CountAt(c) = fns[c.fn].arcs[c.arc].count
        /\ fns[c.fn].self = b[1] /\ fns[c.fn].arcs[c.arc].from = b[2]
    <3>1. b[1] = c.self /\ b[2] = c.from  BY <1>2 DEF ArcOfCall
    <3>2. c.pc = "store" /\ c = doing[w0]  BY <1>3, <1>6
    <3>3. /\ c.fn \in 1 .. Len(fns) /\ c.arc \in 1 .. Len(fns[c.fn].arcs)
          /\ CountAt(c) = fns[c.fn].arcs[c.arc].count
          /\ fns[c.fn].self = c.self /\ fns[c.fn].arcs[c.arc].from = c.from
      BY <3>2, PendingIs
    <3> QED BY <3>1, <3>3
  <2>4. \A f \in 1 .. Len(fns), k \in Nat : k \in 1 .. Len(fns[f].arcs) =>
          \/ fns'[f].arcs[k].count = fns[f].arcs[k].count
          \/ /\ fns'[f].arcs[k].count = fns[f].arcs[k].count + 1
             /\ fns[f].self = b[1] /\ fns[f].arcs[k].from = b[2]
    <3> SUFFICES ASSUME NEW f \in 1 .. Len(fns), NEW k \in Nat, k \in 1 .. Len(fns[f].arcs)
                 PROVE  \/ fns'[f].arcs[k].count = fns[f].arcs[k].count
                        \/ /\ fns'[f].arcs[k].count = fns[f].arcs[k].count + 1
                           /\ fns[f].self = b[1] /\ fns[f].arcs[k].from = b[2]
      OBVIOUS
    <3>1. fns'[f].arcs[k].count = IF f = c.fn /\ k = c.arc THEN c.count + 1 ELSE fns[f].arcs[k].count
      BY <1>3
    <3>2. CASE f = c.fn /\ k = c.arc
      <4>1. c.count = fns[f].arcs[k].count  BY <1>8, <2>1, <2>3, <3>2
      <4> QED BY <2>3, <3>1, <3>2, <4>1
    <3>3. CASE ~(f = c.fn /\ k = c.arc)  BY <3>1, <3>3
    <3> QED BY <3>2, <3>3
  <2>5. Total(b)' = Total(b) + 1 /\ Total(b)' <= Total(b) + 1  BY <1>8, <2>2
  <2>6. \A a \in Arcs : Total(a)' \in Nat /\ (a # b => Total(a)' = Total(a))  BY <1>3, <1>7
  <2>7. Here.pc # "out" /\ b = ArcOfCall(Here) /\ b \in Arcs /\ Now0 = "handler"
    BY <1>1, <1>2, <1>3, <1>5, <1>11
  <2> QED BY <1>4, <2>4, <2>5, <2>6, <2>7, CallEnds
<1> QED BY <1>10, <1>11 DEF Who

LEMMA AddArcCounts == ASSUME ListsInv, ListsInv', CountInv, AddArc PROVE CountInv'
<1>1. PICK c : c = Here  OBVIOUS
<1>2. PICK b : b = ArcOfCall(c)  OBVIOUS
<1>3. /\ c.pc = "add arc" /\ b \in Arcs /\ Total(b)' = Total(b) + 1
      /\ \A a \in Arcs : a # b => Total(a)' = Total(a)
      /\ \A f \in 1 .. Len(fns), k \in Nat : k \in 1 .. Len(fns[f].arcs) =>
           fns'[f].arcs[k] = fns[f].arcs[k]
  <2>1. (b = ArcOfCall(c))'  BY <1>2 DEF ArcOfCall
  <2> QED BY <1>1, <1>2, <2>1, AddArcTotals
<1>4. Finish /\ UNCHANGED begun  BY DEF AddArc
<1>5. \A a \in Arcs : Total(a)' \in Nat /\ Total(a) \in Nat
  <2>1. ASSUME NEW a \in Arcs PROVE Total(a)' \in Nat
    <3>1. (Total(a) \in Nat)'  BY CopiesAre, PTL
    <3> QED BY <3>1
  <2> QED BY <2>1, CopiesAre
<1>6. ended["program"][b] \in Nat /\ ended["program"][b] <= Total(b)
  BY <1>3 DEF CountInv, EndedInv, TotalsInv, Who
<1>7. PICK e, t \in Nat : e = ended["program"][b] /\ t = Total(b)  BY <1>3, <1>5, <1>6
<1>8. e + 1 <= t + 1  BY <1>6, <1>7
<1>9. ended["program"][b] + 1 <= Total(b)' /\ Total(b)' <= Total(b) + 1
  <2>1. Total(b)' = t + 1 /\ Total(b) = t /\ ended["program"][b] = e  BY <1>3, <1>7
  <2> QED BY <1>8, <2>1
<1> QED BY <1>1, <1>2, <1>3, <1>4, <1>5, <1>9, CallEnds

LEMMA CountKeeps == ListsInv /\ ListsInv' /\ CountInv /\ [ProfileNext]_profileVars => CountInv'
<1> SUFFICES ASSUME ListsInv, ListsInv', CountInv, [ProfileNext]_profileVars PROVE CountInv'
  OBVIOUS
<1>1. ASSUME UNCHANGED <<fns, doing, begun, ended>> PROVE CountInv'
  <2>1. EndedInv'  BY <1>1, EndedStill
  <2>2. TotalsInv' /\ StoresInv'  BY <1>1, SameTotals, StoresStill
  <2> QED BY <2>1, <2>2 DEF CountInv
<1>2. ASSUME UNCHANGED profileVars \/ Interrupted \/ Returned \/ TimerStarts
             \/ \E pc0 \in {0, TextBytes - 1, TextBytes} : Pcsample(pc0)
      PROVE  CountInv'
  BY <1>1, <1>2 DEF profileVars, Interrupted, Returned, TimerStarts, Pcsample
<1>3. ASSUME NEW self \in Functions, NEW from \in Callers, Mcount(self, from) PROVE CountInv'
  BY <1>3, McountCounts
<1>4. ASSUME FindFunction \/ TestFlag \/ ClearFlag \/ StartSampler \/ SetFlag PROVE CountInv'
  BY <1>4, SearchCounts
<1>5. ASSUME FindArc PROVE CountInv'  BY <1>5, FindArcCounts
<1>6. ASSUME StoreCount PROVE CountInv'  BY <1>6, StoreCountCounts
<1>7. ASSUME AddFunction PROVE CountInv'  BY <1>7, AddFunctionCounts
<1>8. ASSUME AddArc PROVE CountInv'  BY <1>8, AddArcCounts
<1> QED BY <1>2, <1>3, <1>4, <1>5, <1>6, <1>7, <1>8 DEF ProfileNext

LEMMA CountsAreHeld == ListsInv /\ CountInv => CountsHold
<1> SUFFICES ASSUME ListsInv, CountInv, NEW a \in Arcs
             PROVE  /\ ended["program"][a] <= Total(a)
                    /\ Total(a) <= begun["program"][a] + begun["handler"][a]
  BY DEF CountsHold
<1>1. \A w \in Who : ended[w][a] \in Nat /\ begun[w][a] \in Nat /\ ended[w][a] <= begun[w][a]
  BY DEF CountInv, EndedInv
<1>2. /\ ended["program"][a] \in Nat /\ begun["program"][a] \in Nat
      /\ ended["handler"][a] \in Nat /\ begun["handler"][a] \in Nat
      /\ ended["program"][a] <= begun["program"][a] /\ ended["handler"][a] <= begun["handler"][a]
  BY <1>1 DEF Who
<1>3. /\ Total(a) \in Nat /\ ended["program"][a] <= Total(a)
      /\ Total(a) <= ended["program"][a] + ended["handler"][a]
  BY CopiesAre DEF CountInv, TotalsInv
<1> QED BY <1>2, <1>3

\* What a reader of the profile relies on.
LEMMA ProfileIs == ProfInv /\ CountInv => ProfileHolds
<1> SUFFICES ASSUME ProfInv, CountInv PROVE ProfileHolds
  OBVIOUS
<1>1. ListsInv /\ SamplerInv /\ SamplesInside  BY DEF ProfInv
<1>2. FewCopies
  <2> SUFFICES ASSUME NEW a \in Arcs
               PROVE  /\ Cardinality({f \in 1 .. Len(fns) : fns[f].self = a[1]}) <= 2
                      /\ \A f \in {c[1] : c \in Copies(a)} : Cardinality({c \in Copies(a) : c[1] = f}) <= 2
    BY DEF FewCopies
  <2>1. a[1] \in Functions /\ a[2] \in Callers  BY DEF Arcs
  <2>2. Len(fns) \in Nat  BY <1>1, ListsAre
  <2>3. Cardinality({f \in 1 .. Len(fns) : fns[f].self = a[1]}) <= 2
    <3>1. FnsOf(a[1]) \in SUBSET (1 .. Len(fns)) /\ IsFiniteSet(1 .. Len(fns))
      <4>1. IsFiniteSet(1 .. Len(fns))  BY <2>2, FS_Interval
      <4>2. FnsOf(a[1]) \in SUBSET (1 .. Len(fns))  BY DEF FnsOf
      <4> QED BY <4>1, <4>2
    <3>2. IsFiniteSet(FnsOf(a[1]))  BY <3>1, FS_Subset
    <3>3. AtMostTwo(FnsOf(a[1]))  BY <1>1, <2>1 DEF ListsInv, FewInv
    <3> QED BY <3>2, <3>3, FewElements DEF FnsOf
  <2>4. ASSUME NEW f \in {c[1] : c \in Copies(a)}
        PROVE  Cardinality({c \in Copies(a) : c[1] = f}) <= 2
    <3> DEFINE S == {c \in Copies(a) : c[1] = f}
               K == ArcsOf(f, a[2])
    <3>1. f \in 1 .. Len(fns)  BY DEF Copies, ArcPlaces
    <3>2. \A c \in ArcPlaces : c = <<c[1], c[2]>> /\ c[2] \in 1 .. Len(fns[c[1]].arcs)
      BY DEF ArcPlaces
    <3>3. \A c \in S : c = <<c[1], c[2]>> /\ c[1] = f /\ c[2] \in K
      BY <3>2 DEF Copies, ArcsOf
    <3>4. AtMostTwo(K)  BY <1>1, <2>1, <3>1 DEF ListsInv, FewInv
    <3>c. S \in SUBSET Copies(a)  OBVIOUS
    <3> HIDE DEF S, K
    <3>5. \A c \in S, d \in S : c[2] = d[2] => c = d
      BY <3>3
    <3>6. AtMostTwo(S)
      <4> SUFFICES ASSUME NEW x \in S, NEW y \in S, NEW z \in S PROVE x = y \/ y = z \/ x = z
        BY DEF AtMostTwo
      <4>1. x[2] \in K /\ y[2] \in K /\ z[2] \in K  BY <3>3
      <4>2. x[2] = y[2] \/ y[2] = z[2] \/ x[2] = z[2]  BY <3>4, <4>1 DEF AtMostTwo
      <4> QED BY <3>5, <4>2
    <3>7. IsFiniteSet(S)
      <4>1. IsFiniteSet(Copies(a))  BY <1>1, CopiesAre
      <4> QED BY <3>c, <4>1, FS_Subset
    <3>8. Cardinality(S) <= 2  BY <3>6, <3>7, FewElements
    <3> QED BY <3>8 DEF S
  <2> QED BY <2>3, <2>4
<1>3. EntriesApart
  <2>1. slab.ptr \in Nat /\ slab.left \in Nat /\ slab.top = slab.ptr + slab.left
    BY <1>1 DEF ListsInv, ProfTypes
  <2>2. \A e \in ProfEntries : PlaceOf(e) + EntryBytes <= slab.top
    <3>1. \A e \in ProfEntries : PlaceOf(e) \in Nat /\ PlaceOf(e) + 12 <= slab.ptr
      BY <1>1 DEF ListsInv, PlacesInv, EntryBytes
    <3>2. slab.ptr <= slab.top  BY <2>1
    <3> QED BY <2>1, <3>1, <3>2 DEF EntryBytes
  <2> QED BY <1>1, <2>2 DEF ListsInv, PlacesInv, EntriesApart, ProfEntries, PlaceOf, ArcPlaces
<1>4. AlwaysAnArc
  <2>1. \A w \in Who : CallHolds(doing[w]) /\ doing[w] \in CallStates
    BY <1>1 DEF ListsInv, CallsInv, ProfTypes
  <2> QED BY <2>1 DEF CallHolds, CallStates, AlwaysAnArc
<1>5. SampledOnce  BY <1>1 DEF SamplerInv, SampledOnce
<1>6. CountsHold  BY <1>1, CountsAreHeld
<1> QED BY <1>1, <1>2, <1>3, <1>4, <1>5, <1>6 DEF ProfileHolds

---------------------------------------------------------------------------
(* All parts together *)

LEMMA PartsStep ==
  ASSUME [PartsNext]_<<part, calculated, peripherals, hal, processor, utilities>>
  PROVE  /\ [Next]_vars /\ [FdNext]_fdVars /\ [DevNext]_devVars
         /\ [IrqNext]_irqVars /\ [ExcNext]_excVars /\ [BitmapNext]_bitmapVars
         /\ [LookAtCard]_mountVars /\ [ProfileNext]_profileVars
BY DEF PartsNext, calculated, peripherals, hal, processor, utilities

\* The part that a behaviour is in, and those at rest, start well.
LEMMA PartsStart ==
  PartsInit => /\ CodecInv /\ AnswerInv /\ FdInv /\ DevInv /\ IrqInv /\ ExcInv
               /\ BitmapInv /\ MountInv /\ ProfInv /\ CountInv
<1>1. PartsInit => (Init \/ CodecIdle) /\ (MountInit \/ MountIdle) /\ (ExcInit \/ ExcIdle)
  BY DEF PartsInit, Starts
<1>2. PartsInit => FdInit /\ DevInit /\ IrqInit /\ BitmapInit /\ ProfileInit
  BY DEF PartsInit
<1> QED BY <1>1, <1>2, InitCodec, InitAnswer, InitFds, InitDevs, InitIrqs, InitExcs,
           BitmapStarts, InitMount, InitProfile, InitCounts

\* Whatever instruction the phone holds, the board reads that instruction, or
\* NONE if its offset lies beyond the image; whatever the board sends, the phone
\* reads its command, the bytes of its offset in the opposite order, and the
\* colour one step of the high byte too low when the low byte has its sign bit
\* set (lib_instr.c:11-36, Instruction.java:74-105).
THEOREM InstructionsCrossAlways == PartsSpec => []InstructionsCross
<1>1. PartsInit => CodecInv /\ AnswerInv  BY PartsStart
<1>2. CodecInv /\ AnswerInv /\ [PartsNext]_<<part, calculated, peripherals, hal, processor, utilities>>
        => (CodecInv /\ AnswerInv)'
  BY PartsStep, CodecKeeps, AnswerKeeps
<1>3. CodecInv /\ AnswerInv => InstructionsCross
  BY CodecHolds, AnswerHolds DEF InstructionsCross
<1> QED BY <1>1, <1>2, <1>3, PTL DEF PartsSpec

\* Descriptors come from the pool and go back to it, keep the rights they were
\* opened with, and lead to the device that was named (alt_open.c, alt_close.c,
\* alt_fd_lock.c, alt_fcntl.c, alt_find_file.c, alt_isatty.c).
THEOREM DescriptorsHoldAlways == PartsSpec => []DescriptorsHold
<1>1. PartsInit => FdInv /\ DevInv  BY PartsStart
<1>2. FdInv /\ DevInv /\ [PartsNext]_<<part, calculated, peripherals, hal, processor, utilities>>
        => (FdInv /\ DevInv)'
  BY PartsStep, FdKeeps, DevKeeps
<1>3. FdInv /\ DevInv => DescriptorsHold
  BY DevHolds DEF FdInv, Pool, DescriptorsHold
<1> QED BY <1>1, <1>2, <1>3, PTL DEF PartsSpec

\* Interrupts and exceptions leave the program as they met it: lines as
\* enabled, sections unbroken, handlers with their contexts, memory apart,
\* instructions executed once (alt_irq_handler.c, alt_irq_register.c,
\* alt_sbrk.c, alt_exception_entry.S).
THEOREM HandlersHoldAlways == PartsSpec => []HandlersHold
<1>1. PartsInit => IrqInv /\ ExcInv  BY PartsStart
<1>2. IrqInv /\ ExcInv /\ [PartsNext]_<<part, calculated, peripherals, hal, processor, utilities>>
        => (IrqInv /\ ExcInv)'
  BY PartsStep, IrqKeeps, ExcKeeps
<1>3. IrqInv /\ ExcInv => HandlersHold
  BY IrqHolds, ExcHolds DEF HandlersHold
<1> QED BY <1>1, <1>2, <1>3, PTL DEF PartsSpec

\* A reader of the bitmap finds its header and every byte of its image, and for
\* each what scr16ToBitmap24 took for it (lib_bitmap.c:12-75, 89-177).
THEOREM BitmapHoldsAlways == PartsSpec => []BitmapHolds
<1>1. PartsInit => BitmapInv  BY PartsStart
<1>2. BitmapInv /\ [PartsNext]_<<part, calculated, peripherals, hal, processor, utilities>>
        => BitmapInv'
  BY PartsStep, BitmapSteps
<1>3. BitmapInv => BitmapHolds  BY BitmapShows
<1> QED BY <1>1, <1>2, <1>3, PTL DEF PartsSpec

\* A volume that is taken is the first the table of partitions has of a kind
\* the driver knows, and none of its clusters has a number that ends a file
\* (altera_up_sd_card_avalon_interface.c:296-343, 456-477).
THEOREM VolumeNumberedAlways == PartsSpec => [](ClustersNumbered /\ FirstVolume)
<1>1. PartsInit => MountInv  BY PartsStart
<1>2. MountInv /\ [PartsNext]_<<part, calculated, peripherals, hal, processor, utilities>>
        => MountInv'
  BY PartsStep, MountKeeps
<1>3. MountInv => ClustersNumbered /\ FirstVolume  BY MountHolds
<1> QED BY <1>1, <1>2, <1>3, PTL DEF PartsSpec

\* The profile of a program that is interrupted anywhere can be read: a
\* function is listed at most twice and an arc at most twice in each, entries
\* share no memory, the sums of the counts lie between the calls the program
\* has ended and those begun, and samples are started once and counted inside
\* the table (alt_mcount.S, alt_gmon.c).
THEOREM ProfileHoldsAlways == PartsSpec => []ProfileHolds
<1>1. PartsInit => ProfInv /\ CountInv  BY PartsStart
<1>2. ProfInv /\ CountInv /\ [PartsNext]_<<part, calculated, peripherals, hal, processor, utilities>>
        => (ProfInv /\ CountInv)'
  <2>1. ASSUME ProfInv, CountInv, [ProfileNext]_profileVars PROVE (ProfInv /\ CountInv)'
    <3>1. ProfInv'  BY <2>1, ProfileKeeps
    <3>2. ListsInv /\ ListsInv'  BY <2>1, <3>1 DEF ProfInv
    <3> QED BY <2>1, <3>1, <3>2, CountKeeps
  <2> QED BY <2>1, PartsStep
<1>3. ProfInv /\ CountInv => ProfileHolds  BY ProfileIs
<1> QED BY <1>1, <1>2, <1>3, PTL DEF PartsSpec
============================================================================
