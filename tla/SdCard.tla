------------------------------- MODULE SdCard -------------------------------
(***************************************************************************)
(* The SD card driver: sectors, tables, and open files that are read and   *)
(* written.  The directories are in module SdDir.                          *)
(*                                                                         *)
(* The core has a buffer of one sector.  A sector changed in it reaches    *)
(* the card when another sector is read.  A call of the driver is one      *)
(* operator on the driver's state, sd, made of sector accesses; whoever    *)
(* pulls the card does so before the sd.fuse-th check of its presence.     *)
(* The state carries the result of the last function in ok and val.        *)
(*                                                                         *)
(* Bounds: each table fits a sector.  An access to a sector of a present   *)
(* card succeeds; one past its end times out.                              *)
(***************************************************************************)
EXTENDS Integers, Sequences, FiniteSetsExt

CONSTANTS
  MAX_FILES_OPENED,
  SectorSize,      \* bytes in a sector, 512 in the source
  CardSectors,     \* data sectors of the card
  TableEntries,    \* clusters the table has entries for: 2 .. TableEntries + 1
  RootSectors,     \* sectors of the root directory
  RecordsPerSector,  \* 16 in the source
  MaxChecks        \* bound on the checks of presence in one call

\* The numbers of the clusters stay below the marks for the end of a file.
ASSUME CardAssumption ==
  /\ {MAX_FILES_OPENED, CardSectors, MaxChecks} \subseteq Nat
  /\ {SectorSize, RootSectors, RecordsPerSector} \subseteq Nat \ {0}
  /\ TableEntries \in 1 .. 65526

Slots == 0 .. MAX_FILES_OPENED - 1
Clusters == 2 .. TableEntries + 1
EOC == 65535                 \* 0xffff, the last cluster of a file
NoFile == [name |-> "", attributes |-> 0, start |-> 0, size |-> 0]

MBR == 0
BOOT == 1
FAT1 == 2
FAT2 == 3
ROOT == 4
DATA == ROOT + RootSectors
AllSectors == 0 .. DATA + CardSectors - 1

VARIABLE sd

\* A record is found at rec: its cluster (0: the root directory), the sector in
\* it and its number in the sector.
Closed == [in_use |-> FALSE, modified |-> FALSE, rec |-> <<0, 0, 0>>,
           file |-> NoFile, cluster |-> 0, sector |-> 0, pos |-> 0]

NoSearch == [valid |-> FALSE, cluster |-> 0, sector |-> 0, index |-> 0]

\* sdcard_init: nothing known of the card yet; open_dev.
Driver(disk, spc) ==
  [card |-> TRUE, disk |-> disk, spc |-> spc, fat16 |-> FALSE,
   cur |-> MBR, dirty |-> FALSE, buf |-> << >>,
   files |-> [h \in Slots |-> Closed], search |-> NoSearch,
   fuse |-> -1, hung |-> FALSE, ok |-> TRUE, val |-> 0]

Ok(s) == [s EXCEPT !.ok = TRUE]
Fail(s) == [s EXCEPT !.ok = FALSE]
Answer(s, v) == [s EXCEPT !.ok = TRUE, !.val = v]
After(s, Op(_)) == Op(s)
Then(s, Op(_)) == IF s.ok THEN Op(s) ELSE s

---------------------------------------------------------------------------
(* Sectors *)

\* A card that is gone takes the open files with it, not the buffer.
Gone(s) ==
  [Fail(s) EXCEPT
     !.fat16 = FALSE,
     !.search.valid = @ /\ ~s.fat16,
     !.files = IF s.fat16
               THEN [h \in Slots |-> [@[h] EXCEPT !.in_use = FALSE, !.modified = FALSE]]
               ELSE @]

IsPresent(s) ==
  After([s EXCEPT !.card = @ /\ s.fuse # 0, !.fuse = IF @ > 0 THEN @ - 1 ELSE @],
    LAMBDA t : IF t.card THEN Ok(t) ELSE Gone(t))

Exists(n) == n \in AllSectors

WriteSector(s) ==
  Then(IsPresent(s), LAMBDA t :
    IF Exists(t.cur) THEN [t EXCEPT !.disk[t.cur] = t.buf, !.dirty = FALSE]
    ELSE Fail(t))

\* Seeded bug: a changed sector is dropped.
FlushNever(s) == Ok(s)

Flush(s) == IF s.dirty THEN WriteSector(s) ELSE Ok(s)

ReadSector(s, n) ==
  Then(IsPresent(s), LAMBDA t :
  Then(Flush(t), LAMBDA u :
    IF Exists(n) THEN [u EXCEPT !.cur = n, !.buf = u.disk[n], !.dirty = FALSE]
    ELSE Fail(u)))

\* The functions that skip the read if the sector is in the buffer.
NeedSector(s, n) == IF s.cur = n THEN Ok(s) ELSE ReadSector(s, n)

\* Seeded bug: the numbering of clusters is taken to start from 1.
SectorOfFromOne(s, cluster, k) == DATA + (cluster - 1) * s.spc + k

SectorOf(s, cluster, k) == DATA + (cluster - 2) * s.spc + k

---------------------------------------------------------------------------
(* Tables and records *)

\* A sector of one kind, taken for the other.
Records == 1 .. RecordsPerSector
Junk == [NoFile EXCEPT !.name = "junk"]
RecordsIn(buf) == IF DOMAIN buf = Records THEN buf ELSE [r \in Records |-> Junk]
Places == 0 .. SectorSize - 1
BytesIn(buf) == IF DOMAIN buf = Places THEN buf ELSE [k \in Places |-> 0]

\* The entries before the first cluster's are reserved.
GetClusterFlag(s, c) ==
  Then(NeedSector(s, FAT1), LAMBDA t :
    Answer(t, IF c \in Clusters THEN t.buf[c] ELSE EOC))

MarkCluster(s, c, flag, table) ==
  Then(NeedSector(s, table), LAMBDA t :
    [t EXCEPT !.buf[c] = flag, !.dirty = TRUE])

\* Seeded bug: the search goes by the number of used entries.
FreeByCount(table) ==
  {2 + Cardinality({c \in Clusters : table[c] # 0})} \cap Clusters

Free(table) == {c \in Clusters : table[c] = 0}

\* The bound on the cluster is compared with the flag, which is 0: a full card
\* yields clusters past its end.
FindFirstEmptyCluster(s) ==
  Then(ReadSector(s, FAT1), LAMBDA t :
    IF Free(t.buf) = {} THEN Fail(t) ELSE Answer(t, Min(Free(t.buf))))

RecordSector(s, rec) ==
  IF rec[1] = 0 THEN ROOT + rec[2] ELSE SectorOf(s, rec[1], rec[2])

WriteFileRecord(s, h) ==
  Then(IsPresent(s), LAMBDA t :
    IF t.fat16
    THEN [t EXCEPT !.buf = [RecordsIn(@) EXCEPT ![t.files[h].rec[3]] = t.files[h].file],
                   !.dirty = TRUE]
    ELSE Fail(t))

\* Seeded bug: the second table is forgotten.
MarkBothFirst(s, c, flag) == MarkCluster(s, c, flag, FAT1)

MarkBoth(s, c, flag) == MarkCluster(MarkCluster(s, c, flag, FAT1), c, flag, FAT2)

---------------------------------------------------------------------------
(* Files *)

GoTo(s, h, cluster, sector) ==
  [Ok(s) EXCEPT !.files[h].cluster = cluster, !.files[h].sector = sector]

\* Writing on in the chain of the file.
NextCluster(s, h) ==
  Then(GetClusterFlag(s, s.files[h].cluster), LAMBDA t :
    IF t.val < 65528 THEN GoTo(t, h, t.val, 0) ELSE t)

\* Writing past it.  The results of the four marks are ignored.
AddCluster(s, h) ==
  Then(FindFirstEmptyCluster(s), LAMBDA t :
    LET last == s.files[h].cluster
        new == t.val
        linked == MarkCluster(MarkCluster(t, last, new, FAT1), new, EOC, FAT1)
    IN GoTo(MarkCluster(MarkCluster(linked, last, new, FAT2), new, EOC, FAT2),
            h, new, 0))

\* Where the next byte goes.  Past the end of the file the sector is counted
\* from the start of the file, not of the cluster.
Seek(s, h) ==
  LET f == s.files[h]
      boundary == f.pos > 0 /\ f.pos % SectorSize = 0
      last == f.sector = s.spc - 1
      inside == f.pos < f.file.size
  IN CASE ~boundary                     -> Ok(s)
       [] boundary /\ inside /\ last    -> NextCluster(s, h)
       [] boundary /\ inside /\ ~last   -> GoTo(s, h, f.cluster, f.sector + 1)
       [] boundary /\ ~inside /\ last   -> AddCluster(s, h)
       [] boundary /\ ~inside /\ ~last  -> GoTo(s, h, f.cluster, f.pos \div SectorSize)

\* The size also grows when the last byte of an existing file is overwritten.
Advanced(f) ==
  IF f.pos + 1 >= f.file.size
  THEN [f EXCEPT !.pos = @ + 1, !.file.size = @ + 1, !.modified = TRUE]
  ELSE [f EXCEPT !.pos = @ + 1]

Write(s, h, byte) ==
  IF ~s.files[h].in_use THEN Fail(s)
  ELSE Then(Seek(s, h), LAMBDA t :
       Then(NeedSector(t, SectorOf(t, t.files[h].cluster, t.files[h].sector)),
         LAMBDA u : [u EXCEPT !.buf = [BytesIn(@) EXCEPT ![s.files[h].pos % SectorSize] = byte],
                              !.dirty = TRUE, !.files[h] = Advanced(@)]))

AtEnd(flag) == flag >= 65528

\* Seeded bug: the sector is not reset in the next cluster.
SeekReadSame(s, h) ==
  LET f == s.files[h]
      boundary == f.pos > 0 /\ f.pos % SectorSize = 0
  IN CASE boundary /\ f.sector = s.spc - 1 ->
            Then(GetClusterFlag(s, f.cluster), LAMBDA t : GoTo(t, h, t.val, f.sector))
       [] boundary /\ f.sector # s.spc - 1 -> GoTo(s, h, f.cluster, f.sector + 1)
       [] OTHER -> Ok(s)

\* Where the next byte is read.
SeekRead(s, h) ==
  LET f == s.files[h]
      boundary == f.pos > 0 /\ f.pos % SectorSize = 0
  IN CASE boundary /\ f.sector = s.spc - 1 ->
            Then(GetClusterFlag(s, f.cluster), LAMBDA t :
              IF AtEnd(t.val) THEN Fail(Answer(t, -1)) ELSE GoTo(t, h, t.val, 0))
       [] boundary /\ f.sector # s.spc - 1 -> GoTo(s, h, f.cluster, f.sector + 1)
       [] OTHER -> Ok(s)

Signed(byte) == IF byte < 128 THEN byte ELSE byte - 256

\* A byte, -1 at the end, -2 if it cannot be read.  The byte goes through a
\* signed char.
Read(s, h) ==
  IF ~s.files[h].in_use \/ s.files[h].pos >= s.files[h].file.size THEN Answer(s, -1)
  ELSE After(SeekRead([s EXCEPT !.val = -2], h), LAMBDA t :
       IF ~t.ok THEN Ok(t)
       ELSE After(NeedSector(t, SectorOf(t, t.files[h].cluster, t.files[h].sector)), LAMBDA u :
            IF ~u.ok THEN Answer(u, -2)
            ELSE Answer([u EXCEPT !.files[h].pos = @ + 1],
                        Signed(BytesIn(u.buf)[s.files[h].pos % SectorSize]))))

SaveRecord(s, h) ==
  Then(ReadSector(s, RecordSector(s, s.files[h].rec)), LAMBDA t :
  Then(WriteFileRecord(t, h), LAMBDA u : Flush(u)))

\* The result of saving is overwritten; an unmodified file is not saved.
Fclose(s, h) ==
  After(IsPresent(s), LAMBDA t :
    IF ~(t.ok /\ t.fat16 /\ t.files[h].in_use) THEN Fail(t)
    ELSE After(IF t.files[h].modified THEN SaveRecord(t, h) ELSE t, LAMBDA u :
           [Ok(u) EXCEPT !.files[h].in_use = FALSE]))

\* Looks for the partition and its boot sector, unless that was done already.
\* The read that finds it saves the buffer of the card that was there before.
IsFAT16(s) ==
  After(IsPresent(s), LAMBDA t :
    CASE ~t.ok           -> [t EXCEPT !.fat16 = FALSE]
      [] t.ok /\ t.fat16 -> t
      [] OTHER ->
           After(Then(IsPresent(t), LAMBDA u :
                 Then(ReadSector(u, MBR), LAMBDA v : ReadSector(v, BOOT))), LAMBDA boot :
             [boot EXCEPT !.fat16 = boot.ok, !.search.valid = FALSE,
                !.files = IF boot.ok
                          THEN [h \in Slots |-> [@[h] EXCEPT !.in_use = FALSE]]
                          ELSE @]))

---------------------------------------------------------------------------
(* The person at the card slot *)

\* A call during which the card is pulled at the k-th check, or (-1) is not.
Moments == IF sd.card THEN {-1} \cup 1 .. MaxChecks ELSE {-1}
At(k) == [sd EXCEPT !.fuse = k]
Returned(s) == [s EXCEPT !.fuse = -1, !.ok = TRUE, !.val = 0]

Remove == sd.card /\ sd' = [sd EXCEPT !.card = FALSE]
Insert == ~sd.card /\ sd' = [sd EXCEPT !.card = TRUE]

---------------------------------------------------------------------------
(* What is on the card *)

\* The card once the buffer has been saved.
Saved(s) == IF s.dirty /\ Exists(s.cur) THEN [s.disk EXCEPT ![s.cur] = s.buf]
            ELSE s.disk

\* The cluster k links after the first, 0 once the chain has ended.
Link(table, start, k) ==
  LET link[j \in Nat] ==
        IF j = 0 THEN start
        ELSE LET c == link[j - 1]
             IN IF c \in Clusters /\ table[c] \in Clusters THEN table[c] ELSE 0
  IN link[k]

Chain(disk, file) ==
  {Link(disk[FAT1], file.start, k) : k \in 0 .. TableEntries} \ {0}

\* Byte p of a file, -1 where its chain or the card ends.
ByteOf(disk, spc, file, p) ==
  LET c == Link(disk[FAT1], file.start, p \div (SectorSize * spc))
      n == DATA + (c - 2) * spc + ((p \div SectorSize) % spc)
  IN IF c # 0 /\ Exists(n) THEN BytesIn(disk[n])[p % SectorSize] ELSE -1

Content(disk, spc, file) ==
  [p \in 0 .. file.size - 1 |-> ByteOf(disk, spc, file, p)]

\* The first record of that name in the root directory.
FileNamed(disk, name) ==
  LET at == {x \in (0 .. RootSectors - 1) \X Records : disk[ROOT + x[1]][x[2]].name = name}
      first == CHOOSE x \in at : \A y \in at : x[1] < y[1] \/ (x[1] = y[1] /\ x[2] <= y[2])
  IN IF at = {} THEN NoFile ELSE disk[ROOT + first[1]][first[2]]
===========================================================================
