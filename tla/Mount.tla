------------------------------- MODULE Mount -------------------------------
(***************************************************************************)
(* How the SD card driver decides that a card is a FAT16 volume, and where *)
(* it looks for its parts: the card's format bits, the partition table,    *)
(* and the boot sector.                                                    *)
(*                                                                         *)
(* Bounds: the sectors can be read, and have no zero where the driver      *)
(* divides by it.                                                          *)
(***************************************************************************)
EXTENDS Integers, FiniteSetsExt

CONSTANT Media     \* the cards there may be

\* The boot sector's fields that the driver uses: of one byte, of two, of four.
ByteField == 1 .. 255
ShortField == 0 .. 65535
BootSectors ==
  [signed : BOOLEAN, spc : ByteField, reserved : ShortField, table : ShortField,
   entries : ShortField, sectors16 : ShortField, sectors32 : Nat]

ASSUME MountAssumption == \A card \in Media : card.boot \in BootSectors

FatTypes == {1, 4, 6, 14}
BytesPerSector == 512
NoVolume == [accepted |-> FALSE]

\* Check_for_Master_Boot_Record: the partition, or 0.
Partition(card) ==
  LET fit == {k \in 1 .. 4 : card.parts[k].type \in FatTypes /\ card.parts[k].size > 0}
  IN IF card.mbr /\ fit # {} THEN Min(fit) ELSE 0

\* The sectors of the volume, for the size of a table entry: the short field
\* unless it is 0.
VolumeSectors(boot) == IF boot.sectors16 > 0 THEN boot.sectors16 ELSE boot.sectors32

BitsForCluster(clusters) ==
  IF clusters < 4087 THEN 12 ELSE IF clusters <= 65517 THEN 16 ELSE 32

\* Check_for_DOS_FAT, from the volume's first sector.
Layout(boot, start) ==
  LET fat2 == boot.reserved + boot.table
      root == fat2 + boot.table
  IN [accepted |-> boot.signed,
      start |-> start, spc |-> boot.spc,
      fat1 |-> boot.reserved, fat2 |-> fat2, root |-> root,
      data |-> root + (32 * boot.entries) \div BytesPerSector,
      sectors16 |-> boot.sectors16, sectors32 |-> boot.sectors32,
      bits |-> BitsForCluster(VolumeSectors(boot) \div boot.spc)]

\* Look_for_FAT16.
LookForFAT16(card) ==
  LET volume ==
        CASE card.format = "floppy" -> Layout(card.boot, 0)
          [] card.format = "disk" /\ Partition(card) # 0 ->
               Layout(card.boot, card.parts[Partition(card)].offset)
          [] OTHER -> NoVolume
  IN IF volume.accepted /\ volume.bits = 16 THEN volume ELSE NoVolume

---------------------------------------------------------------------------
NoCard == [format |-> "none"]

VARIABLES medium,     \* the card in the slot
          mounted     \* what the driver makes of it
mountVars == <<medium, mounted>>

MountIdle == medium = NoCard /\ mounted = NoVolume
MountInit == medium \in Media /\ mounted = NoVolume

LookAtCard ==
  /\ medium # NoCard /\ mounted = NoVolume
  /\ mounted' = LookForFAT16(medium)
  /\ UNCHANGED medium

---------------------------------------------------------------------------
(* Properties *)

\* Where the driver looks for a cluster is inside the volume.
InVolume(v, cluster) ==
  v.data + ((cluster - 2) * v.spc) + (v.spc - 1) < VolumeSectors(v)

\* Entries from 0xfff8 end a file, so they cannot name a cluster.
EndMarks == 65528 .. 65535

\* No cluster inside a volume the driver accepts has a number that it reads as
\* the end of a file, although it counts the clusters without regard to where
\* they begin (altera_up_sd_card_avalon_interface.c:462-477, 955).  Nothing is
\* said of the clusters past the end of a full volume: find_first_empty_cluster
\* compares the wrong variable with its limit (line 1018) and hands them out as
\* long as the table has entries.
ClustersNumbered ==
  mounted.accepted => \A cluster \in EndMarks : ~InVolume(mounted, cluster)

\* The volume begins with the first partition of a kind the driver knows, or at
\* the first sector of a card without partitions; both tables, the root
\* directory and the data follow each other in it
\* (altera_up_sd_card_avalon_interface.c:312-340, 524-538).
FirstVolume ==
  mounted.accepted =>
    /\ medium.format = "floppy" => mounted.start = 0
    /\ medium.format = "disk" =>
         \E k \in 1 .. 4 :
           /\ medium.parts[k].type \in FatTypes /\ medium.parts[k].size > 0
           /\ mounted.start = medium.parts[k].offset
           /\ \A j \in 1 .. k - 1 : ~(medium.parts[j].type \in FatTypes /\ medium.parts[j].size > 0)
===========================================================================
