------------------------------ MODULE SaveBmp ------------------------------
(***************************************************************************)
(* SAVE: saveBmp and bitmapToSDcard on top of the driver of SdDir.         *)
(*                                                                         *)
(* The bitmap is written byte by byte, closed, opened again, and its       *)
(* header is written a second time; that handle is never closed.  The      *)
(* person may pull the card and put it back at any moment.                 *)
(*                                                                         *)
(* A byte of the header is its position (the header is always the same),   *)
(* a byte of the image its position and the number of the SAVE.  Besides   *)
(* scrcap.bmp the card holds a file of somebody else.                      *)
(***************************************************************************)
EXTENDS SdDir

CONSTANTS
  Cards,           \* the cards there may be: [spc, other, old]
  Header,          \* bytes of the header
  Lengths,         \* bytes of the whole bitmap
  Attempts,        \* bound on the opens of one bitmap, 50 in the source
  MaxSaves,        \* bound on the SAVEs of a behaviour
  MaxPulls         \* bound on the times the card is put back

Mine == "scrcap.bmp"
Other == "other"
Range0(n) == 0 .. n - 1

\* A card has whole clusters, and two files whose chains do not meet; the
\* other's clusters are on the card.
IsCard(card) ==
  /\ card.spc \in Nat \ {0} /\ CardSectors % card.spc = 0
  /\ card.other \in Seq(Clusters) \ {<< >>} /\ card.old \in Seq(Clusters)
  /\ \A s \in {card.other, card.old} : \A j, k \in DOMAIN s : s[j] = s[k] => j = k
  /\ \A j \in DOMAIN card.other : /\ \A k \in DOMAIN card.old : card.other[j] # card.old[k]
                                 /\ (card.other[j] - 1) * card.spc <= CardSectors

ASSUME SaveAssumption ==
  /\ {Header, Attempts} \subseteq Nat \ {0} /\ {MaxSaves, MaxPulls} \subseteq Nat
  /\ \A n \in Lengths : n \in Nat /\ Header <= n
  /\ \A card \in Cards : IsCard(card)

VARIABLES
  pc,              \* where bitmapToSDcard is
  handle, create, timeout, i,
  len,             \* bytes of the bitmap
  saves,           \* SAVEs begun
  pulls,           \* times the card was put back
  written,         \* history: the last SAVE whose bitmap was closed, 0 none
  torn             \* history: the card was pulled while a SAVE was running

vars == <<sd, pc, handle, create, timeout, i, len, saves, pulls, written, torn>>

Byte(n, p) == IF p < Header THEN p ELSE 100 * n + p

\* A table with the files' chains, sequences of clusters, in it.
Table(chains) ==
  [c \in Clusters |->
     IF \E s \in chains : \E k \in DOMAIN s : s[k] = c
     THEN LET s == CHOOSE s \in chains : \E k \in DOMAIN s : s[k] = c
              k == CHOOSE k \in DOMAIN s : s[k] = c
          IN IF k = Len(s) THEN EOC ELSE s[k + 1]
     ELSE 0]

OtherFile(card) ==
  [NoFile EXCEPT !.name = Other, !.start = card.other[1],
                 !.size = Len(card.other) * card.spc * SectorSize]
OldFile(card) ==
  IF card.old = << >> THEN NoFile
  ELSE [NoFile EXCEPT !.name = Mine, !.start = card.old[1], !.size = len]

\* Every data byte of a new card is its sector number, made negative.
Formatted(card) ==
  LET table == Table({card.other, card.old} \ {<< >>})
  IN [n \in AllSectors |->
        CASE n \in {MBR, BOOT} -> << >>
          [] n \in {FAT1, FAT2} -> table
          [] n \in ROOT .. DATA - 1 -> [r \in Records |->
                            CASE n = ROOT /\ r = 1 -> OtherFile(card)
                              [] n = ROOT /\ r = 2 -> OldFile(card)
                              [] OTHER -> NoFile]
          [] OTHER -> [k \in Range0(SectorSize) |-> -n]]

Init ==
  /\ len \in Lengths
  /\ \E card \in Cards : sd = Driver(Formatted(card), card.spc)
  /\ pc = "idle" /\ handle = -1 /\ create = FALSE /\ timeout = 0 /\ i = 0
  /\ saves = 0 /\ pulls = 0 /\ written = 0 /\ torn = FALSE

---------------------------------------------------------------------------
(* bitmapToSDcard *)

\* The card is present and formatted, or the SAVE ends here.
Begin ==
  /\ pc = "idle" /\ saves < MaxSaves
  /\ \E k \in Moments : \E t \in {IsFAT16(IsPresent(At(k)))} :
       /\ sd' = Returned(t)
       /\ pc' = IF t.ok /\ t.fat16 THEN "open" ELSE "idle"
       /\ saves' = IF t.ok /\ t.fat16 THEN saves + 1 ELSE saves
  /\ create' = TRUE /\ timeout' = 0 /\ handle' = -1 /\ i' = 0
  /\ UNCHANGED <<len, pulls, written, torn>>

Opening == {"open", "reopen"}
AfterOpen == [open |-> "write", reopen |-> "header"]

\* Only the first try may create the file.
Open ==
  /\ pc \in Opening
  /\ \E k \in Moments : \E t \in {Fopen(At(k), << >>, Mine, create)} :
       /\ sd' = Returned(t)
       /\ handle' = t.val
       /\ pc' = CASE t.val >= 0 -> AfterOpen[pc]
                  [] t.val < 0 /\ timeout + 1 < Attempts -> pc
                  [] OTHER -> "idle"
       /\ torn' = (torn \/ ~t.card)
  /\ create' = FALSE /\ timeout' = timeout + 1 /\ i' = 0
  /\ UNCHANGED <<len, saves, pulls, written>>

\* The result of a write is ignored.
Put(end, after) ==
  /\ \E k \in Moments : \E t \in {Write(At(k), handle, Byte(saves, i))} :
       sd' = Returned(t) /\ torn' = (torn \/ ~t.card)
  /\ i' = i + 1
  /\ pc' = IF i + 1 = end THEN after ELSE pc
  /\ UNCHANGED <<handle, create, timeout, len, saves, pulls, written>>

WriteBitmap == pc = "write" /\ Put(len, "close")
WriteHeader == pc = "header" /\ Put(Header, "idle")

Close ==
  /\ pc = "close"
  /\ \E k \in Moments : \E t \in {Fclose(At(k), handle)} :
       /\ sd' = Returned(t)
       /\ written' = IF t.ok THEN saves ELSE written
       /\ torn' = (torn \/ ~t.card)
  /\ pc' = "reopen" /\ timeout' = 0
  /\ UNCHANGED <<handle, create, i, len, saves, pulls>>

Pull ==
  /\ Remove
  /\ torn' = (torn \/ pc # "idle")
  /\ UNCHANGED <<pc, handle, create, timeout, i, len, saves, pulls, written>>

PutBack ==
  /\ pulls < MaxPulls /\ Insert
  /\ pulls' = pulls + 1
  /\ UNCHANGED <<pc, handle, create, timeout, i, len, saves, written, torn>>

Next == Begin \/ Open \/ WriteBitmap \/ Close \/ WriteHeader \/ Pull \/ PutBack

Spec == Init /\ [][Next]_vars

---------------------------------------------------------------------------
(* Properties *)

TypeOK ==
  /\ sd.cur \in AllSectors /\ DOMAIN sd.disk = AllSectors
  /\ {sd.card, sd.dirty, sd.fat16} \subseteq BOOLEAN
  /\ sd.spc \in {card.spc : card \in Cards}
  /\ \A h \in Slots :
       LET f == sd.files[h]
       IN /\ f.in_use \in BOOLEAN /\ f.modified \in BOOLEAN
          /\ f.rec \in {0} \X (0 .. RootSectors - 1) \X (0 .. RecordsPerSector) /\ f.file.name \in {"", Mine}
          /\ f.in_use => f.cluster \in Clusters /\ f.pos <= f.file.size
  /\ pc \in Opening \cup {"idle", "write", "close", "header"}
  /\ handle \in {-2, -1} \cup Slots /\ timeout \in 0 .. Attempts
  /\ i \in 0 .. len /\ saves \in 0 .. MaxSaves /\ written \in 0 .. saves

\* A bitmap stays in its clusters: they have one sector, or the second cluster
\* is not used past its first, or the file was there before.
Fits == \/ sd.spc = 1 \/ len <= (sd.spc + 1) * SectorSize

MyFile(disk) == FileNamed(disk, Mine)
OtherOn(disk) == FileNamed(disk, Other)

\* Somebody else's file keeps its bytes, whenever the card is pulled
\* (altera_up_sd_card_avalon_interface.c:974-1024, 1743-1848).
OthersKept ==
  Fits => LET f == OtherOn(Saved(sd))
          IN \A p \in Range0(f.size) :
               LET n == DATA + (Link(Saved(sd)[FAT1], f.start, p \div (SectorSize * sd.spc)) - 2) * sd.spc
                          + ((p \div SectorSize) % sd.spc)
               IN ByteOf(Saved(sd), sd.spc, f, p) = -n

\* No cluster belongs to both files, whenever the card is pulled and
\* whatever its geometry (altera_up_sd_card_avalon_interface.c:974-1024).
NoSharedCluster ==
  Chain(Saved(sd), MyFile(Saved(sd))) \cap Chain(Saved(sd), OtherOn(Saved(sd))) = {}

\* The two tables agree after every call, as long as the card stays in
\* (altera_up_sd_card_avalon_interface.c:1229-1232, 1800-1803).
TablesAgree == ~torn => Saved(sd)[FAT1] = Saved(sd)[FAT2]

\* The tables after every call, the card pulled in the middle of one or not.
TablesSound == TypeOK /\ NoSharedCluster /\ TablesAgree

\* The clusters of the card that the other file leaves are enough.
Room ==
  LET mine == CardSectors \div sd.spc
                - Cardinality(Chain(sd.disk, OtherOn(sd.disk)))
  IN mine * sd.spc * SectorSize >= len

\* From the second open on the whole bitmap is on the card; fclose alone leaves
\* the last sector of a bitmap that did not grow in the buffer (lib_bitmap.c:177-196,
\* altera_up_sd_card_avalon_interface.c:1858-1882).
ImageIsOn(disk, n) ==
  LET f == MyFile(disk)
  IN /\ f.size \in {len, len + 1}
     /\ \A p \in Range0(len) : ByteOf(disk, sd.spc, f, p) = Byte(n, p)
ImageOnCard ==
  Fits /\ Room /\ ~torn /\ written > 0 /\ pc \notin {"write", "close", "reopen"} =>
    ImageIsOn(sd.disk, written)

\* Every SAVE that finds a card and keeps it leaves its bitmap there (main.c:269,
\* "Save image as BITMAP24 to SD card").
SaveSaves == pc = "idle" /\ saves > 0 /\ ~torn => written = saves
===========================================================================
