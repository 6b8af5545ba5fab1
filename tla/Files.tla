------------------------------- MODULE Files -------------------------------
(***************************************************************************)
(* A program that uses files of the SD card through sdcard.c: any order of *)
(* opening, creating, writing, reading, measuring, closing and listing, on *)
(* several files at once, in the root directory and in a subdirectory,     *)
(* with the card pulled in the middle of a call.                           *)
(*                                                                         *)
(* What a program wrote is kept in content, the promise of the file        *)
(* system: the bytes of each file, whatever else was done in between.      *)
(***************************************************************************)
EXTENDS SdDir

CONSTANTS
  Volumes,         \* the cards there may be: [spc, disk, dir, calls], dir the clusters
                   \* of D, calls the bound on the calls of a behaviour
  MaxCallsPulled,  \* the same, if the card is pulled
  MaxPulls         \* bound on the times the card is pulled

Paths == {<< >>, <<"D">>}
Names == {"a", "b", "c", "D", "junk"}
NoKey == << >>
NothingRead == [key |-> NoKey, from |-> 0, bytes |-> << >>]

VARIABLES
  volume,          \* the card
  calls, pulled,   \* calls made, times the card was pulled
  key,             \* the file of each handle, <<path, name>>
  content,         \* history: the bytes of each file
  got,             \* history: what the last call read, [key, from, bytes]
  listing,         \* history: the last listing, [path, names, state]
  grown,           \* history: a directory was given a second cluster
  extended         \* history: a file was overwritten and then written on past
                   \* its end in one opening

filesVars == <<sd, volume, calls, pulled, key, content, got, listing, grown, extended>>

\* The records of a directory in order, and its files' bytes on a disk.
RecordList(disk, path, v) ==
  LET sectors == IF path = << >> THEN [k \in 1 .. RootSectors |-> ROOT + k - 1]
                 ELSE [k \in 1 .. Len(v.dir) * v.spc |->
                         DATA + (v.dir[1 + (k - 1) \div v.spc] - 2) * v.spc + ((k - 1) % v.spc)]
      Rec(k) == RecordsIn(disk[sectors[1 + (k - 1) \div RecordsPerSector]])
                  [1 + ((k - 1) % RecordsPerSector)]
  IN SelectSeq([k \in 1 .. Len(sectors) * RecordsPerSector |-> Rec(k)],
               LAMBDA f : f.name # "")

NamesOf(list) == [k \in DOMAIN list |-> list[k].name]

FileOn(disk, v, k) ==
  LET list == RecordList(disk, k[1], v)
      at == {x \in DOMAIN list : list[x].name = k[2]}
  IN IF at = {} THEN NoFile ELSE list[Min(at)]

BytesOn(disk, v, k) ==
  LET c == Content(disk, v.spc, FileOn(disk, v, k))
  IN [x \in 1 .. FileOn(disk, v, k).size |-> c[x - 1]]

Keys == Paths \X {"a", "b"}

FilesInit ==
  /\ volume \in Volumes
  /\ sd = Driver(volume.disk, volume.spc)
  /\ calls = 0 /\ pulled = 0
  /\ key = [h \in Slots |-> NoKey]
  /\ content = [k \in Keys |-> BytesOn(volume.disk, volume, k)]
  /\ got = NothingRead
  /\ listing = [path |-> << >>, names |-> << >>, state |-> "none"]
  /\ grown = FALSE /\ extended = FALSE

---------------------------------------------------------------------------
(* Calls *)

\* The program goes on, as long as its last call has returned.
GoesOn == ~sd.hung /\ calls < (IF pulled = 0 THEN volume.calls ELSE MaxCallsPulled)

\* A call that leaves the driver in state t, and what is common to all.
Call(t) ==
  /\ calls' = calls + 1
  /\ sd' = Returned(t)
  /\ pulled' = IF sd.card /\ ~t.card THEN pulled + 1 ELSE pulled
  /\ grown' = (grown \/ \E k \in DOMAIN volume.dir :
                 k = Len(volume.dir) /\ ~AtEnd(Saved(t)[FAT1][volume.dir[k]]))
  /\ UNCHANGED volume

Fuses == {k \in Moments : k = -1 \/ (pulled < MaxPulls /\ calls < MaxCallsPulled)}

Mount ==
  /\ ~sd.fat16
  /\ \E k \in Fuses : Call(IsFAT16(At(k)))
  /\ UNCHANGED <<key, content, got, listing, extended>>

\* sdcard_fopen.  A listing does not survive the creation of a file.
FilesOpen(path, name, create) ==
  /\ \E k \in Fuses : \E t \in {Fopen(At(k), path, name, create)} :
       /\ Call(t)
       /\ key' = IF t.val >= 0 THEN [key EXCEPT ![t.val] = <<path, name>>] ELSE key
       /\ content' = IF t.val >= 0 /\ create THEN [content EXCEPT ![<<path, name>>] = << >>]
                     ELSE content
       /\ listing' = IF create THEN [listing EXCEPT !.state = "none"] ELSE listing
  /\ UNCHANGED <<got, extended>>

Handles == {h \in Slots : key[h] # NoKey}

\* Overlaid with what was written from that position on.
Overlay(bytes, from, new) ==
  [x \in 1 .. (IF Len(bytes) > from + Len(new) THEN Len(bytes) ELSE from + Len(new)) |->
     CASE x > from /\ x <= from + Len(new) -> new[x - from]
       [] x <= from /\ x > Len(bytes)      -> 0
       [] OTHER                            -> bytes[x]]

\* sdcard_writefile_sz, which ignores the results.  After a write that fails
\* the others fail too.
RECURSIVE WriteAll(_, _, _)
WriteAll(s, h, bytes) ==
  IF bytes = << >> THEN s ELSE WriteAll(Write(s, h, Head(bytes)), h, Tail(bytes))

WriteFile(h, n) ==
  LET new == [x \in 1 .. n |-> 10 * calls + x]
  IN \E k \in Fuses :
       LET t == WriteAll(At(k), h, new)
           from == sd.files[h].pos
           done == t.files[h].pos - from
       IN /\ Call(t)
          /\ content' = IF sd.files[h].in_use /\ done > 0
                        THEN [content EXCEPT ![key[h]] =
                                Overlay(@, from, SubSeq(new, 1, done))]
                        ELSE content
          /\ extended' = (extended \/ (/\ done > 0 /\ from + done > Len(content[key[h]])
                                      /\ \/ from < Len(content[key[h]])
                                         \/ sd.files[h].file.size # Len(content[key[h]])))
          /\ got' = NothingRead
          /\ UNCHANGED <<key, listing>>

\* sdcard_readbyte n times, or until it is negative: sdcard_readfile.
RECURSIVE ReadAll(_, _, _, _)
ReadAll(s, h, n, bytes) ==
  LET t == Read(s, h)
  IN IF n = 0 THEN [state |-> s, bytes |-> bytes]
     ELSE IF t.val < 0 THEN [state |-> t, bytes |-> Append(bytes, t.val)]
     ELSE ReadAll(t, h, n - 1, Append(bytes, t.val))

Whole == CardSectors * SectorSize

\* sdcard_readbyte and sdcard_readfile; sdcard_filesize closes the file.
ReadFile(h, n, close) ==
  \E k \in Fuses : \E x \in {ReadAll(At(k), h, n, << >>)} :
     /\ Call(IF close THEN Fclose(x.state, h) ELSE x.state)
     /\ got' = [key |-> key[h], from |-> sd.files[h].pos, bytes |-> x.bytes]
     /\ key' = IF close THEN [key EXCEPT ![h] = NoKey] ELSE key
     /\ UNCHANGED <<content, listing, extended>>

FilesClose(h) ==
  /\ \E k \in Fuses : Call(Fclose(At(k), h))
  /\ key' = [key EXCEPT ![h] = NoKey]
  /\ UNCHANGED <<content, got, listing, extended>>

FilesFirst(path) ==
  /\ \E k \in Fuses : \E t \in {FindFirst(At(k), path, Names)} :
       /\ Call(t)
       /\ listing' = [path |-> path,
                      names |-> IF t.ok /\ t.val.status = 0 THEN <<t.val.name>> ELSE << >>,
                      state |-> IF t.ok /\ t.val.status = 0 THEN "on" ELSE "none"]
  /\ UNCHANGED <<key, content, got, extended>>

FilesNext ==
  /\ listing.state = "on"
  /\ \E k \in Fuses : \E t \in {FindNext(At(k), Names)} :
       /\ Call(t)
       /\ listing' = IF t.ok /\ t.val.status = 0
                     THEN [listing EXCEPT !.names = Append(@, t.val.name)]
                     ELSE [listing EXCEPT !.state = IF t.ok /\ t.val.status = -1
                                                    THEN "done" ELSE "none"]
  /\ UNCHANGED <<key, content, got, extended>>

\* The card is put back.
FilesBack ==
  /\ ~sd.hung /\ Insert
  /\ UNCHANGED <<volume, calls, pulled, key, content, got, listing, grown, extended>>

FilesCall ==
  /\ GoesOn
  /\ \/ Mount \/ FilesNext
     \/ \E path \in Paths : FilesFirst(path)
     \/ \E k \in Keys, create \in BOOLEAN : FilesOpen(k[1], k[2], create)
     \/ \E h \in Handles :
          \/ FilesClose(h)
          \/ \E n \in {1, 3} : WriteFile(h, n)
          \/ \E n \in {1, Whole} : ReadFile(h, n, FALSE)
          \/ ReadFile(h, Whole, TRUE)

FilesStep == FilesCall \/ FilesBack

FilesSpec == FilesInit /\ [][FilesStep]_filesVars

---------------------------------------------------------------------------
(* Properties *)

\* The directories the driver can follow; in others a search goes to a cluster
\* of somebody else, or to the root directory.
Followed == \A k \in 2 .. Len(volume.dir) : volume.dir[k] % 8 = 0 /\ volume.spc = 1

Undisturbed == pulled = 0 /\ ~grown /\ ~extended /\ Followed

FilesTypeOK ==
  /\ sd.cur \in AllSectors /\ DOMAIN sd.disk = AllSectors
  /\ \A h \in Slots : sd.files[h].in_use => sd.files[h].cluster \in Clusters
  /\ key \in [Slots -> Keys \cup {NoKey}]
  /\ calls \in 0 .. volume.calls /\ pulled \in 0 .. MaxPulls

\* Only a card that is pulled, or a directory of several clusters, keeps a call
\* from returning: in find_next, and in the search for an empty record, the loop
\* has no way out (altera_up_sd_card_avalon_interface.c:1093, 1526).
Terminates == sd.hung => pulled > 0 \/ grown \/ Len(volume.dir) > 1

\* find_first and find_next give the names of a directory once each and in order,
\* and stop after the last, when nothing is created meanwhile, in directories
\* whose later clusters have numbers divisible by eight and one sector
\* (altera_up_sd_card_avalon_interface.c:1471-1526).
ListingComplete ==
  listing.state # "none" /\ pulled = 0 /\ ~grown /\ Followed =>
    LET all == NamesOf(RecordList(Saved(sd), listing.path, volume))
    IN /\ Len(listing.names) <= Len(all)
       /\ listing.names = SubSeq(all, 1, Len(listing.names))
       /\ listing.state = "done" => listing.names = all

\* What is read has the eight bits of what was written there last, through that
\* handle or an earlier one, with any calls on other files between
\* (altera_up_sd_card_avalon_interface.c:1676-1740, sdcard.c:128-155).  It is
\* not the number from 0 to 255 that the driver's header promises
\* (altera_up_sd_card_avalon_interface.h:106-108): a byte above 127 is negative,
\* the header's sign that the file could not be read.
ReadBack ==
  Undisturbed /\ got.key # NoKey =>
    \A x \in DOMAIN got.bytes :
      got.from + x <= Len(content[got.key]) =>
        got.bytes[x] % 256 = content[got.key][got.from + x]

\* A file nobody has open is on the card as it was written
\* (altera_up_sd_card_avalon_interface.c:1858-1882).
IsKept(k) ==
  LET bytes == BytesOn(Saved(sd), volume, k)
  IN /\ Len(bytes) \in {Len(content[k]), Len(content[k]) + 1}
     /\ SubSeq(bytes, 1, Len(content[k])) = content[k]
ContentsKept ==
  Undisturbed => \A k \in Keys : (\A h \in Slots : key[h] # k) => IsKept(k)

\* The clusters of a file or directory.
ClustersOf(disk, k) == Chain(disk, FileOn(disk, volume, k))
DirClusters == {volume.dir[k] : k \in DOMAIN volume.dir}

\* No cluster belongs to two files or to a file and the directory, also when
\* the card is pulled; a directory that grows shares its new cluster with the
\* file it grew for, because that file's cluster is chosen before it is marked
\* (altera_up_sd_card_avalon_interface.c:1173-1185).
FilesApart ==
  ~grown => LET of == [k \in Keys |-> ClustersOf(Saved(sd), k)]
            IN /\ \A j, k \in Keys : j # k => of[j] \cap of[k] = {}
               /\ \A k \in Keys : of[k] \cap DirClusters = {}

\* The two tables agree after every call, also when a directory has grown
\* (altera_up_sd_card_avalon_interface.c:1074-1079).
BothTables == pulled = 0 => Saved(sd)[FAT1] = Saved(sd)[FAT2]

\* What a program finds in its files is what it wrote, while they are open and
\* on the card, whatever it did to others in between.
ContentsHold == ReadBack /\ ContentsKept

\* The card's clusters and tables after every call.
CardSound == FilesTypeOK /\ FilesApart /\ BothTables
===========================================================================
