------------------------------- MODULE SdDir -------------------------------
(***************************************************************************)
(* The directories of the SD card driver: finding a path, finding and      *)
(* creating a file, opening it, and listing a directory.                   *)
(*                                                                         *)
(* A path is a sequence of directory names; a name is already compared     *)
(* letter by letter (module Names).  A directory is a chain of clusters    *)
(* of records; a record named "" is free or deleted.  A sector of anything *)
(* else, read as a directory, is full of records nobody asks for.          *)
(*                                                                         *)
(* The driver takes a link in a directory for the number of a cluster      *)
(* rounded down to a multiple of eight, and some of its loops never end.   *)
(* Such a call is marked in sd.hung: it goes round more often than there   *)
(* are clusters, each time from the same state.                            *)
(*                                                                         *)
(* Bound: records are read from the buffer without a further check of the  *)
(* card.                                                                   *)
(***************************************************************************)
EXTENDS SdCard

\* The call never returns.
Hang(s) == [Fail(s) EXCEPT !.hung = TRUE]
Laps == TableEntries + 2

RoundDown(flag) == flag - (flag % 8)

\* Reads the sectors from the k-th on, up to last, until one has a record of
\* those names, in the first from record r on: answers <<its sector, its
\* number>>.  The answer is <<the next, 0>> if there is none, and no success if
\* a sector could not be read.
Scan(s, first, k, last, r, names) ==
  LET Hits(t) == {x \in Records : /\ RecordsIn(t.buf)[x].name \in names
                                  /\ t.val[1] = k => x >= r}
      Look(t) == Answer(t, IF Hits(t) # {} THEN <<t.val[1], Min(Hits(t))>>
                                           ELSE <<t.val[1] + 1, 0>>)
      read[n \in 0 .. last - k + 1] ==
        IF n = 0 THEN Answer(s, <<k, 0>>)
        ELSE Then(read[n - 1], LAMBDA t :
               IF t.val[2] # 0 THEN t ELSE Then(ReadSector(t, first + t.val[1]), Look))
  IN read[last - k + 1]

Found(t) == t.ok /\ t.val[2] # 0
ScanRoot(s, k, r, names) == Scan(s, ROOT, k, RootSectors - 1, r, names)
ScanCluster(s, c, k, r, names) == Scan(s, SectorOf(s, c, 0), k, s.spc - 1, r, names)
Place(t, c) == Answer(t, <<c, t.val[1], t.val[2]>>)

\* The record in the buffer.
Record(t) == RecordsIn(t.buf)[t.val[2]]

---------------------------------------------------------------------------
(* Finding *)

\* Seeded bug: the end of the chain is not recognised.
NextInSearchOn(s, c) ==
  Then(GetClusterFlag(s, c), LAMBDA u : Answer(u, RoundDown(u.val)))

\* The cluster a search goes on with.
NextInSearch(s, c) ==
  Then(GetClusterFlag(s, c), LAMBDA u :
    IF AtEnd(u.val) THEN Fail(u) ELSE Answer(u, RoundDown(u.val)))

\* A loop from one place to the next, until Round answers that it is Over: the
\* driver's state then, or a call that never returns.
Over == <<0, 0>>
Loop(s, place, Round(_, _)) ==
  LET lap[n \in 0 .. Laps + 1] ==
        IF n = 0 THEN <<s, place>>
        ELSE After(lap[n - 1], LAMBDA l : IF l[2] = Over THEN l ELSE Round(l[1], l[2]))
      end == lap[Laps + 1]
  IN IF end[2] = Over THEN end[1] ELSE Hang(end[1])

\* A failed read is no reason to stop before the table has been asked.
SearchClusters(s, c, name) ==
  Loop(s, <<c, 1>>, LAMBDA t, place :
    After(ScanCluster(t, place[1], 0, 1, {name}), LAMBDA u :
      IF Found(u) THEN <<Place(u, place[1]), Over>>
      ELSE After(NextInSearch(u, place[1]), LAMBDA v :
             <<v, IF v.ok THEN <<v.val, 1>> ELSE Over>>)))

\* find_file_in_directory: answers where the record is.
FindRecord(s, dir, name) ==
  IF dir # 0 THEN SearchClusters(s, dir, name)
  ELSE After(ScanRoot(s, 0, 1, {name}), LAMBDA t :
         IF Found(t) THEN Place(t, 0) ELSE Fail(t))

\* One directory of a path: answers its first cluster.  In a subdirectory only
\* the first cluster is searched: a link found there is taken for the directory.
Enter(s, dir, name) ==
  IF dir = 0
  THEN After(ScanRoot(s, 0, 1, {name}), LAMBDA t :
         IF Found(t) /\ Record(t).start # 0 THEN Answer(t, Record(t).start) ELSE Fail(t))
  ELSE After(ScanCluster(s, dir, 0, 1, {name}), LAMBDA t :
         IF Found(t) THEN Answer(t, Record(t).start)
         ELSE Then(NextInSearch(t, dir), LAMBDA u : IF u.val = dir THEN Hang(u) ELSE u))

\* get_home_directory_cluster_for_file.  A directory called 0 is the root again.
HomeDirectory(s, path) ==
  LET dir[n \in 0 .. Len(path)] ==
        IF n = 0 THEN Answer(s, 0)
        ELSE Then(dir[n - 1], LAMBDA t : Enter(t, t.val, path[n]))
  IN dir[Len(path)]

---------------------------------------------------------------------------
(* Creating *)

\* The four marks of a directory that grows by a cluster, whose contents stay.
Grow(s, c, new) ==
  Then(MarkCluster(s, c, new, FAT1), LAMBDA t :
  Then(MarkCluster(t, new, EOC, FAT1), LAMBDA u :
  Then(MarkCluster(u, c, new, FAT2), LAMBDA v :
  Then(MarkCluster(v, new, EOC, FAT2), LAMBDA w : Ok(Flush(w))))))

\* find_first_empty_record_in_a_subdirectory.  Only the first cluster is ever
\* searched: with a second one, or if the card is gone, the loop does not end.
FindEmptyInSubdirectory(s, dir) ==
  After(ScanCluster(s, dir, 0, 1, {""}), LAMBDA t :
    IF Found(t) THEN Place(t, dir)
    ELSE After(GetClusterFlag(t, dir), LAMBDA flag :
      IF ~(flag.ok /\ AtEnd(flag.val)) THEN Hang(flag)
      ELSE Then(FindFirstEmptyCluster(flag), LAMBDA new :
           Then(Grow(new, dir, new.val), LAMBDA grown : Answer(grown, <<new.val, 0, 1>>)))))

FindEmpty(s, dir) ==
  IF dir # 0 THEN FindEmptyInSubdirectory(s, dir)
  ELSE After(ScanRoot(s, 0, 1, {""}), LAMBDA t : IF Found(t) THEN Place(t, 0) ELSE Fail(t))

NewFile(rec, name, cluster) ==
  [Closed EXCEPT !.in_use = TRUE, !.modified = TRUE, !.rec = rec,
                 !.file = [NoFile EXCEPT !.name = name, !.start = cluster],
                 !.cluster = cluster]

\* The record is saved before the cluster is marked, and the mark in the
\* second table stays in the buffer.
CreateFile(s, dir, name, h) ==
  Then(FindFirstEmptyCluster(s), LAMBDA c :
  Then(FindEmpty(c, dir), LAMBDA t :
  Then(ReadSector([t EXCEPT !.files[h] = NewFile(t.val, name, c.val)],
                  RecordSector(t, t.val)), LAMBDA u :
  Then(WriteFileRecord(u, h), LAMBDA v : MarkBoth(Flush(v), c.val, EOC)))))

---------------------------------------------------------------------------
(* alt_up_sd_card_fopen *)

\* Another slot holds the same record.
OpenElsewhere(s, h) ==
  \E g \in Slots \ {h} : s.files[g].in_use /\ s.files[g].rec = s.files[h].rec

Opened(rec, file) ==
  [Closed EXCEPT !.in_use = TRUE, !.rec = rec, !.file = file, !.cluster = file.start]

\* The record read is the slot's even if the call fails, but the slot is free
\* then and every field is set when it is used.  A slot whose file
\* turns out to be open already is not given back.
OpenFound(s, h, create) ==
  LET t == [s EXCEPT !.files[h] = Opened(s.val, RecordsIn(s.buf)[s.val[3]])]
  IN IF create THEN Answer(s, -1)
     ELSE Answer(t, IF OpenElsewhere(t, h) THEN -2 ELSE h)

FreeSlots(s) == {h \in Slots : ~s.files[h].in_use}

\* In a directory, with a slot.
OpenIn(s, dir, name, create, h) ==
  After(FindRecord(s, dir, name), LAMBDA found :
    CASE found.ok                                -> OpenFound(found, h, create)
      [] ~found.ok /\ (found.hung \/ ~create)    -> Answer(found, -1)
      [] ~found.ok /\ ~found.hung /\ create      ->
           After(CreateFile(found, dir, name, h), LAMBDA made :
             Answer(made, IF made.ok THEN h ELSE -1)))

Fopen(s, path, name, create) ==
  After(IsPresent(s), LAMBDA t :
    IF ~(t.ok /\ t.fat16) THEN Answer(t, -1)
    ELSE After(HomeDirectory(t, path), LAMBDA home :
           IF ~home.ok \/ FreeSlots(home) = {} THEN Answer(home, -1)
           ELSE OpenIn(home, home.val, name, create, Min(FreeSlots(home)))))

---------------------------------------------------------------------------
(* alt_up_sd_card_find_first and find_next: status 0 and a name, or a status *)

Listed(s, status, name) == Answer(s, [status |-> status, name |-> name])

\* Seeded bug: the record found last is found again.
FromSame(search) == search.index

From(search) == search.index + 1

FoundNext(t, c) ==
  Listed([t EXCEPT !.search = [valid |-> TRUE, cluster |-> c,
                               sector |-> t.val[1], index |-> t.val[2]]],
         0, Record(t).name)

FindNextInRoot(s, names) ==
  After(ScanRoot(s, s.search.sector, From(s.search), names), LAMBDA t :
    IF Found(t) THEN FoundNext(t, 0) ELSE Listed(t, -1, ""))

\* Every cluster is begun at the sector of the record found last.  A failed
\* read, or a failed look at the table, is tried again for ever.
FindNextInClusters(s, c, names) ==
  Loop(s, <<c, From(s.search)>>, LAMBDA t, place :
    After(ScanCluster(t, place[1], t.search.sector, place[2], names), LAMBDA u :
      CASE Found(u)           -> <<FoundNext(u, place[1]), Over>>
        [] ~u.ok              -> <<Hang(u), Over>>
        [] u.ok /\ ~Found(u)  ->
             After(GetClusterFlag(u, place[1]), LAMBDA flag :
               CASE ~flag.ok                      -> <<Hang(flag), Over>>
                 [] flag.ok /\ AtEnd(flag.val)    ->
                      <<Listed([flag EXCEPT !.search.valid = FALSE], -1, ""), Over>>
                 [] flag.ok /\ ~AtEnd(flag.val)   -> <<flag, <<RoundDown(flag.val), 1>>>>)))

\* names: all there can be in a record in use.
FindNext(s, names) ==
  After(IsPresent(s), LAMBDA t :
    CASE ~(t.ok /\ t.fat16)                       -> Listed(t, 2, "")
      [] t.ok /\ t.fat16 /\ ~t.search.valid       -> Listed(t, 3, "")
      [] OTHER -> IF t.search.cluster = 0 THEN FindNextInRoot(t, names)
                  ELSE FindNextInClusters(t, t.search.cluster, names))

FindFirst(s, path, names) ==
  After(IsPresent(s), LAMBDA t :
    IF ~(t.ok /\ t.fat16) THEN Listed(t, 2, "")
    ELSE After(HomeDirectory(t, path), LAMBDA home :
           IF ~home.ok THEN Listed(home, 1, "")
           ELSE FindNext([home EXCEPT !.search = [valid |-> TRUE, cluster |-> home.val,
                                                  sector |-> 0, index |-> 0]], names)))
===========================================================================
