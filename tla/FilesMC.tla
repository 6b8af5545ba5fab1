------------------------------ MODULE FilesMC ------------------------------
(* Instances of Files for TLC: cards with a directory D of one cluster, of *)
(* several, full or not, and a file in each directory.                     *)
EXTENDS Files

F(name, start, size) == [NoFile EXCEPT !.name = name, !.start = start, !.size = size]

\* A card from its root directory, its chains and the records of D, for so
\* many calls.
Volume(most, spc, root, chains, dir, records) ==
  [calls |-> most, spc |-> spc, dir |-> dir,
   disk |->
     LET table == [c \in Clusters |->
           IF \E s \in chains : \E k \in DOMAIN s : s[k] = c
           THEN LET s == CHOOSE s \in chains : \E k \in DOMAIN s : s[k] = c
                    k == CHOOSE k \in DOMAIN s : s[k] = c
                IN IF k = Len(s) THEN EOC ELSE s[k + 1]
           ELSE 0]
         R == RecordsPerSector
         Part(list, k) == [r \in Records |-> IF (k * R) + r <= Len(list)
                                             THEN list[(k * R) + r] ELSE NoFile]
         Of(n) == {k \in 1 .. Len(dir) * spc :
                     n = DATA + (dir[1 + (k - 1) \div spc] - 2) * spc + ((k - 1) % spc)}
     IN [n \in AllSectors |->
           CASE n \in {MBR, BOOT} -> << >>
             [] n \in {FAT1, FAT2} -> table
             [] n >= ROOT /\ n < DATA -> Part(root, n - ROOT)
             [] n >= DATA /\ Of(n) # {} -> Part(records, Min(Of(n)) - 1)
             [] OTHER -> [k \in Places |-> IF k = 1 THEN 200 ELSE n]]]

MCVolumes == {
  Volume(6, 1, <<F("a", 3, 4), F("D", 2, 0)>>, {<<2>>, <<3, 4>>}, <<2>>, << >>),
  Volume(5, 1, <<F("D", 2, 0)>>, {<<2, 8>>, <<3>>, <<5>>, <<4>>}, <<2, 8>>,
         <<F("a", 3, 1), F("c", 5, 2), F("b", 4, 0)>>),
  Volume(5, 1, <<F("D", 3, 0), F("a", 2, 1)>>, {<<3, 8, 9>>, <<2>>, <<4>>, <<5>>}, <<3, 8, 9>>,
         <<F("b", 4, 0), NoFile, F("c", 5, 0)>>),
  Volume(5, 1, <<F("D", 2, 0), F("a", 3, 2)>>, {<<2, 5>>, <<3>>, <<4>>, <<6>>}, <<2, 5>>,
         <<F("b", 4, 0), F("c", 6, 0)>>),
  Volume(5, 2, <<F("D", 2, 0), NoFile, F("a", 3, 7)>>, {<<2>>, <<3, 5>>, <<4>>, <<6>>}, <<2>>,
         <<F("b", 4, 1), NoFile, F("c", 6, 0)>>),
  Volume(5, 1, <<F("D", 2, 0)>>, {<<2>>, <<3>>, <<4>>}, <<2>>, <<F("b", 3, 0), F("c", 4, 0)>>)}
===========================================================================
