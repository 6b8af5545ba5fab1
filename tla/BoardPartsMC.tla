---------------------------- MODULE BoardPartsMC ----------------------------
(* The parts of the board's software at their edges: each with the small   *)
(* sizes, or the boundary values, that make its interesting cases happen.  *)
EXTENDS BoardParts

\* Codec: the byte boundaries of offsets and colours.
MCCmds == {"P", "F", "S", "C", "X", "T", "L", "E"}
EdgeOffsets == {-2147483647 - 1, -65537, -1, 0, 1, 128, 255, 256, 65535, 65536,
                ImageSize - 1, ImageSize, ImageSize + 1, 16777216, 2147483647}
EdgeShades == {0, 127, 128, 255, 256, 2016, 32767, 32768, 63488, 65535}

\* Names: all names of up to six characters, directories and periods where
\* they may be, and short ones with small letters.
NamesTo(n, characters) == UNION {[1 .. k -> characters] : k \in 1 .. n}
ShortTexts == NamesTo(6, {"A", ".", "/", " "}) \cup NamesTo(4, {"a", "A", "."})

\* Mount: boot sectors around the limits of a FAT16 volume, and tables of
\* partitions with any four entries of a kind that fits or does not.
Boots == [signed : BOOLEAN, reserved : {1}, table : {2, 16}, entries : {512, 520}, spc : {1, 4},
          sectors16 : {0, 4086, 5000, 65517},
          sectors32 : {0, 4087, 65517, 65518, 70000, 262071, 262072}]
Floppies == [format : {"floppy"}, boot : Boots]
Disks == [format : {"disk"}, mbr : BOOLEAN,
          parts : {[k \in 1 .. 4 |-> [type |-> t[k], size |-> s[k], offset |-> 63 * k]] :
                     t \in [1 .. 4 -> {0, 6, 14}], s \in [1 .. 4 -> {0, 5000}]},
          boot : {[signed |-> TRUE, reserved |-> 1, table |-> 16, entries |-> 512, spc |-> 1,
                   sectors16 |-> 5000, sectors32 |-> 0]}]
EdgeMedia == Floppies \cup Disks

\* Draw: coordinates inside, at the edges, outside and negative.
EdgeCoords == {-1, 0, 3, 5, 6}

\* Panel: numbers of one digit, several, too many, none and a negative one;
\* places around the ends of rows; shifts around 256.
HexNumbers == [num : {-10, -1, 0, 1, 9, 10, 100, 255, 256, 4097}, base : {1, 2, 10, 16}]
TextSizes == [x : {80, 64, 40}, y : {60, 32}]
TextPlaces == [x : {-1, 0, 38, 39, 40, 62, 79, 80}, y : {0, 1, 31, 32, 59, 60}, length : 0 .. 3]
CursorPlaces == [x : {0, 38, 39, 40}, y : {0, 1, 2}]
EdgeShifts == {-256, -41, 1, 255}

\* The time of day: times that make the counter start before and after 0.
EdgeTimes == [sec : {0, 1, 7}, usec : {0, 1, 5}]

\* Bitmap: rows without padding and one size with it.
SmallScreens == [width : {4, 8, 12}, height : {1, 2, 3, 8}] \cup {[width |-> 3, height |-> 2]}
EdgeColours == {0, 1, 31, 32, 127, 2016, 2047, 2048, 32767, 32768, 63488, 65535}

\* Cache: ranges of whole lines, parts of lines, several lines and more lines
\* than the cache has.
FlushRanges == {[start |-> 1, len |-> 1], [start |-> 1, len |-> 2],
                [start |-> 0, len |-> 6]}

\* Devices: names with and without slashes at their ends, and one driver with
\* functions that fail or not.
SomeDrivers ==
  {[name |-> n, has |-> {}, mode |-> "_IFCHR", fails |-> FALSE] :
     n \in {<< >>, <<"/", "m">>, <<"/", "m", "/">>, <<"/", "m", "/", "x">>}}
    \cup {[name |-> <<"/", "m">>, has |-> {"fstat", "read"}, mode |-> "_IFREG", fails |-> f] :
             f \in BOOLEAN}
ShortPaths == {<<"/">> \o s : s \in UNION {[1 .. k -> {"/", "m", "x"}] : k \in 0 .. 3}}

\* Delay: around multiples of what a big loop waits.
EdgeWaits == {0, 1, 6, 7, 8, 13, 14, 20, 21, 27, 28, 100}

\* LogPrintf: all formats of up to three characters and two of four; words
\* around the powers of the bases and the change of sign.
ShortFormats ==
  UNION {[1 .. k -> {"a", "%", "c", "x", "s", "d", "0", "2", "l", "."}] : k \in 1 .. 3}
    \cup {<<"%", "0", "2", "d">>, <<"%", "0", "2", "x">>}
EqualArguments == {[k \in 1 .. 4 |-> v] : v \in {0, 1, 9, 10, 15, 16, 127, 128, 246, 247, 255}}
ThreeLetters == <<"t", "u", "v">>
ShortWrites == UNION {[1 .. k -> {"a", "ctrl-D"}] : k \in 0 .. 5}

\* The log's levels: off, on, and more at each.
AllLevels == -1 .. 3
=============================================================================
