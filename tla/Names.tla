------------------------------- MODULE Names -------------------------------
(***************************************************************************)
(* File names of the SD card driver: which are accepted, how a path is cut *)
(* into records' names, how a name becomes a record, and how a record is   *)
(* listed.                                                                 *)
(*                                                                         *)
(* A name is a sequence of characters, one of each kind the code           *)
(* distinguishes; both dividers are "/".  NameLength and ExtLength, 8 and  *)
(* 3 in the source, are parameters.  Bound: a name has a character.        *)
(***************************************************************************)
EXTENDS Integers, SequencesExt

CONSTANTS
  NameLength, ExtLength,
  Texts               \* the names a program asks for

Nul == "0"
Kinds == {"a", "A", ".", "/", " "}

FilenameToUpper(s) == [k \in DOMAIN s |-> IF s[k] = "a" THEN "A" ELSE s[k]]

---------------------------------------------------------------------------
(* check_file_name_for_FAT16_compliance; positions are from 1 *)

\* st: where the last divider is, and the last divider or period.
Refused(st, k, c) ==
  \/ c = " "
  \/ st.divider = k - 1 /\ c = "/"
  \/ k - st.period = NameLength + 1 /\ c # "."
  \/ st.divider # st.period /\ k - st.period > ExtLength /\ c # "/"

Compliant(s) ==
  LET Look(st, k) == [divider |-> IF s[k] = "/" THEN k ELSE st.divider,
                      period  |-> IF s[k] \in {"/", "."} THEN k ELSE st.period,
                      ok      |-> st.ok /\ ~Refused(st, k, s[k])]
  IN /\ FoldLeftDomain(Look, [divider |-> 0, period |-> 0, ok |-> TRUE], s).ok
     /\ Last(s) # "/"

---------------------------------------------------------------------------
(* Paths *)

Dividers(s) == {k \in DOMAIN s : s[k] = "/"}
ComponentAt(s, first) ==
  SubSeq(s, first, Min({k \in Dividers(s) : k >= first} \cup {Len(s) + 1}) - 1)
Directories(s) ==
  {ComponentAt(s, b) : b \in ({1} \cup {k + 1 : k \in Dividers(s)}) \ {Max(Dividers(s) \cup {0}) + 1}}
FileOf(s) == ComponentAt(s, Max(Dividers(s) \cup {0}) + 1)

Blank(n) == [k \in 1 .. n |-> " "]

\* The name and extension a component is looked for by.  The last period counts.
\* skip: for a directory the extension begins one place too late.
Parsed(c, skip) ==
  LET Store(f, k) ==
        LET x == (k - f.dot) + skip
        IN CASE c[k] = "."              -> [f EXCEPT !.dot = k]
             [] c[k] # "." /\ f.dot = 0 ->
                  IF k <= NameLength THEN [f EXCEPT !.name[k] = c[k]]
                  ELSE [f EXCEPT !.outside = TRUE]
             [] c[k] # "." /\ f.dot # 0 ->
                  IF x <= ExtLength THEN [f EXCEPT !.ext[x] = c[k]]
                  ELSE [f EXCEPT !.outside = TRUE]
  IN FoldLeftDomain(Store, [name |-> Blank(NameLength), ext |-> Blank(ExtLength),
                            dot |-> 0, outside |-> FALSE], c)

FileFields(c) == Parsed(c, 0)
DirectoryFields(c) == Parsed(c, 1)

---------------------------------------------------------------------------
(* Records *)

\* convert_filename_to_name_extension.  The first period counts, and a name
\* without one is filled up with zeros.
Converted(c) ==
  LET At(k) == IF k <= Len(c) THEN c[k] ELSE Nul
      stop == Min({k \in DOMAIN c : c[k] = "."} \cup {Len(c) + 1, NameLength + 1})
      from == IF At(stop) = "." THEN stop + 1 ELSE stop
  IN [name |-> [k \in 1 .. NameLength |->
                  IF k < stop THEN c[k] ELSE IF At(stop) = "." THEN " " ELSE Nul],
      ext |-> [k \in 1 .. ExtLength |->
                 IF At(from + k - 1) = Nul THEN " " ELSE At(from + k - 1)]]

Matches(record, fields) ==
  /\ FilenameToUpper(record.name) = FilenameToUpper(fields.name)
  /\ FilenameToUpper(record.ext) = FilenameToUpper(fields.ext)

\* Seeded bug: the padding of a name is listed with it.
ListedPadded(record) ==
  record.name \o (IF record.ext[1] # " " THEN <<".">> \o record.ext ELSE << >>)

\* copy_file_record_name_to_string, as the string it is for its reader.
ListedAs(record) ==
  LET Letters(s) == SelectSeq(s, LAMBDA c : c # " ")
      text == Letters(record.name) \o
              (IF record.ext[1] # " " THEN <<".">> \o Letters(record.ext) ELSE << >>)
      nuls == {k \in DOMAIN text : text[k] = Nul}
  IN SubSeq(text, 1, Min(nuls \cup {Len(text) + 1}) - 1)

---------------------------------------------------------------------------
(* A file is created under a name, listed, and opened by the name listed *)

NoRecord == [name |-> << >>, ext |-> << >>]

VARIABLES
  asked,        \* the name the program gave, << >> for none
  record,       \* the record of the file created
  listed        \* its name in a listing

namesVars == <<asked, record, listed>>

NamesIdle == asked = << >> /\ record = NoRecord /\ listed = << >>
NamesInit == asked \in Texts /\ record = NoRecord /\ listed = << >>

CreateRecord ==
  /\ asked # << >> /\ record = NoRecord
  /\ Compliant(FilenameToUpper(asked))
  /\ record' = Converted(FileOf(FilenameToUpper(asked)))
  /\ UNCHANGED <<asked, listed>>

ListRecord ==
  /\ record # NoRecord /\ listed = << >>
  /\ listed' = ListedAs(record)
  /\ UNCHANGED <<asked, record>>

NamesNext == CreateRecord \/ ListRecord

---------------------------------------------------------------------------
(* Properties *)

Periods(c) == Cardinality({k \in DOMAIN c : c[k] = "."})

\* A component the driver takes: at most NameLength letters before the first
\* period, at most ExtLength characters from any period to the next, and after
\* the last.  A directory of NameLength letters needs a period.
Short(c, isFile) ==
  LET dots == {k \in DOMAIN c : c[k] = "."}
      first == Min(dots \cup {Len(c) + 1}) - 1
  IN /\ c # << >> /\ " " \notin Range(c)
     /\ first <= NameLength /\ (~isFile /\ dots = {} => first < NameLength)
     /\ \A k \in dots : Min({d \in dots : d > k} \cup {Len(c)}) - k <= ExtLength

\* A path is accepted exactly if all its components are short, without spaces
\* or empty ones; several periods are accepted, a directory of eight letters is
\* not (altera_up_sd_card_avalon_interface.c:570-606, 1560-1564).
AcceptsShortNames ==
  asked # << >> =>
    (Compliant(asked) <=> Short(FileOf(asked), TRUE) /\ \A d \in Directories(asked) : Short(d, FALSE))

\* An accepted path is cut into names and extensions that fit their arrays,
\* except that the last letter of a directory's extension of full length is
\* stored behind its array (altera_up_sd_card_avalon_interface.c:677-691, 852-867).
WithinArrays ==
  asked # << >> /\ Compliant(asked) =>
    /\ ~FileFields(FileOf(asked)).outside
    /\ \A d \in Directories(asked) :
         DirectoryFields(d).outside <=> \E k \in DOMAIN d : d[k] = "." /\
                        \E n \in 1 .. ExtLength : n = ExtLength /\ k + n <= Len(d) /\
                          \A j \in k + 1 .. k + n : d[j] # "."

\* A file created is found again under its name if that has one period, or none
\* and full length; otherwise the record holds something else than is looked for
\* and every fopen with create makes another one
\* (altera_up_sd_card_avalon_interface.c:852-867, 1133-1165).
CreatedIsFound ==
  record # NoRecord =>
    LET c == FileOf(FilenameToUpper(asked))
    IN Matches(record, FileFields(c)) <=> Periods(c) = 1 \/ (Periods(c) = 0 /\ Len(c) = NameLength)

\* A file that is found under its name is found, and accepted, under the name in
\* the listing (altera_up_sd_card_avalon_interface.c:1245-1274).
ListedIsFound ==
  listed # << >> /\ Matches(record, FileFields(FileOf(asked))) =>
    Compliant(listed) /\ Matches(record, FileFields(listed))
===========================================================================
