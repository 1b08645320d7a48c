---------------------------- MODULE ZipAdmission -----------------------------
(***************************************************************************)
(* The admission of an Office archive before the ZIP library indexes it,   *)
(* and the reader through which the library sees it:                       *)
(* src/intake/zip_admission.rs.                                            *)
(*                                                                         *)
(* The library looks for the end-of-directory footer from the end of the   *)
(* file backwards and tries an earlier candidate when one does not work.   *)
(* The preflight checks one directory; it must be the one that is used.    *)
(*                                                                         *)
(* An archive is a sequence of cells.  A signature is two cells, a number  *)
(* one cell, so a record has fewer cells than it has bytes; otherwise it   *)
(* is laid out as in the format.                                           *)
(***************************************************************************)
EXTENDS Integers, SequencesExt

CONSTANTS
  File,         \* archives, as sequences of cells
  MaxEntries,   \* MAX_ENTRIES
  MaxMeta,      \* cells that a directory, or a ZIP64 record, may take
  MaxName,      \* characters of a name as it is displayed
  Sentinel,     \* what a footer says when the ZIP64 record says it
  Wide,         \* cells that are not ASCII
  ReadCells     \* bound: cells that the library reads in a row

\* Signatures: P, and then what kind of record begins here.
CONSTANTS P, Eocd, Zip64, Locator, Entry
\* The tag of the extra field that replaces a name.
CONSTANT UnicodePath

ASSUME ZipAssumption ==
  /\ File \subseteq Seq(Nat)
  /\ {P, Eocd, Zip64} \subseteq Nat \ {0}   \* no cell of a signature is 0
  /\ MaxEntries \in Nat /\ MaxMeta \in Nat /\ MaxName \in Nat /\ ReadCells \in Nat

VARIABLES
  bytes,     \* the archive, cells 1, 2, ...
  zipStage,  \* "preflight", "walk", "indexing", "indexed", "refused"
  dir,       \* the directory found: its cells [start, stop), its footer, and what it says
  cursor,    \* the cell the walk over the directory has reached
  names,     \* raw names of the members walked over
  displayed, \* how long they are together when displayed
  from, got  \* what the library has read since it last sought: cells from, from + 1, ...

zipVars == <<bytes, zipStage, dir, cursor, names, displayed, from, got>>

-----------------------------------------------------------------------------
(* Reading the archive.  Offsets count from 0.                             *)

Size == Len(bytes)
\* Past the end there is nothing that any check accepts.
At(i) == IF i \in 0 .. Size - 1 THEN bytes[i + 1] ELSE -1
Magic(i, kind) == At(i) = P /\ At(i + 1) = kind
Cells(i, n) == SubSeq(bytes, i + 1, i + n)

\* footer_offset: the last footer whose comment ends with the archive.  A
\* footer: signature, disks, entries here, entries, size, offset, comment length.
FooterCells == 8
Footers == {i \in 0 .. Size - FooterCells : Magic(i, Eocd) /\ i + FooterCells + At(i + 7) = Size}
Footer == CHOOSE i \in Footers : \A j \in Footers : j <= i
Says(i) == [count |-> At(i), size |-> At(i + 1), relative |-> At(i + 2)]

\* A ZIP64 locator, right before the footer: signature, disk, offset, disks.
HasZip64 == Magic(Footer - 5, Locator)
\* The record it names: signature, its length, disks, entries here, entries, size, offset.
Zip64At == At(Footer - 2)

SoundRecord ==
  LET len == At(Zip64At + 2) IN
  /\ Magic(Zip64At, Zip64)
  /\ len >= 5 /\ Zip64At + 3 + len = Footer - 5 /\ len <= MaxMeta
  /\ At(Zip64At + 4) = At(Zip64At + 5)
  /\ At(Zip64At + 3) = 0 /\ At(Footer - 3) = 0 /\ At(Footer - 1) = 1
  /\ \A field \in {"count", "size", "relative"} :
       Says(Footer + 4)[field] \in {Sentinel, Says(Zip64At + 5)[field]}

\* directory: where the central directory is, if the footer makes sense.
Directory ==
  LET said == IF HasZip64 THEN Says(Zip64At + 5) ELSE Says(Footer + 4)
      stop == IF HasZip64 THEN Zip64At ELSE Footer
  IN [start |-> stop - said.size, stop |-> stop, footer |-> Footer,
      count |-> said.count, relative |-> said.relative]

SoundDirectory ==
  /\ Footers # {}
  /\ At(Footer + 3) = At(Footer + 4) /\ At(Footer + 2) = 0
  /\ IF HasZip64 THEN SoundRecord ELSE At(Footer + 4) # Sentinel /\ At(Footer + 5) # Sentinel
  /\ Directory.start >= 0 /\ Directory.relative <= Directory.start

\* Bug: only the directory itself is searched for other footers.
NoOtherFooterInside(d) ==
  \A i \in d.start .. d.stop - 1 : ~Magic(i, Eocd) /\ ~Magic(i, Zip64)

\* From the directory on there is no other footer, and no other ZIP64 record.
NoOtherFooter(d) ==
  \A i \in d.start .. Size - 1 :
    /\ Magic(i, Eocd) => i = d.footer
    /\ Magic(i, Zip64) => i = d.stop /\ d.stop # d.footer

\* An entry: signature, whether UTF-8, lengths of name, extra and comment.
EntryCells == 6

Affordable(d) ==
  /\ d.count <= (d.stop - d.start) \div EntryCells
  /\ d.count <= MaxEntries /\ d.stop - d.start <= MaxMeta

-----------------------------------------------------------------------------
(* The names of the members, as the library will keep them.                *)

\* How long a name may be when displayed.  A character that is not ASCII takes
\* up to three bytes; whether a name is valid UTF-8 is not modelled.
Shown(name, utf8) ==
  LET wide == Len(SelectSeq(name, LAMBDA c : c \in Wide)) IN
  IF wide = 0 THEN {Len(name)}
  ELSE IF utf8 THEN {Len(name), 3 * Len(name)} ELSE {Len(name) + 2 * wide}

Larger(a, b) == IF a >= b THEN a ELSE b

\* The fields of an extra: tag, length, data.  The longest name that replaces
\* the raw one, behind a version cell; or -1 if the fields do not fit.
Replacement(extra) ==
  LET n == Len(extra)
      f[i \in 0 .. n] ==
        IF i = n THEN 0
        ELSE IF n - i < 2 THEN -1
        ELSE LET len == extra[i + 2] IN
             IF len > n - i - 2 \/ f[i + 2 + len] = -1 THEN -1
             ELSE IF extra[i + 1] = UnicodePath /\ len >= 1
                  THEN Larger(len - 1, f[i + 2 + len]) ELSE f[i + 2 + len]
  IN f[0]

-----------------------------------------------------------------------------

Refuse == zipStage' = "refused"

ZipInit ==
  /\ bytes \in File
  /\ zipStage = "preflight"
  /\ dir = <<>> /\ cursor = 0 /\ names = <<>> /\ displayed = 0
  /\ from = 0 /\ got = <<>>

\* zip_preflight up to the walk.
Preflight ==
  /\ zipStage = "preflight"
  /\ IF SoundDirectory /\ NoOtherFooter(Directory) /\ Affordable(Directory)
     THEN zipStage' = "walk" /\ dir' = Directory /\ cursor' = Directory.start
     ELSE Refuse /\ UNCHANGED <<dir, cursor>>
  /\ UNCHANGED <<bytes, names, displayed, from, got>>

\* One entry of the directory.
WalkEntry ==
  /\ zipStage = "walk" /\ Len(names) < dir.count
  /\ LET name  == Cells(cursor + EntryCells, At(cursor + 3))
         extra == Cells(cursor + EntryCells + At(cursor + 3), At(cursor + 4))
         next  == cursor + EntryCells + At(cursor + 3) + At(cursor + 4) + At(cursor + 5)
     IN IF ~Magic(cursor, Entry) \/ next > dir.stop \/ Replacement(extra) = -1
        THEN Refuse /\ UNCHANGED <<cursor, names, displayed>>
        ELSE \E shown \in Shown(name, At(cursor + 2) = 1) :
               LET long == Larger(shown, Replacement(extra)) IN
               IF \/ long > MaxName \/ displayed + long > MaxEntries * MaxName
                  \/ Contains(names, name)
               THEN Refuse /\ UNCHANGED <<cursor, names, displayed>>
               ELSE /\ names' = Append(names, name)
                    /\ displayed' = displayed + long
                    /\ cursor' = next
                    /\ UNCHANGED zipStage
  /\ UNCHANGED <<bytes, dir, from, got>>

\* Bug: cells that no entry accounts for are ignored.
WalkedLoosely ==
  /\ zipStage = "walk" /\ Len(names) = dir.count
  /\ zipStage' = "indexing"
  /\ UNCHANGED <<bytes, dir, cursor, names, displayed, from, got>>

\* The directory is admitted, and the library begins to index it.
Walked ==
  /\ zipStage = "walk" /\ Len(names) = dir.count
  /\ IF cursor = dir.stop THEN zipStage' = "indexing" ELSE Refuse
  /\ UNCHANGED <<bytes, dir, cursor, names, displayed, from, got>>

-----------------------------------------------------------------------------
(* AdmittedReader.  The library seeks and reads as it likes.               *)

Reading == zipStage \in {"indexing", "indexed"}

Seek ==
  /\ Reading
  /\ from' \in 0 .. Size
  /\ got' = <<>>
  /\ UNCHANGED <<bytes, zipStage, dir, cursor, names, displayed>>

\* Bug: only signatures that lie in the buffer as a whole are recognised.
SeenWithin(i, stop) ==
  IF /\ zipStage = "indexing" /\ i < dir.start /\ i + 1 < stop
     /\ Magic(i, Eocd) \/ Magic(i, Zip64)
  THEN 0 ELSE At(i)

\* Bug: the signatures stay hidden when indexing is over.
SeenForever(i, stop) ==
  IF i < dir.start /\ (Magic(i, Eocd) \/ Magic(i, Zip64)) THEN 0 ELSE At(i)

\* What a read that ends before stop shows of cell i: before the directory, a
\* signature of a footer loses its first cell as long as indexing goes on.
Seen(i, stop) ==
  IF zipStage = "indexing" /\ i < dir.start /\ (Magic(i, Eocd) \/ Magic(i, Zip64))
  THEN 0 ELSE At(i)

Read(n) ==
  /\ Reading /\ Len(got) + n <= ReadCells
  /\ LET begin == from + Len(got)
         stop == IF begin + n <= Size THEN begin + n ELSE Size
     IN got' = got \o [i \in 1 .. stop - begin |-> Seen(begin + i - 1, stop)]
  /\ UNCHANGED <<bytes, zipStage, dir, cursor, names, displayed, from>>

\* The library has its index, or gives up.
Index ==
  /\ zipStage = "indexing"
  /\ zipStage' \in {"indexed", "refused"}
  /\ from' = from + Len(got) /\ got' = <<>>
  /\ UNCHANGED <<bytes, dir, cursor, names, displayed>>

ZipNext == Preflight \/ WalkEntry \/ Walked \/ Seek \/ (\E n \in 1 .. ReadCells : Read(n)) \/ Index

ZipSpec == ZipInit /\ [][ZipNext]_zipVars

-----------------------------------------------------------------------------
(* Properties.                                                             *)

\* While it indexes, the library cannot find any footer but the one that was
\* checked, nor another ZIP64 record, wherever it seeks and however its reads
\* cut the archive into buffers: so it cannot fall back to a directory that
\* nobody looked at.
OneFooter ==
  zipStage = "indexing" =>
    \A i \in 1 .. Len(got) - 1 : got[i] = P =>
      /\ got[i + 1] = Eocd => from + i - 1 = dir.footer
      /\ got[i + 1] = Zip64 => from + i - 1 = dir.stop /\ dir.stop # dir.footer

\* What is read of the directory is what was checked, and once the archive is
\* indexed its members are read as they are, signatures in their data included.
PayloadIntact ==
  \A i \in 1 .. Len(got) :
    zipStage = "indexed" \/ from + i - 1 >= dir.start => got[i] = At(from + i - 1)

\* In an admitted archive every cell of the directory belongs to one of the
\* entries that were counted and checked, and no two members share a name.
MembersChecked ==
  Reading => /\ Len(names) = dir.count /\ cursor = dir.stop
             /\ IsInjective(names)
             /\ \A i \in dir.start .. dir.stop - 1 : ~Magic(i, Eocd)
=============================================================================
