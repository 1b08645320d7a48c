-------------------------- MODULE ExtractionProofs --------------------------
(***************************************************************************)
(* What Extraction promises, proved for every archive and every budget.    *)
(***************************************************************************)
EXTENDS Extraction, XmlTextProofs, FiniteSetTheorems

(***************************************************************************)
(* The admission of an archive.                                            *)
(***************************************************************************)

Admitted == zipStage \in {"walk", "indexing", "indexed"}

\* An archive, and how far its admission is.
ArchiveOK ==
  /\ bytes \in Seq(Nat)
  /\ zipStage \in {"preflight", "walk", "indexing", "indexed", "refused", "done"}
  /\ zipStage = "preflight" => names = <<>>

\* The directory that was found lies before its footer, and there is no other
\* footer from its start on.
DirectoryOK ==
  Admitted =>
    /\ dir.start \in Nat /\ dir.stop \in Nat /\ dir.footer \in Nat
    /\ dir.stop <= dir.footer /\ dir.footer < Size
    /\ NoOtherFooter(dir)

\* The walk stays inside the directory, and has met every name once.
WalkOK ==
  Admitted =>
    /\ cursor \in Nat /\ cursor <= dir.stop
    /\ names \in Seq(Seq(Nat)) /\ IsInjective(names)
    /\ Reading => Len(names) = dir.count /\ cursor = dir.stop

\* The library sees the archive through the reader and in no other way.
ReaderOK ==
  /\ from \in Nat /\ got \in Seq(Int) /\ from + Len(got) <= Size
  /\ IF Reading THEN \A i \in 1 .. Len(got) : got[i] = Seen(from + i - 1, 0)
                ELSE got = <<>>

ZipInv == ArchiveOK /\ DirectoryOK /\ WalkOK /\ ReaderOK

\* A cell of the archive, or -1.
LEMMA CellTyped ==
  ASSUME bytes \in Seq(Nat), NEW i
  PROVE  /\ At(i) \in Nat \cup {-1}
         /\ At(i) # -1 <=> i \in 0 .. Size - 1
         /\ Size \in Nat
BY DEF At, Size

\* If there is a footer at all, the last one is one.
LEMMA FooterFound ==
  ASSUME bytes \in Seq(Nat), Footers # {}
  PROVE  Footer \in Footers /\ Footers \subseteq 0 .. Size
<1>1. Footers \subseteq 0 .. Size /\ Size \in Nat
  BY CellTyped DEF Footers, FooterCells
<1>2. Max(Footers) \in Footers /\ \A i \in Footers : i <= Max(Footers)
  BY <1>1, MaxOfSet
<1>3. QED
  BY <1>1, <1>2 DEF Footer

\* A directory that makes sense ends at or before its footer.
LEMMA DirectoryFound ==
  ASSUME bytes \in Seq(Nat), SoundDirectory
  PROVE  /\ Directory.start \in Nat /\ Directory.stop \in Nat /\ Directory.footer \in Nat
         /\ Directory.start <= Directory.stop
         /\ Directory.stop <= Directory.footer /\ Directory.footer < Size
<1>1. Footer \in Nat /\ Footer < Size
  BY FooterFound, CellTyped DEF SoundDirectory, Footers, FooterCells
<1>2. QED
  <2>1. CASE HasZip64
    <3> DEFINE z == Zip64At
               len == At(z + 2)
    <3>1. /\ z \in 0 .. Size - 1 /\ len >= 5 /\ z + 3 + len = Footer - 5
      BY <2>1, CellTyped, ZipAssumption DEF SoundDirectory, SoundRecord, Magic
    <3>2. len \in Nat /\ z + 6 \in 0 .. Size - 1
      BY <1>1, <3>1, CellTyped
    <3>3. At(z + 6) \in Nat
      BY <3>2, CellTyped
    <3>4. /\ Directory.start = z - At(z + 6) /\ Directory.stop = z /\ Directory.footer = Footer
          /\ Directory.start >= 0
      BY <2>1, <3>1 DEF SoundDirectory, Directory, Says
    <3>5. QED
      BY <1>1, <3>1, <3>2, <3>3, <3>4
  <2>2. CASE ~HasZip64
    <3>1. Footer + 5 \in 0 .. Size - 1 /\ Footer + 4 + 1 = Footer + 5
      BY <1>1, FooterFound, CellTyped DEF SoundDirectory, Footers, FooterCells
    <3>2. At(Footer + 5) \in Nat
      BY <3>1, CellTyped
    <3>3. /\ Directory.start = Footer - At(Footer + 5) /\ Directory.stop = Footer
          /\ Directory.footer = Footer /\ Directory.start >= 0
      BY <2>2, <3>1 DEF SoundDirectory, Directory, Says
    <3>4. QED
      BY <1>1, <3>2, <3>3
  <2>3. QED
    BY <2>1, <2>2

\* What a read shows of a cell.
LEMMA SeenTyped ==
  ASSUME bytes \in Seq(Nat), NEW i, NEW stop
  PROVE  Seen(i, stop) \in Int /\ Seen(i, stop) = Seen(i, 0)
BY CellTyped DEF Seen

\* The state in which an archive waits.
LEMMA ZipInitially ==
  ZipInit => ZipInv
<1>1. ZipInit => bytes \in Seq(Nat)
  BY ZipAssumption DEF ZipInit
<1>2. QED
  BY <1>1 DEF ZipInit, ZipInv, ArchiveOK, DirectoryOK, WalkOK, ReaderOK, Admitted, Reading, Size

\* And that in which there is none.
NoArchive ==
  /\ bytes = <<>> /\ zipStage = "done" /\ dir = <<>> /\ cursor = 0
  /\ names = <<>> /\ displayed = 0 /\ from = 0 /\ got = <<>>

\* Before an archive arrives there is nothing to get wrong.
LEMMA NoArchiveOK ==
  NoArchive => ZipInv
BY DEF NoArchive, ZipInv, ArchiveOK, DirectoryOK, WalkOK, ReaderOK, Admitted, Reading, Size

\* Nothing of this depends on other state.
LEMMA ZipStutters ==
  ZipInv /\ UNCHANGED zipVars => ZipInv'
BY DEF zipVars, ZipInv, ArchiveOK, DirectoryOK, WalkOK, ReaderOK, Admitted, Reading,
       NoOtherFooter, Seen, Magic, At, Size

\* The directory is accepted only where no other record follows it that could be taken
\* for its end.
LEMMA PreflightKeeps ==
  ASSUME ZipInv, Preflight
  PROVE  ZipInv'
<1>1. /\ bytes \in Seq(Nat) /\ got = <<>> /\ names = <<>> /\ from \in Nat /\ from + Len(got) <= Size
      /\ UNCHANGED <<bytes, names, from, got>>
  BY DEF ZipInv, ArchiveOK, ReaderOK, Reading, Preflight
<1>2. CASE SoundDirectory /\ NoOtherFooter(Directory) /\ Affordable(Directory)
  <2>1. dir' = Directory /\ cursor' = Directory.start /\ zipStage' = "walk"
    BY <1>2 DEF Preflight
  <2>2. ArchiveOK' /\ ReaderOK'
    BY <1>1, <2>1 DEF ArchiveOK, ReaderOK, Reading, Size
  <2>3. DirectoryOK'
    <3>1. NoOtherFooter(dir)'
      BY <1>1, <1>2, <2>1 DEF NoOtherFooter, Magic, At, Size
    <3>2. QED
      BY <1>1, <1>2, <2>1, <3>1, DirectoryFound DEF DirectoryOK, Size
  <2>4. WalkOK'
    <3>1. IsInjective(<<>>)
      BY DEF IsInjective
    <3>2. names' \in Seq(Seq(Nat)) /\ IsInjective(names')
      BY <1>1, <3>1
    <3>3. QED
      BY <1>1, <1>2, <2>1, <3>2, DirectoryFound DEF WalkOK, Reading
  <2>5. QED
    BY <2>2, <2>3, <2>4 DEF ZipInv
<1>3. CASE ~(SoundDirectory /\ NoOtherFooter(Directory) /\ Affordable(Directory))
  BY <1>1, <1>3 DEF Preflight, Refuse, ZipInv, ArchiveOK, DirectoryOK, WalkOK, ReaderOK, Admitted, Reading, Size
<1>4. QED
  BY <1>2, <1>3

\* The name, extra field and comment of an entry are inside the archive if the
\* entry ends before the directory does.
LEMMA EntryInside ==
  ASSUME bytes \in Seq(Nat), cursor \in Nat, NEW stop \in Nat, stop < Size,
         cursor + EntryCells + At(cursor + 3) + At(cursor + 4) + At(cursor + 5) <= stop
  PROVE  /\ At(cursor + 3) \in Nat /\ At(cursor + 4) \in Nat /\ At(cursor + 5) \in Nat
         /\ Cells(cursor + EntryCells, At(cursor + 3)) \in Seq(Nat)
<1>1. cursor + 5 \in 0 .. Size - 1
  <2>1. /\ At(cursor + 3) \in Nat \cup {-1} /\ At(cursor + 4) \in Nat \cup {-1}
        /\ At(cursor + 5) \in Nat \cup {-1} /\ Size \in Nat
    BY CellTyped
  <2>2. cursor + 3 < Size
    BY <2>1 DEF EntryCells
  <2>3. At(cursor + 3) \in Nat
    BY <2>2, CellTyped
  <2>4. cursor + 4 < Size
    BY <2>1, <2>3 DEF EntryCells
  <2>5. At(cursor + 4) \in Nat
    BY <2>4, CellTyped
  <2>6. QED
    BY <2>1, <2>3, <2>5 DEF EntryCells
<1>2. At(cursor + 3) \in Nat /\ At(cursor + 4) \in Nat /\ At(cursor + 5) \in Nat
  <2>1. cursor + 3 \in 0 .. Size - 1 /\ cursor + 4 \in 0 .. Size - 1
    BY <1>1, CellTyped
  <2>2. QED
    BY <1>1, <2>1, CellTyped
<1>3. cursor + EntryCells + At(cursor + 3) <= Len(bytes)
  BY <1>2, CellTyped DEF EntryCells, Size
<1>4. QED
  <2> DEFINE m == cursor + EntryCells
             n == At(cursor + 3)
  <2>1. m \in Nat /\ n \in Nat /\ m + n <= Len(bytes)
    BY <1>2, <1>3 DEF EntryCells
  <2> HIDE DEF m, n
  <2>2. SubSeq(bytes, m + 1, m + n) \in Seq(Nat)
    BY <2>1
  <2>3. QED
    BY <1>2, <2>2 DEF m, n, Cells

\* One entry: the walk stays inside the directory, and the name is a new one.
LEMMA WalkEntryKeeps ==
  ASSUME ZipInv, WalkEntry
  PROVE  ZipInv'
<1> DEFINE name == Cells(cursor + EntryCells, At(cursor + 3))
           next == cursor + EntryCells + At(cursor + 3) + At(cursor + 4) + At(cursor + 5)
<1>1. /\ zipStage = "walk" /\ bytes \in Seq(Nat) /\ got = <<>>
      /\ from \in Nat /\ from + Len(got) <= Size
      /\ UNCHANGED <<bytes, dir, from, got>>
  BY DEF ZipInv, ArchiveOK, ReaderOK, Reading, WalkEntry
<1>2. \/ zipStage' = "refused"
      \/ /\ Magic(cursor, Entry) /\ ~ next > dir.stop /\ ~Contains(names, name)
         /\ names' = Append(names, name) /\ cursor' = next /\ zipStage' = zipStage
  <2> HIDE DEF name, next
  <2>1. \/ Refuse
        \/ /\ Magic(cursor, Entry) /\ ~ next > dir.stop
           /\ \E shown : \/ Refuse
                         \/ /\ ~Contains(names, name) /\ names' = Append(names, name)
                            /\ cursor' = next /\ zipStage' = zipStage
    BY DEF WalkEntry, name, next
  <2>2. QED
    BY <2>1 DEF Refuse
<1>3. CASE zipStage' = "refused"
  BY <1>1, <1>3 DEF ZipInv, ArchiveOK, DirectoryOK, WalkOK, ReaderOK, Admitted, Reading, Size
<1>4. CASE zipStage' # "refused"
  <2>1. /\ Magic(cursor, Entry) /\ ~ next > dir.stop /\ ~Contains(names, name)
        /\ names' = Append(names, name) /\ cursor' = next /\ zipStage' = "walk"
    BY <1>1, <1>2, <1>4
  <2>2. /\ dir.stop \in Nat /\ dir.stop < Size /\ cursor \in Nat
        /\ names \in Seq(Seq(Nat)) /\ IsInjective(names)
    <3>1. Size \in Nat
      BY <1>1, CellTyped
    <3>2. QED
      BY <1>1, <3>1 DEF ZipInv, DirectoryOK, WalkOK, Admitted
  <2>3. /\ At(cursor + 3) \in Nat /\ At(cursor + 4) \in Nat /\ At(cursor + 5) \in Nat
        /\ name \in Seq(Nat)
    <3>1. At(cursor + 3) \in Int /\ At(cursor + 4) \in Int /\ At(cursor + 5) \in Int
      BY <1>1, CellTyped
    <3>2. next <= dir.stop
      BY <2>1, <2>2, <3>1 DEF EntryCells
    <3>3. QED
      BY <1>1, <2>2, <3>2, EntryInside
  <2>4. next \in Nat
    BY <2>2, <2>3 DEF EntryCells
  <2> HIDE DEF name, next
  <2>5. name \notin ToSet(names)
    BY <2>1, <2>2 DEF Contains, ToSet
  <2>6. names' \in Seq(Seq(Nat)) /\ IsInjective(names')
    BY <2>1, <2>2, <2>3, <2>5, InjectiveAppend, ElementsOfAppend
  <2>7. WalkOK'
    <3>1. next <= dir.stop
      BY <2>1, <2>2, <2>4
    <3>2. QED
      BY <1>1, <2>1, <2>4, <2>6, <3>1 DEF WalkOK, Reading
  <2>8. DirectoryOK'
    BY <1>1, <2>1 DEF ZipInv, DirectoryOK, Admitted, NoOtherFooter, Magic, At, Size
  <2>9. ArchiveOK' /\ ReaderOK'
    BY <1>1, <2>1 DEF ArchiveOK, ReaderOK, Reading, Size
  <2>10. QED
    BY <2>7, <2>8, <2>9 DEF ZipInv
<1>5. QED
  BY <1>3, <1>4

\* A walk that has met all members ends where the directory does.
LEMMA WalkedKeeps ==
  ASSUME ZipInv, Walked
  PROVE  ZipInv'
<1>1. /\ zipStage = "walk" /\ bytes \in Seq(Nat) /\ got' = <<>> /\ Len(names) = dir.count
      /\ UNCHANGED <<bytes, dir, cursor, names, displayed, from, got>>
  BY DEF ZipInv, ArchiveOK, ReaderOK, Reading, Walked
<1>2. CASE zipStage' = "refused"
  BY <1>1, <1>2 DEF ZipInv, ArchiveOK, DirectoryOK, WalkOK, ReaderOK, Admitted, Reading, Size
<1>3. CASE zipStage' = "indexing" /\ cursor = dir.stop
  <2>1. ArchiveOK' /\ WalkOK'
    BY <1>1, <1>3 DEF ZipInv, ArchiveOK, WalkOK, Admitted, Reading
  <2>2. DirectoryOK'
    BY <1>1, <1>3 DEF ZipInv, DirectoryOK, Admitted, NoOtherFooter, Magic, At, Size
  <2>3. ReaderOK'
    <3>1. got = <<>> /\ Len(got) = 0 /\ ReaderOK
      BY <1>1 DEF ZipInv, ReaderOK, Reading
    <3>2. QED
      BY <1>1, <1>3, <3>1 DEF ReaderOK, Reading, Size
  <2>4. QED
    BY <2>1, <2>2, <2>3 DEF ZipInv
<1>4. QED
  BY <1>2, <1>3 DEF Walked, Refuse

\* Wherever the library reads next, it has read nothing there yet.
LEMMA SeekKeeps ==
  ASSUME ZipInv, Seek
  PROVE  ZipInv'
<1>1. /\ bytes \in Seq(Nat) /\ Size \in Nat /\ from' \in 0 .. Size /\ got' = <<>>
      /\ UNCHANGED <<bytes, zipStage, dir, cursor, names, displayed>>
  BY CellTyped DEF ZipInv, ArchiveOK, Seek
<1>2. ArchiveOK' /\ WalkOK'
  BY <1>1 DEF ZipInv, ArchiveOK, WalkOK, Admitted, Reading
<1>3. DirectoryOK'
  BY <1>1 DEF ZipInv, DirectoryOK, Admitted, NoOtherFooter, Magic, At, Size
<1>4. ReaderOK'
  BY <1>1 DEF ReaderOK, Reading, Size
<1>5. QED
  BY <1>2, <1>3, <1>4 DEF ZipInv

\* One read shows what the reader shows of each cell.
LEMMA ReadKeeps ==
  ASSUME ZipInv, NEW n \in 1 .. ReadCells, Read(n)
  PROVE  ZipInv'
<1> DEFINE begin == from + Len(got)
           stop == IF begin + n <= Size THEN begin + n ELSE Size
           more == [i \in 1 .. stop - begin |-> Seen(begin + i - 1, stop)]
<1>1. /\ bytes \in Seq(Nat) /\ got' = got \o more /\ Reading
      /\ UNCHANGED <<bytes, zipStage, dir, cursor, names, displayed, from>>
  BY DEF ZipInv, ArchiveOK, Read
<1>2. /\ from \in Nat /\ got \in Seq(Int) /\ from + Len(got) <= Size /\ Size \in Nat
      /\ \A i \in 1 .. Len(got) : got[i] = Seen(from + i - 1, 0)
  BY <1>1, CellTyped DEF ZipInv, ReaderOK
<1>3. stop - begin \in Nat /\ stop <= Size
  BY <1>2, ZipAssumption
<1>4. more \in Seq(Int) /\ Len(more) = stop - begin
  <2> HIDE DEF begin, stop
  <2>1. \A i \in 1 .. stop - begin : Seen(begin + i - 1, stop) \in Int
    BY <1>1, SeenTyped
  <2>2. QED
    BY <1>3, <2>1
<1>5. \A i \in 1 .. Len(more) : more[i] = Seen(begin + i - 1, 0)
  <2> HIDE DEF begin, stop
  <2>1. \A i \in 1 .. stop - begin : Seen(begin + i - 1, stop) = Seen(begin + i - 1, 0)
    BY <1>1, SeenTyped
  <2>2. QED
    BY <1>4, <2>1
<1>6. got' \in Seq(Int) /\ Len(got') = Len(got) + Len(more) /\ from + Len(got') <= Size
  <2> HIDE DEF more
  <2>1. got' \in Seq(Int) /\ Len(got') = Len(got) + Len(more)
    BY <1>1, <1>2, <1>4
  <2>2. QED
    BY <1>2, <1>3, <1>4, <2>1
<1>7. ASSUME NEW i \in 1 .. Len(got') PROVE got'[i] = Seen(from + i - 1, 0)
  <2> HIDE DEF more
  <2>1. CASE i <= Len(got)
    BY <1>1, <1>2, <1>4, <2>1
  <2>2. CASE i > Len(got)
    <3>1. i - Len(got) \in 1 .. Len(more) /\ begin + (i - Len(got)) - 1 = from + i - 1
      BY <1>2, <1>6, <2>2
    <3>2. got'[i] = more[i - Len(got)]
      BY <1>1, <1>2, <1>4, <1>6, <2>2
    <3>3. QED
      BY <1>5, <3>1, <3>2
  <2>3. QED
    BY <1>2, <1>6, <2>1, <2>2
<1>8. ReaderOK'
  <2>1. \A i \in 1 .. Len(got') : got'[i] = Seen(from + i - 1, 0)'
    BY <1>1, <1>7 DEF Seen, Magic, At, Size
  <2> HIDE DEF more
  <2>2. QED
    BY <1>1, <1>2, <1>6, <2>1 DEF ReaderOK, Reading, Size
<1>9. ArchiveOK' /\ WalkOK'
  BY <1>1 DEF ZipInv, ArchiveOK, WalkOK, Admitted, Reading
<1>10. DirectoryOK'
  BY <1>1 DEF ZipInv, DirectoryOK, Admitted, NoOtherFooter, Magic, At, Size
<1>11. QED
  BY <1>8, <1>9, <1>10 DEF ZipInv

\* What was read while indexing is gone when indexing is over.
LEMMA IndexKeeps ==
  ASSUME ZipInv, Index
  PROVE  ZipInv'
<1>1. /\ zipStage = "indexing" /\ zipStage' \in {"indexed", "refused"}
      /\ from' = from + Len(got) /\ got' = <<>>
      /\ UNCHANGED <<bytes, dir, cursor, names, displayed>>
  BY DEF Index
<1>2. ArchiveOK' /\ WalkOK'
  BY <1>1 DEF ZipInv, ArchiveOK, WalkOK, Admitted, Reading
<1>3. DirectoryOK'
  BY <1>1 DEF ZipInv, DirectoryOK, Admitted, NoOtherFooter, Magic, At, Size
<1>4. ReaderOK'
  <2>1. from' \in Nat /\ from' <= Size /\ Len(got') = 0
    BY <1>1 DEF ZipInv, ReaderOK
  <2>2. QED
    BY <1>1, <2>1 DEF ReaderOK, Reading, Size
<1>5. QED
  BY <1>2, <1>3, <1>4 DEF ZipInv

\* No step of the admission breaks its invariant.
LEMMA ZipKeeps ==
  ZipInv /\ ZipNext => ZipInv'
BY PreflightKeeps, WalkEntryKeeps, WalkedKeeps, SeekKeeps, ReadKeeps, IndexKeeps DEF ZipNext

\* No footer but the checked one is shown: a cell before the directory is shown as
\* no signature, and from the directory on there is no other one.
LEMMA ZipInvShowsOneFooter ==
  ZipInv => OneFooter
<1>1. SUFFICES ASSUME ZipInv, zipStage = "indexing", NEW i \in 1 .. Len(got) - 1, got[i] = P
               PROVE  /\ got[i + 1] = Eocd => from + i - 1 = dir.footer
                      /\ got[i + 1] = Zip64 => from + i - 1 = dir.stop /\ dir.stop # dir.footer
  BY DEF OneFooter
<1> DEFINE c == from + i - 1
<1>2. /\ bytes \in Seq(Nat) /\ from \in Nat /\ got \in Seq(Int) /\ dir.start \in Nat /\ Size \in Nat
      /\ NoOtherFooter(dir) /\ P # 0 /\ P \in Nat /\ Eocd # 0 /\ Zip64 # 0
  BY <1>1, CellTyped, ZipAssumption DEF ZipInv, ArchiveOK, ReaderOK, DirectoryOK, Admitted
<1>3. got[i] = Seen(c, 0) /\ got[i + 1] = Seen(c + 1, 0) /\ c \in Int
  <2>1. /\ i \in 1 .. Len(got) /\ i + 1 \in 1 .. Len(got) /\ Reading
        /\ from + (i + 1) - 1 = c + 1 /\ c \in Int
    BY <1>1, <1>2 DEF Reading
  <2>2. \A j \in 1 .. Len(got) : got[j] = Seen(from + j - 1, 0)
    BY <1>1, <2>1 DEF ZipInv, ReaderOK
  <2>3. got[i + 1] = Seen(from + (i + 1) - 1, 0)
    BY <2>1, <2>2
  <2>4. QED
    BY <2>1, <2>2, <2>3
<1> HIDE DEF c
<1>4. At(c) = P /\ ~(c < dir.start /\ (Magic(c, Eocd) \/ Magic(c, Zip64)))
  BY <1>1, <1>2, <1>3 DEF Seen
<1>5. got[i + 1] # 0 => got[i + 1] = At(c + 1)
  BY <1>3 DEF Seen
<1>6. c \in 0 .. Size - 1
  BY <1>2, <1>4, CellTyped
<1>7. CASE got[i + 1] = Eocd
  <2>1. Magic(c, Eocd) /\ c \in dir.start .. Size - 1
    BY <1>2, <1>4, <1>5, <1>6, <1>7 DEF Magic
  <2>2. c = dir.footer
    BY <1>2, <2>1 DEF NoOtherFooter
  <2>3. got[i + 1] = Zip64 => c = dir.stop /\ dir.stop # dir.footer
    BY <1>2, <1>4, <1>7, <2>1 DEF NoOtherFooter, Magic
  <2>4. QED
    BY <2>2, <2>3 DEF c
<1>8. CASE got[i + 1] # Eocd
  <2>1. SUFFICES ASSUME got[i + 1] = Zip64 PROVE c = dir.stop /\ dir.stop # dir.footer
    BY <1>8 DEF c
  <2>2. Magic(c, Zip64) /\ c \in dir.start .. Size - 1
    BY <1>2, <1>4, <1>5, <1>6, <2>1 DEF Magic
  <2>3. QED
    BY <1>2, <2>2 DEF NoOtherFooter
<1>9. QED
  BY <1>7, <1>8

\* Nothing of the directory, and after indexing nothing at all, is hidden.
LEMMA ZipInvKeepsPayload ==
  ZipInv => PayloadIntact
<1>1. SUFFICES ASSUME ZipInv, NEW i \in 1 .. Len(got),
                      zipStage = "indexed" \/ from + i - 1 >= dir.start
               PROVE  got[i] = At(from + i - 1)
  BY DEF PayloadIntact
<1>2. Reading /\ got[i] = Seen(from + i - 1, 0)
  BY <1>1 DEF ZipInv, ReaderOK
<1>3. dir.start \in Nat /\ from \in Nat /\ got \in Seq(Int)
  BY <1>1, <1>2 DEF ZipInv, ReaderOK, DirectoryOK, Admitted, Reading
<1>4. zipStage = "indexing" => ~(from + i - 1 < dir.start)
  BY <1>1, <1>3
<1>5. QED
  BY <1>2, <1>4 DEF Seen

\* The directory that is admitted has been walked to its end.
LEMMA ZipInvChecksMembers ==
  ZipInv => MembersChecked
<1>1. SUFFICES ASSUME ZipInv, Reading
               PROVE  /\ Len(names) = dir.count /\ cursor = dir.stop
                      /\ IsInjective(names)
                      /\ \A i \in dir.start .. dir.stop - 1 : ~Magic(i, Eocd)
  BY DEF MembersChecked
<1>2. Len(names) = dir.count /\ cursor = dir.stop /\ IsInjective(names)
  BY <1>1 DEF ZipInv, WalkOK, Admitted, Reading
<1>3. /\ dir.start \in Nat /\ dir.stop \in Nat /\ dir.footer \in Nat /\ Size \in Nat
      /\ dir.stop <= dir.footer /\ dir.footer < Size /\ NoOtherFooter(dir)
  BY <1>1, CellTyped DEF ZipInv, ArchiveOK, DirectoryOK, Admitted, Reading
<1>4. \A i \in dir.start .. dir.stop - 1 : i \in dir.start .. Size - 1 /\ i # dir.footer
  BY <1>3
<1>5. QED
  BY <1>2, <1>3, <1>4 DEF NoOtherFooter

(***************************************************************************)
(* The order of slides or sheets.                                          *)
(***************************************************************************)

Reads == orderStage \in {"waiting", "manifest", "relationships", "done"}
Uses(r) == r.relevant /\ ~r.external

\* An identifier has one relationship, and leads where that one says.
RelationsOK ==
  /\ \A id : id \in DOMAIN targets <=> \E r \in written : r.id = id
  /\ \A r, s \in written : r.id = s.id => r = s
  /\ \A r \in written : targets[r.id] = IF Uses(r) THEN Located(r.target) ELSE Missing

\* The identifiers are resolved one by one, to members that are not repeated.
ResolvedOK ==
  /\ ids \in Seq(RelId) /\ ordered \in Seq(Member) /\ IsInjective(ordered)
  /\ Reads => ordered = <<>>
  /\ Len(ordered) <= Len(ids)
  /\ orderStage = "ordered" => Len(ordered) = Len(ids)
  /\ \A i \in 1 .. Len(ordered) : ordered[i] = Leads(ids[i]) /\ ordered[i] # Missing

OrderInv == RelationsOK /\ ResolvedOK

\* Nothing is read yet, or no longer.
NoOrder ==
  /\ log = <<>> /\ parents = <<>> /\ ids = <<>> /\ written = {}
  /\ targets = <<>> /\ ordered = <<>>

\* An order of nothing is right.
LEMMA NoOrderOK ==
  NoOrder => OrderInv
<1>1. SUFFICES ASSUME NoOrder PROVE OrderInv
  OBVIOUS
<1>2. /\ DOMAIN targets = {} /\ Len(ordered) = 0 /\ Len(ids) = 0
      /\ ids \in Seq(RelId) /\ ordered \in Seq(Member) /\ DOMAIN ordered = {}
  BY <1>1 DEF NoOrder
<1>3. RelationsOK
  BY <1>1, <1>2 DEF RelationsOK, NoOrder
<1>4. ResolvedOK
  BY <1>1, <1>2 DEF ResolvedOK, NoOrder, IsInjective
<1>5. QED
  BY <1>3, <1>4 DEF OrderInv

\* Neither depends on the manifest once it is read.
LEMMA RelationsStutter ==
  RelationsOK /\ UNCHANGED <<written, targets>> => RelationsOK'
BY DEF RelationsOK, Uses

\* What was resolved stays so while nothing is resolved, or the walk fails.
LEMMA ResolvedStutters ==
  /\ ResolvedOK /\ UNCHANGED <<ids, targets, ordered>>
  /\ orderStage' = "invalid" \/ orderStage' = orderStage
  => ResolvedOK'
BY DEF ResolvedOK, Reads, Leads

\* A step of another walk leaves the order alone.
LEMMA OrderStutters ==
  OrderInv /\ UNCHANGED orderVars => OrderInv'
BY RelationsStutter, ResolvedStutters DEF OrderInv, orderVars

\* The identifier of an item joins the others.
LEMMA ListElementKeeps ==
  ASSUME OrderInv, NEW element \in Listing \cup Plain, NEW empty \in BOOLEAN,
         ListElement(element, empty)
  PROVE  OrderInv'
<1>1. /\ orderStage = "manifest" /\ UNCHANGED <<written, targets, ordered>>
      /\ orderStage' \in {orderStage, "invalid"}
      /\ \/ ids' = ids
         \/ element.id # Missing /\ ids' = Append(ids, element.id)
  BY DEF ListElement, Invalid
<1>2. ids \in Seq(RelId) /\ ordered = <<>>
  BY <1>1 DEF OrderInv, ResolvedOK, Reads
<1>3. element.id # Missing => element.id \in RelId
  BY DEF Listing, Plain
<1>4. ids' \in Seq(RelId)
  BY <1>1, <1>2, <1>3
<1>5. Len(ordered) = 0 /\ Len(ids') \in Nat
  BY <1>2, <1>4
<1>6. ResolvedOK'
  BY <1>1, <1>2, <1>4, <1>5 DEF OrderInv, ResolvedOK, Reads
<1>7. QED
  BY <1>1, <1>6, RelationsStutter DEF OrderInv

\* A relationship is taken only if its identifier is new.
LEMMA RelateElementKeeps ==
  ASSUME OrderInv, NEW r \in Relationship, NEW empty \in BOOLEAN, RelateElement(r, empty)
  PROVE  OrderInv'
<1> DEFINE to == IF Uses(r) THEN Located(r.target) ELSE Missing
<1>1. /\ orderStage = "relationships" /\ UNCHANGED <<ids, ordered>>
      /\ orderStage' \in {orderStage, "invalid"}
      /\ \/ UNCHANGED <<written, targets>>
         \/ /\ r.id \notin DOMAIN targets /\ written' = written \cup {r}
            /\ targets' = [id \in DOMAIN targets \cup {r.id} |-> IF id # r.id THEN targets[id] ELSE to]
  BY DEF RelateElement, Invalid, Uses
<1>2. ordered = <<>> /\ Len(ordered) = 0
  BY <1>1 DEF OrderInv, ResolvedOK, Reads
<1>3. ResolvedOK'
  BY <1>1, <1>2 DEF OrderInv, ResolvedOK, Reads
<1>4. CASE UNCHANGED <<written, targets>>
  BY <1>3, <1>4, RelationsStutter DEF OrderInv
<1>5. CASE /\ r.id \notin DOMAIN targets /\ written' = written \cup {r}
           /\ targets' = [id \in DOMAIN targets \cup {r.id} |-> IF id # r.id THEN targets[id] ELSE to]
  <2> HIDE DEF to
  <2>1. /\ DOMAIN targets' = DOMAIN targets \cup {r.id}
        /\ targets'[r.id] = to
        /\ \A id \in DOMAIN targets : targets'[id] = targets[id]
    BY <1>5 
  <2>2. \A s \in written : s.id \in DOMAIN targets /\ s.id # r.id
    BY <1>5 DEF OrderInv, RelationsOK
  <2>3. \A id : id \in DOMAIN targets' <=> \E s \in written' : s.id = id
    BY <1>5, <2>1 DEF OrderInv, RelationsOK
  <2>4. \A s, t \in written' : s.id = t.id => s = t
    BY <1>5, <2>2 DEF OrderInv, RelationsOK
  <2>5. \A s \in written' : targets'[s.id] = IF Uses(s) THEN Located(s.target) ELSE Missing
    BY <1>5, <2>1, <2>2 DEF OrderInv, RelationsOK, to
  <2>6. RelationsOK'
    BY <2>3, <2>4, <2>5 DEF RelationsOK, Uses
  <2>7. QED
    BY <1>3, <2>6 DEF OrderInv
<1>6. QED
  BY <1>1, <1>4, <1>5

\* The next identifier leads to a member that has not been named before.
LEMMA ResolveKeeps ==
  ASSUME OrderInv, Resolve
  PROVE  OrderInv'
<1> DEFINE path == Leads(ids[Following])
<1>1. /\ orderStage = "resolving" /\ Len(ordered) < Len(ids)
      /\ UNCHANGED <<ids, written, targets>>
      /\ \/ orderStage' = "invalid" /\ ordered' = ordered
         \/ /\ path # Missing /\ path \in Member /\ ~Contains(ordered, path)
            /\ ordered' = Append(ordered, path) /\ orderStage' = orderStage
  BY DEF Resolve, Invalid, Repeated
<1>2. CASE orderStage' = "invalid" /\ ordered' = ordered
  BY <1>1, <1>2, RelationsStutter, ResolvedStutters DEF OrderInv
<1>3. CASE /\ path # Missing /\ path \in Member /\ ~Contains(ordered, path)
           /\ ordered' = Append(ordered, path) /\ orderStage' = orderStage
  <2>1. /\ ordered \in Seq(Member) /\ ids \in Seq(RelId) /\ IsInjective(ordered)
        /\ \A i \in 1 .. Len(ordered) : ordered[i] = Leads(ids[i]) /\ ordered[i] # Missing
    BY DEF OrderInv, ResolvedOK
  <2> HIDE DEF path
  <2>2. path \notin ToSet(ordered)
    BY <1>3, <2>1 DEF Contains, ToSet
  <2>3. ordered' \in Seq(Member) /\ IsInjective(ordered')
    BY <1>3, <2>1, <2>2, InjectiveAppend, ElementsOfAppend
  <2>4. Len(ordered') = Len(ordered) + 1 /\ Len(ordered') <= Len(ids)
    BY <1>1, <1>3, <2>1
  <2>5. ASSUME NEW i \in 1 .. Len(ordered') PROVE ordered'[i] = Leads(ids[i]) /\ ordered'[i] # Missing
    <3>1. CASE i = Len(ordered) + 1
      BY <1>3, <2>1, <3>1 DEF path, Following
    <3>2. CASE i # Len(ordered) + 1
      <4>1. i \in 1 .. Len(ordered) /\ ordered'[i] = ordered[i]
        BY <1>3, <2>1, <2>4, <3>2
      <4>2. QED
        BY <2>1, <4>1
    <3>3. QED
      BY <3>1, <3>2
  <2>6. \A id : Leads(id)' = Leads(id)
    BY <1>1 DEF Leads
  <2>7. ResolvedOK'
    BY <1>1, <1>3, <2>1, <2>3, <2>4, <2>5 DEF ResolvedOK, Reads, Leads
  <2>8. QED
    BY <1>1, <2>7, RelationsStutter DEF OrderInv
<1>4. QED
  BY <1>1, <1>2, <1>3

\* No step of the walks over the relationships breaks their invariant.
LEMMA OrderKeeps ==
  OrderInv /\ OrderNext => OrderInv'
<1>1. SUFFICES ASSUME OrderInv, OrderNext PROVE OrderInv'
  OBVIOUS
<1>2. ASSUME NEW element \in Listing \cup Plain, NEW empty \in BOOLEAN, ListElement(element, empty)
      PROVE  OrderInv'
  BY <1>1, <1>2, ListElementKeeps
<1>3. ASSUME NEW r \in Relationship, NEW empty \in BOOLEAN, RelateElement(r, empty)
      PROVE  OrderInv'
  BY <1>1, <1>3, RelateElementKeeps
<1>4. CASE Resolve
  BY <1>1, <1>4, ResolveKeeps
<1>5. CASE EndOfFile
  <2>1. /\ UNCHANGED <<ids, written, targets, ordered>> /\ Reads
        /\ orderStage' \in {"invalid", "relationships", "resolving"}
    BY <1>5 DEF EndOfFile, Invalid, Reads
  <2>2. ResolvedOK'
    BY <1>1, <2>1 DEF OrderInv, ResolvedOK, Reads, Leads
  <2>3. QED
    BY <1>1, <2>1, <2>2, RelationsStutter DEF OrderInv
<1>6. CASE Ordered
  <2>1. /\ UNCHANGED <<ids, written, targets, ordered>> /\ Len(ordered) = Len(ids)
        /\ orderStage' \in {"invalid", "ordered"}
    BY <1>6 DEF Ordered
  <2>2. ResolvedOK'
    BY <1>1, <2>1 DEF OrderInv, ResolvedOK, Reads, Leads
  <2>3. QED
    BY <1>1, <2>1, <2>2, RelationsStutter DEF OrderInv
<1>7. ASSUME UNCHANGED <<ids, written, targets, ordered>>,
             orderStage' = "invalid" \/ orderStage' = orderStage
      PROVE  OrderInv'
  BY <1>1, <1>7, RelationsStutter, ResolvedStutters DEF OrderInv
<1>8. ASSUME NEW name, NEW empty, PassElement(name, empty) PROVE OrderInv'
  BY <1>7, <1>8 DEF PassElement, Invalid
<1>9. CASE EndElement \/ MalformedXml
  BY <1>7, <1>9 DEF EndElement, MalformedXml, Invalid
<1>10. QED
  BY <1>1, <1>2, <1>3, <1>4, <1>5, <1>6, <1>8, <1>9 DEF OrderNext

\* Every section stands for one reference, and the only relationship that has
\* its identifier says which member it is.
LEMMA OrderInvIsFaithful ==
  OrderInv => OrderedFaithfully
<1>1. SUFFICES ASSUME OrderInv, orderStage = "ordered", NEW i \in 1 .. Len(ids)
               PROVE  /\ Len(ordered) = Len(ids) /\ IsInjective(ordered) /\ ordered[i] \in Member
                      /\ \E r \in written :
                           /\ r.id = ids[i] /\ r.relevant /\ ~r.external
                           /\ Located(r.target) = ordered[i]
                           /\ \A s \in written : s.id = r.id => s = r
  <2>1. OrderInv /\ orderStage = "ordered" => Len(ordered) = Len(ids) /\ IsInjective(ordered)
    BY DEF OrderInv, ResolvedOK
  <2>2. QED
    BY <1>1, <2>1 DEF OrderedFaithfully
<1>2. /\ Len(ordered) = Len(ids) /\ IsInjective(ordered) /\ ordered \in Seq(Member)
      /\ ordered[i] = Leads(ids[i]) /\ ordered[i] # Missing
  BY <1>1 DEF OrderInv, ResolvedOK
<1>3. ids[i] \in DOMAIN targets /\ ordered[i] = targets[ids[i]]
  BY <1>2 DEF Leads
<1>4. PICK r \in written : r.id = ids[i]
  BY <1>1, <1>3 DEF OrderInv, RelationsOK
<1>5. Uses(r) /\ Located(r.target) = ordered[i]
  BY <1>1, <1>2, <1>3, <1>4 DEF OrderInv, RelationsOK
<1>6. \A s \in written : s.id = r.id => s = r
  BY <1>1 DEF OrderInv, RelationsOK
<1>7. QED
  BY <1>1, <1>2, <1>4, <1>5, <1>6 DEF Uses

-----------------------------------------------------------------------------
(* The manifest.  Which element is around a tag is told by counting the     *)
(* tags that open and close; the walk keeps the names of those around it.   *)

LogTag == [tag : {"open", "empty", "close"}, name : {"item", "container", "other"},
           id : RelId \cup {Missing}]

\* The definitions of OfficeOrder, of any log.
CountOf(l, tag, i, j) == Cardinality({k \in i .. j : l[k].tag = tag})
Depth(l, n) == CountOf(l, "open", 1, n) - CountOf(l, "close", 1, n)
OpenAt(l, i) ==
  {j \in 1 .. i - 1 :
     l[j].tag = "open" /\ CountOf(l, "open", j + 1, i - 1) = CountOf(l, "close", j + 1, i - 1)}
AroundIn(l, i) ==
  IF OpenAt(l, i) = {} THEN 0 ELSE CHOOSE j \in OpenAt(l, i) : \A k \in OpenAt(l, i) : k <= j
ListedIn(l, i) ==
  /\ l[i].tag # "close" /\ l[i].name = "item"
  /\ AroundIn(l, i) # 0 /\ l[AroundIn(l, i)].name = "container"
Lists(l) == FlattenSeq([i \in 1 .. Len(l) |-> IF ListedIn(l, i) THEN <<l[i].id>> ELSE <<>>])

\* The element that is open at a level is the last one that was opened there.
OpensLevel(l, j, k) == l[j].tag = "open" /\ Depth(l, j) = k
Levels(l, levels) ==
  /\ l \in Seq(LogTag) /\ levels \in Seq({"item", "container", "other"})
  /\ Depth(l, Len(l)) = Len(levels)
  /\ \A i \in 1 .. Len(l) : l[i].tag = "open" => Depth(l, i) >= 1
  /\ \A k \in 1 .. Len(levels) :
       \E j \in 1 .. Len(l) :
         /\ OpensLevel(l, j, k) /\ l[j].name = levels[k]
         /\ \A i \in j + 1 .. Len(l) : ~OpensLevel(l, i, k)

\* Tags are counted one by one.
LEMMA CountGrows ==
  ASSUME NEW l, NEW tag, NEW i \in Nat, NEW j \in Nat, i <= j + 1
  PROVE  /\ CountOf(l, tag, i, j) \in Nat
         /\ CountOf(l, tag, i, j + 1) = CountOf(l, tag, i, j) + IF l[j + 1].tag = tag THEN 1 ELSE 0
<1> DEFINE A == {k \in i .. j : l[k].tag = tag}
           B == {k \in i .. j + 1 : l[k].tag = tag}
<1>1. IsFiniteSet(i .. j)
  BY FS_Interval
<1>2. IsFiniteSet(A)
  BY <1>1, FS_Subset
<1>3. Cardinality(A) \in Nat
  BY <1>2, FS_CardinalityType
<1>4. j + 1 \notin A
  OBVIOUS
<1>5. CASE l[j + 1].tag = tag
  <2>1. B = A \cup {j + 1}
    BY <1>5
  <2> HIDE DEF A, B
  <2>2. Cardinality(B) = Cardinality(A) + 1
    BY <1>2, <1>4, <2>1, FS_AddElement
  <2>3. QED
    BY <1>3, <1>5, <2>2 DEF A, B, CountOf
<1>6. CASE l[j + 1].tag # tag
  <2>1. B = A
    BY <1>6
  <2>2. CountOf(l, tag, i, j) = Cardinality(A) /\ CountOf(l, tag, i, j + 1) = Cardinality(B)
    BY DEF CountOf
  <2> HIDE DEF A, B
  <2>3. QED
    BY <1>3, <1>6, <2>1, <2>2
<1>7. QED
  BY <1>5, <1>6

\* No tag is counted where there is none.
LEMMA CountOfNone ==
  ASSUME NEW l, NEW tag, NEW i \in Nat
  PROVE  CountOf(l, tag, i + 1, i) = 0
<1>1. {k \in i + 1 .. i : l[k].tag = tag} = {}
  OBVIOUS
<1>2. QED
  BY <1>1, FS_EmptySet DEF CountOf

\* The tags up to one place, and those behind it.
LEMMA CountSplits ==
  ASSUME NEW l, NEW tag, NEW j \in Nat, NEW n \in Nat, j <= n
  PROVE  /\ CountOf(l, tag, 1, j) \in Nat /\ CountOf(l, tag, j + 1, n) \in Nat
         /\ CountOf(l, tag, 1, n) = CountOf(l, tag, 1, j) + CountOf(l, tag, j + 1, n)
<1> DEFINE T == {m \in Nat : /\ CountOf(l, tag, j + 1, j + m) \in Nat
                             /\ CountOf(l, tag, 1, j + m)
                                  = CountOf(l, tag, 1, j) + CountOf(l, tag, j + 1, j + m)}
<1>1. CountOf(l, tag, 1, j) \in Nat
  BY CountGrows
<1>2. 0 \in T
  <2>1. j + 0 = j /\ CountOf(l, tag, j + 1, j) = 0
    BY CountOfNone
  <2>2. QED
    BY <1>1, <2>1
<1>3. ASSUME NEW m \in Nat, m \in T PROVE m + 1 \in T
  <2> DEFINE k == j + m
  <2>1. k \in Nat /\ j + 1 <= k + 1 /\ 1 <= k + 1 /\ j + (m + 1) = k + 1 /\ j + 1 \in Nat
    OBVIOUS
  <2>2. /\ CountOf(l, tag, j + 1, k) \in Nat
        /\ CountOf(l, tag, 1, k) = CountOf(l, tag, 1, j) + CountOf(l, tag, j + 1, k)
    BY <1>3
  <2> HIDE DEF k
  <2>3. CountOf(l, tag, 1, k + 1) = CountOf(l, tag, 1, k) + IF l[k + 1].tag = tag THEN 1 ELSE 0
    BY <2>1, CountGrows
  <2>4. /\ CountOf(l, tag, j + 1, k + 1) = CountOf(l, tag, j + 1, k) + IF l[k + 1].tag = tag THEN 1 ELSE 0
    BY <2>1, CountGrows
  <2>5. /\ CountOf(l, tag, j + 1, k + 1) \in Nat
        /\ CountOf(l, tag, 1, k + 1) = CountOf(l, tag, 1, j) + CountOf(l, tag, j + 1, k + 1)
    BY <1>1, <2>2, <2>3, <2>4
  <2>6. QED
    BY <2>1, <2>5
<1>4. Nat \subseteq T
  <2> HIDE DEF T
  <2>1. QED
    BY <1>2, <1>3, SetInduction
<1>5. n - j \in T /\ j + (n - j) = n
  BY <1>4
<1>6. QED
  BY <1>1, <1>5

\* Counting looks at nothing but the tags that are counted.
LEMMA CountSame ==
  ASSUME NEW l, NEW m, NEW n \in Nat, \A k \in 1 .. n : l[k] = m[k]
  PROVE  /\ \A tag : \A i \in 1 .. n + 1 : \A j \in 0 .. n : CountOf(l, tag, i, j) = CountOf(m, tag, i, j)
         /\ \A j \in 0 .. n : Depth(l, j) = Depth(m, j)
<1>1. ASSUME NEW tag, NEW i \in 1 .. n + 1, NEW j \in 0 .. n
      PROVE  CountOf(l, tag, i, j) = CountOf(m, tag, i, j)
  <2>1. {k \in i .. j : l[k].tag = tag} = {k \in i .. j : m[k].tag = tag}
    OBVIOUS
  <2>2. QED
    BY <2>1 DEF CountOf
<1>2. ASSUME NEW j \in 0 .. n PROVE Depth(l, j) = Depth(m, j)
  BY <1>1 DEF Depth
<1>3. QED
  BY <1>1, <1>2

\* What is around a tag depends on those before it only.
LEMMA ListedSame ==
  ASSUME NEW l, NEW m, NEW i \in Nat \ {0}, \A k \in 1 .. i - 1 : l[k] = m[k]
  PROVE  /\ AroundIn(l, i) = AroundIn(m, i)
         /\ AroundIn(l, i) \in 0 .. i - 1
         /\ AroundIn(l, i) # 0 =>
              AroundIn(l, i) \in OpenAt(l, i) /\ \A k \in OpenAt(l, i) : k <= AroundIn(l, i)
         /\ l[i] = m[i] => (ListedIn(l, i) <=> ListedIn(m, i))
<1> DEFINE S == OpenAt(l, i)
<1>1. OpenAt(l, i) = OpenAt(m, i)
  <2>1. ASSUME NEW j \in 1 .. i - 1, NEW tag
        PROVE  CountOf(l, tag, j + 1, i - 1) = CountOf(m, tag, j + 1, i - 1)
    <3>1. i - 1 \in Nat /\ j + 1 \in 1 .. (i - 1) + 1 /\ i - 1 \in 0 .. i - 1
      OBVIOUS
    <3>2. QED
      BY <3>1, CountSame
  <2>2. QED
    BY <2>1 DEF OpenAt
<1>2. AroundIn(l, i) = AroundIn(m, i)
  BY <1>1 DEF AroundIn
<1>3. S \in SUBSET (0 .. i - 1) /\ 0 \notin S /\ i - 1 \in Nat
  BY DEF OpenAt
<1> HIDE DEF S
<1>4. S # {} => \E j \in S : \A k \in S : k <= j
  BY <1>3, MaxOfSet
<1>5. AroundIn(l, i) = IF S = {} THEN 0 ELSE CHOOSE j \in S : \A k \in S : k <= j
  BY DEF AroundIn, S
<1>6. AroundIn(l, i) # 0 => AroundIn(l, i) \in S /\ \A k \in S : k <= AroundIn(l, i)
  BY <1>4, <1>5
<1>7. AroundIn(l, i) \in 0 .. i - 1
  <2>1. ASSUME AroundIn(l, i) # 0 PROVE AroundIn(l, i) \in 0 .. i - 1
    BY <1>3, <1>6, <2>1
  <2>2. 0 \in 0 .. i - 1
    BY <1>3
  <2>3. QED
    BY <2>1, <2>2
<1>8. ASSUME l[i] = m[i] PROVE ListedIn(l, i) <=> ListedIn(m, i)
  <2>1. AroundIn(l, i) # 0 => l[AroundIn(l, i)] = m[AroundIn(l, i)]
    BY <1>7
  <2>2. QED
    BY <1>2, <1>8, <2>1 DEF ListedIn
<1>9. QED
  BY <1>2, <1>6, <1>7, <1>8 DEF S

\* The element around the next tag is the one whose name the walk has last.
LEMMA AroundNext ==
  ASSUME NEW l, NEW levels, Levels(l, levels)
  PROVE  LET a == AroundIn(l, Len(l) + 1)
         IN  /\ levels = <<>> => a = 0
             /\ levels # <<>> => a \in 1 .. Len(l) /\ l[a].name = Last(levels)
<1> DEFINE n == Len(l)
           a == AroundIn(l, n + 1)
           d == Len(levels)
<1>1. /\ n \in Nat /\ d \in Nat /\ Depth(l, n) = d
      /\ \A i \in 1 .. n : l[i].tag = "open" => Depth(l, i) >= 1
      /\ levels = <<>> <=> d = 0
  BY DEF Levels
<1>2. \A j \in 1 .. n : j \in OpenAt(l, n + 1) <=> OpensLevel(l, j, d)
  <2>1. ASSUME NEW j \in 1 .. n
        PROVE  CountOf(l, "open", j + 1, n) = CountOf(l, "close", j + 1, n) <=> Depth(l, j) = d
    <3>1. j \in Nat /\ j <= n
      OBVIOUS
    <3>2. /\ CountOf(l, "open", 1, j) \in Nat /\ CountOf(l, "open", j + 1, n) \in Nat
          /\ CountOf(l, "open", 1, n) = CountOf(l, "open", 1, j) + CountOf(l, "open", j + 1, n)
      BY <1>1, <3>1, CountSplits
    <3>3. /\ CountOf(l, "close", 1, j) \in Nat /\ CountOf(l, "close", j + 1, n) \in Nat
          /\ CountOf(l, "close", 1, n) = CountOf(l, "close", 1, j) + CountOf(l, "close", j + 1, n)
      BY <1>1, <3>1, CountSplits
    <3>4. /\ Depth(l, j) = CountOf(l, "open", 1, j) - CountOf(l, "close", 1, j)
          /\ d = CountOf(l, "open", 1, n) - CountOf(l, "close", 1, n)
      BY <1>1 DEF Depth
    <3>5. QED
      BY <3>2, <3>3, <3>4
  <2>2. (n + 1) - 1 = n
    BY <1>1
  <2>3. QED
    BY <2>1, <2>2 DEF OpenAt, OpensLevel
<1>3. OpenAt(l, n + 1) \subseteq 1 .. n
  BY <1>1 DEF OpenAt
<1>4. /\ a # 0 => a \in OpenAt(l, n + 1) /\ \A k \in OpenAt(l, n + 1) : k <= a
      /\ OpenAt(l, n + 1) = {} => a = 0
      /\ OpenAt(l, n + 1) # {} => a # 0
  <2>1. n + 1 \in Nat \ {0}
    BY <1>1
  <2>2. a # 0 => a \in OpenAt(l, n + 1) /\ \A k \in OpenAt(l, n + 1) : k <= a
    BY <2>1, ListedSame
  <2>3. OpenAt(l, n + 1) = {} => a = 0
    BY DEF AroundIn
  <2>4. ASSUME OpenAt(l, n + 1) # {} PROVE a # 0
    <3> DEFINE S == OpenAt(l, n + 1)
    <3>1. S \in SUBSET (0 .. n) /\ S # {} /\ 0 \notin S
      BY <1>1, <1>3, <2>4
    <3>2. a = CHOOSE j \in S : \A k \in S : k <= j
      BY <2>4 DEF AroundIn
    <3> HIDE DEF S, a
    <3>3. \E j \in S : \A k \in S : k <= j
      BY <1>1, <3>1, MaxOfSet
    <3>4. a \in S
      BY <3>2, <3>3
    <3>5. QED
      BY <3>1, <3>4
  <2>5. QED
    BY <2>2, <2>3, <2>4
<1> HIDE DEF a
<1>5. ASSUME levels = <<>> PROVE a = 0
  <2>1. ASSUME NEW j \in OpenAt(l, n + 1) PROVE FALSE
    <3>1. j \in 1 .. n /\ OpensLevel(l, j, 0)
      BY <1>1, <1>2, <1>3, <1>5
    <3>2. QED
      BY <1>1, <3>1 DEF OpensLevel
  <2>2. QED
    BY <1>4, <2>1
<1>6. ASSUME levels # <<>> PROVE a \in 1 .. n /\ l[a].name = Last(levels)
  <2>1. d \in 1 .. d /\ Last(levels) = levels[d]
    BY <1>1, <1>6 DEF Last
  <2>2. PICK j \in 1 .. n : /\ OpensLevel(l, j, d) /\ l[j].name = levels[d]
                            /\ \A i \in j + 1 .. n : ~OpensLevel(l, i, d)
    BY <2>1 DEF Levels
  <2>3. j \in OpenAt(l, n + 1)
    BY <1>2, <2>2
  <2>4. a \in OpenAt(l, n + 1) /\ j <= a /\ a \in 1 .. n
    BY <1>3, <1>4, <2>3
  <2>5. OpensLevel(l, a, d)
    BY <1>2, <2>4
  <2>6. a = j
    <3>1. a \notin j + 1 .. n
      BY <2>2, <2>5
    <3>2. QED
      BY <1>1, <2>4, <3>1
  <2>7. QED
    BY <2>1, <2>2, <2>4, <2>6
<1>7. QED
  BY <1>5, <1>6 DEF a

\* What a further tag does to the names that are kept: one that opens adds its
\* name, a self-closing one leaves them, one that closes takes the last away.
LEMMA LevelsGrow ==
  ASSUME NEW l, NEW levels, Levels(l, levels), NEW x \in LogTag
  PROVE  LET m == Append(l, x)
         IN  /\ x.tag = "open" => Levels(m, Append(levels, x.name))
             /\ x.tag = "empty" => Levels(m, levels)
             /\ x.tag = "close" /\ levels # <<>> => Levels(m, Front(levels))
<1> DEFINE m == Append(l, x)
           n == Len(l)
           d == Len(levels)
           N == {"item", "container", "other"}
<1>1. /\ n \in Nat /\ d \in Nat /\ l \in Seq(LogTag) /\ levels \in Seq(N) /\ Depth(l, n) = d
      /\ \A i \in 1 .. n : l[i].tag = "open" => Depth(l, i) >= 1
      /\ \A k \in 1 .. d :
           \E j \in 1 .. n : /\ OpensLevel(l, j, k) /\ l[j].name = levels[k]
                             /\ \A i \in j + 1 .. n : ~OpensLevel(l, i, k)
  BY DEF Levels
<1>2. m \in Seq(LogTag) /\ Len(m) = n + 1 /\ m[n + 1] = x /\ \A k \in 1 .. n : l[k] = m[k]
  BY <1>1
<1>3. x.tag \in {"open", "empty", "close"} /\ x.name \in N
  BY DEF LogTag
<1> HIDE DEF m, n, d, N
<1>4. \A j \in 0 .. n : Depth(l, j) = Depth(m, j)
  BY <1>1, <1>2, CountSame
<1>5. Depth(m, n + 1) = IF x.tag = "open" THEN d + 1 ELSE IF x.tag = "close" THEN d - 1 ELSE d
  <2>1. 1 \in Nat /\ 1 <= n + 1 /\ n \in 0 .. n
    BY <1>1
  <2>2. /\ CountOf(m, "open", 1, n) \in Nat
        /\ CountOf(m, "open", 1, n + 1)
             = CountOf(m, "open", 1, n) + IF m[n + 1].tag = "open" THEN 1 ELSE 0
    BY <1>1, <2>1, CountGrows
  <2>3. /\ CountOf(m, "close", 1, n) \in Nat
        /\ CountOf(m, "close", 1, n + 1)
             = CountOf(m, "close", 1, n) + IF m[n + 1].tag = "close" THEN 1 ELSE 0
    BY <1>1, <2>1, CountGrows
  <2>4. CountOf(m, "open", 1, n) - CountOf(m, "close", 1, n) = d
    BY <1>1, <1>4, <2>1 DEF Depth
  <2>5. Depth(m, n + 1) = CountOf(m, "open", 1, n + 1) - CountOf(m, "close", 1, n + 1)
    BY DEF Depth
  <2>6. QED
    BY <1>1, <1>2, <2>2, <2>3, <2>4, <2>5
<1>6. ASSUME NEW j \in 1 .. n, NEW k PROVE OpensLevel(m, j, k) <=> OpensLevel(l, j, k)
  <2>1. j \in 0 .. n
    BY <1>1
  <2>2. QED
    BY <1>2, <1>4, <2>1 DEF OpensLevel
<1>7. ASSUME x.tag # "open", NEW k PROVE ~OpensLevel(m, n + 1, k)
  BY <1>2, <1>7 DEF OpensLevel
\* The names that were there are still those of the elements that are open.
<1>8. ASSUME NEW k \in 1 .. d, ~OpensLevel(m, n + 1, k)
      PROVE  \E j \in 1 .. n + 1 : /\ OpensLevel(m, j, k) /\ m[j].name = levels[k]
                                   /\ \A i \in j + 1 .. n + 1 : ~OpensLevel(m, i, k)
  <2>1. PICK j \in 1 .. n : /\ OpensLevel(l, j, k) /\ l[j].name = levels[k]
                            /\ \A i \in j + 1 .. n : ~OpensLevel(l, i, k)
    BY <1>1
  <2>2. ASSUME NEW i \in j + 1 .. n + 1 PROVE ~OpensLevel(m, i, k)
    <3>1. CASE i = n + 1
      BY <1>8, <3>1
    <3>2. CASE i # n + 1
      <4>1. i \in j + 1 .. n /\ i \in 1 .. n
        BY <1>1, <3>2
      <4>2. QED
        BY <1>6, <2>1, <4>1
    <3>3. QED
      BY <3>1, <3>2
  <2>3. j \in 1 .. n + 1 /\ OpensLevel(m, j, k) /\ m[j].name = levels[k]
    BY <1>1, <1>2, <1>6, <2>1
  <2>4. QED
    BY <2>2, <2>3
<1>9. ASSUME NEW i \in 1 .. n, m[i].tag = "open" PROVE Depth(m, i) >= 1
  <2>1. i \in 0 .. n /\ l[i].tag = "open"
    BY <1>1, <1>2, <1>9
  <2>2. QED
    BY <1>1, <1>4, <2>1
<1>10. ASSUME x.tag = "open" PROVE Levels(m, Append(levels, x.name))
  <2> DEFINE t == Append(levels, x.name)
  <2>1. t \in Seq(N) /\ Len(t) = d + 1 /\ t[d + 1] = x.name /\ \A k \in 1 .. d : t[k] = levels[k]
    BY <1>1, <1>3 DEF d
  <2> HIDE DEF t
  <2>2. Depth(m, n + 1) = d + 1
    BY <1>5, <1>10
  <2>3. ASSUME NEW i \in 1 .. n + 1, m[i].tag = "open" PROVE Depth(m, i) >= 1
    <3>1. CASE i = n + 1
      BY <1>1, <2>2, <3>1
    <3>2. CASE i # n + 1
      <4>1. i \in 1 .. n
        BY <1>1, <3>2
      <4>2. QED
        BY <1>9, <2>3, <4>1
    <3>3. QED
      BY <3>1, <3>2
  <2>4. ASSUME NEW k \in 1 .. d + 1
        PROVE  \E j \in 1 .. n + 1 : /\ OpensLevel(m, j, k) /\ m[j].name = t[k]
                                     /\ \A i \in j + 1 .. n + 1 : ~OpensLevel(m, i, k)
    <3>1. CASE k = d + 1
      <4>1. n + 1 \in 1 .. n + 1 /\ (n + 1) + 1 .. n + 1 = {}
        BY <1>1
      <4>2. OpensLevel(m, n + 1, k) /\ m[n + 1].name = t[k]
        BY <1>2, <1>10, <2>1, <2>2, <3>1 DEF OpensLevel
      <4>3. QED
        BY <4>1, <4>2
    <3>2. CASE k # d + 1
      <4>1. k \in 1 .. d
        BY <1>1, <3>2
      <4>2. ~OpensLevel(m, n + 1, k)
        BY <2>2, <3>2 DEF OpensLevel
      <4>3. QED
        BY <1>8, <2>1, <4>1, <4>2
    <3>3. QED
      BY <3>1, <3>2
  <2>5. QED
    BY <1>2, <2>1, <2>2, <2>3, <2>4 DEF Levels, N, t
<1>11. ASSUME x.tag # "open", NEW i \in 1 .. n + 1, m[i].tag = "open" PROVE Depth(m, i) >= 1
  <2>1. i # n + 1
    BY <1>2, <1>11
  <2>2. i \in 1 .. n
    BY <1>1, <2>1
  <2>3. QED
    BY <1>9, <1>11, <2>2
<1>12. ASSUME x.tag = "empty" PROVE Levels(m, levels)
  <2>1. Depth(m, n + 1) = d
    BY <1>5, <1>12
  <2>2. x.tag # "open"
    BY <1>12
  <2>3. \A k \in 1 .. d : ~OpensLevel(m, n + 1, k)
    BY <1>7, <2>2
  <2>4. \A i \in 1 .. n + 1 : m[i].tag = "open" => Depth(m, i) >= 1
    BY <1>11, <2>2
  <2>5. \A k \in 1 .. d : \E j \in 1 .. n + 1 : /\ OpensLevel(m, j, k) /\ m[j].name = levels[k]
                                                /\ \A i \in j + 1 .. n + 1 : ~OpensLevel(m, i, k)
    BY <1>8, <2>3
  <2>6. QED
    BY <1>1, <1>2, <2>1, <2>4, <2>5 DEF Levels, N, d
<1>13. ASSUME x.tag = "close", levels # <<>> PROVE Levels(m, Front(levels))
  <2> DEFINE t == Front(levels)
  <2>1. t \in Seq(N) /\ Len(t) = d - 1 /\ \A k \in 1 .. d - 1 : t[k] = levels[k]
    BY <1>1, <1>13, FrontAndLast DEF d
  <2> HIDE DEF t
  <2>2. Depth(m, n + 1) = d - 1
    BY <1>5, <1>13
  <2>3. x.tag # "open"
    BY <1>13
  <2>4. \A i \in 1 .. n + 1 : m[i].tag = "open" => Depth(m, i) >= 1
    BY <1>11, <2>3
  <2>5. ASSUME NEW k \in 1 .. d - 1
        PROVE  \E j \in 1 .. n + 1 : /\ OpensLevel(m, j, k) /\ m[j].name = t[k]
                                     /\ \A i \in j + 1 .. n + 1 : ~OpensLevel(m, i, k)
    <3>1. k \in 1 .. d /\ ~OpensLevel(m, n + 1, k)
      BY <1>1, <1>7, <2>3
    <3>2. QED
      BY <1>8, <2>1, <3>1
  <2>6. QED
    BY <1>2, <2>1, <2>2, <2>4, <2>5 DEF Levels, N, t
<1>14. QED
  BY <1>10, <1>12, <1>13 DEF m

\* A further tag is listed if it begins an item right below a container; those
\* before it are listed as they were.
LEMMA ListsGrow ==
  ASSUME NEW l, NEW levels, Levels(l, levels), NEW x \in LogTag
  PROVE  Lists(Append(l, x)) =
           IF x.tag # "close" /\ x.name = "item" /\ levels # <<>> /\ Last(levels) = "container"
           THEN Append(Lists(l), x.id) ELSE Lists(l)
<1> DEFINE m == Append(l, x)
           n == Len(l)
           S == RelId \cup {Missing}
           Row(y, i) == IF ListedIn(y, i) THEN <<y[i].id>> ELSE <<>>
           r == [i \in 1 .. n |-> Row(l, i)]
           new == Row(m, n + 1)
           s == [i \in 1 .. Len(m) |-> Row(m, i)]
<1>1. l \in Seq(LogTag) /\ n \in Nat
  BY DEF Levels
<1>2. m \in Seq(LogTag) /\ Len(m) = n + 1 /\ m[n + 1] = x /\ \A k \in 1 .. n : l[k] = m[k]
  BY <1>1
<1>3. Lists(l) = FlattenSeq(r) /\ Lists(m) = FlattenSeq(s)
  BY DEF Lists
<1>4. \A y \in LogTag : y.id \in S
  BY DEF LogTag
<1> HIDE DEF m, n, S
<1>5. ASSUME NEW y \in LogTag PROVE <<y.id>> \in Seq(S) /\ <<>> \in Seq(S)
  BY <1>4
<1>6. ASSUME NEW i \in 1 .. n PROVE Row(l, i) = Row(m, i) /\ Row(l, i) \in Seq(S)
  <2>1. i \in Nat \ {0} /\ (\A k \in 1 .. i - 1 : l[k] = m[k]) /\ l[i] = m[i]
    BY <1>1, <1>2
  <2>2. ListedIn(l, i) <=> ListedIn(m, i)
    BY <2>1, ListedSame
  <2>3. l[i] \in LogTag
    BY <1>1 DEF n
  <2>4. <<l[i].id>> \in Seq(S) /\ <<>> \in Seq(S)
    BY <1>5, <2>3
  <2>5. QED
    BY <2>1, <2>2, <2>4
<1>7. new \in Seq(S) /\ new = IF ListedIn(m, n + 1) THEN <<x.id>> ELSE <<>>
  BY <1>2, <1>5
<1>8. s = [i \in 1 .. n + 1 |-> Row(m, i)]
  BY <1>2
<1> HIDE DEF Row
<1>9. r \in Seq(Seq(S)) /\ Len(r) = n /\ \A i \in 1 .. n : r[i] = Row(l, i)
  BY <1>1, <1>6
<1>10. Len(s) = n + 1 /\ s[n + 1] = new /\ \A i \in 1 .. n : s[i] = r[i]
  <2>1. n + 1 \in Nat /\ n + 1 \in 1 .. n + 1 /\ \A i \in 1 .. n : i \in 1 .. n + 1
    BY <1>1
  <2>2. QED
    BY <1>6, <1>8, <1>9, <2>1
<1>11. s \in Seq(Seq(S))
  <2>1. ASSUME NEW i \in 1 .. n + 1 PROVE Row(m, i) \in Seq(S)
    <3>1. i = n + 1 \/ i \in 1 .. n
      BY <1>1
    <3>2. QED
      BY <1>6, <1>7, <3>1
  <2>2. QED
    BY <1>1, <1>8, <2>1
<1> HIDE DEF r, s, new
<1>12. Append(r, new) \in Seq(Seq(S)) /\ s = Append(r, new)
  <2>1. /\ Append(r, new) \in Seq(Seq(S)) /\ Len(Append(r, new)) = n + 1
        /\ Append(r, new)[n + 1] = new /\ \A i \in 1 .. n : Append(r, new)[i] = r[i]
    BY <1>1, <1>7, <1>9
  <2>2. ASSUME NEW i \in 1 .. Len(s) PROVE s[i] = Append(r, new)[i]
    <3>1. i = n + 1 \/ i \in 1 .. n
      BY <1>1, <1>10
    <3>2. QED
      BY <1>10, <2>1, <3>1
  <2>3. QED
    BY <1>10, <1>11, <2>1, <2>2, SameSequence
<1>13. Lists(m) = Lists(l) \o new /\ Lists(l) \in Seq(S)
  <2>1. FlattenSeq(r) \in Seq(S)
    BY <1>9, FlattenTyped
  <2>2. FlattenSeq(Append(r, new)) = FlattenSeq(r) \o new
    BY <1>7, <1>9, FlattenGrows
  <2>3. QED
    BY <1>3, <1>12, <2>1, <2>2
<1> DEFINE listed == x.tag # "close" /\ x.name = "item" /\ levels # <<>> /\ Last(levels) = "container"
<1>14. ListedIn(m, n + 1) <=> listed
  <2>1. n + 1 \in Nat \ {0} /\ \A k \in 1 .. (n + 1) - 1 : l[k] = m[k]
    BY <1>1, <1>2
  <2>2. AroundIn(l, n + 1) = AroundIn(m, n + 1)
    BY <2>1, ListedSame
  <2>3. /\ levels = <<>> => AroundIn(l, n + 1) = 0
        /\ levels # <<>> => /\ AroundIn(l, n + 1) \in 1 .. n
                           /\ l[AroundIn(l, n + 1)].name = Last(levels)
    BY AroundNext DEF n
  <2>4. ASSUME levels # <<>>
        PROVE  AroundIn(m, n + 1) # 0 /\ m[AroundIn(m, n + 1)].name = Last(levels)
    BY <1>1, <1>2, <2>2, <2>3, <2>4
  <2>5. QED
    BY <1>2, <2>2, <2>3, <2>4 DEF ListedIn
<1>15. new = IF listed THEN <<x.id>> ELSE <<>>
  BY <1>7, <1>14
<1> HIDE DEF listed
<1>16. CASE listed
  <2>1. x.id \in S
    BY <1>4
  <2>2. Append(Lists(l), x.id) = Lists(l) \o <<x.id>>
    BY <1>13, <2>1, AppendIsConcat
  <2>3. QED
    BY <1>13, <1>15, <1>16, <2>2 DEF m, listed
<1>17. CASE ~listed
  <2>1. Lists(l) \o <<>> = Lists(l)
    BY <1>13, ConcatAssociates
  <2>2. QED
    BY <1>13, <1>15, <1>17, <2>1 DEF m, listed
<1>18. QED
  BY <1>16, <1>17

\* While the manifest is read, the names that are kept are those of the open
\* elements, and the identifiers those of the listed ones.
ManifestInv ==
  /\ orderStage = "waiting" => log = <<>> /\ parents = <<>> /\ ids = <<>>
  /\ orderStage = "manifest" => Levels(log, parents) /\ ids = Lists(log)

\* A manifest of no tags lists nothing.
LEMMA NothingListed ==
  Levels(<<>>, <<>>) /\ Lists(<<>>) = <<>>
<1>1. Len(<<>>) = 0 /\ <<>> \in Seq(LogTag) /\ <<>> \in Seq({"item", "container", "other"})
  OBVIOUS
<1>2. 0 \in Nat /\ 0 + 1 = 1
  OBVIOUS
<1>3. \A tag : CountOf(<<>>, tag, 1, 0) = 0
  BY <1>2, CountOfNone
<1>4. Depth(<<>>, 0) = 0
  BY <1>3 DEF Depth
<1>5. Levels(<<>>, <<>>)
  BY <1>1, <1>4 DEF Levels
<1>6. [i \in 1 .. 0 |-> IF ListedIn(<<>>, i) THEN <<<<>>[i].id>> ELSE <<>>] = <<>>
  OBVIOUS
<1>7. Lists(<<>>) = <<>>
  BY <1>1, <1>6 DEF Lists, FlattenSeq
<1>8. QED
  BY <1>5, <1>7

\* The beginning of an element is logged, named and listed.
LEMMA ListElementLogs ==
  ASSUME ManifestInv, NEW element \in Listing \cup Plain, NEW empty \in BOOLEAN,
         ListElement(element, empty)
  PROVE  ManifestInv'
<1> DEFINE x == [tag |-> IF empty THEN "empty" ELSE "open", name |-> element.name, id |-> element.id]
           listed == element.name = "item" /\ Parent = "container"
<1>1. /\ orderStage = "manifest" /\ log' = Append(log, x)
      /\ \/ orderStage' = "invalid"
         \/ /\ orderStage' = orderStage
            /\ parents' = IF empty THEN parents ELSE Append(parents, element.name)
            /\ ids' = IF listed THEN Append(ids, element.id) ELSE ids
  BY DEF ListElement, Invalid, Enter
<1>2. Levels(log, parents) /\ ids = Lists(log)
  BY <1>1 DEF ManifestInv
<1>3. x \in LogTag
  BY DEF LogTag, Listing, Plain
<1>4. Parent = "container" <=> parents # <<>> /\ Last(parents) = "container"
  BY DEF Parent
<1>5. x.tag # "close" /\ x.name = element.name /\ x.id = element.id
      /\ x.tag = IF empty THEN "empty" ELSE "open"
  OBVIOUS
<1> HIDE DEF x
<1>6. ASSUME orderStage' = orderStage PROVE Levels(log', parents') /\ ids' = Lists(log')
  <2>1. parents' = IF empty THEN parents ELSE Append(parents, element.name)
    BY <1>1, <1>6
  <2>2. ids' = IF listed THEN Append(ids, element.id) ELSE ids
    BY <1>1, <1>6
  <2>3. Levels(log', parents')
    BY <1>1, <1>2, <1>3, <1>5, <2>1, LevelsGrow
  <2>4. Lists(log') = IF listed THEN Append(Lists(log), element.id) ELSE Lists(log)
    BY <1>1, <1>2, <1>3, <1>4, <1>5, ListsGrow
  <2>5. QED
    BY <1>2, <2>2, <2>3, <2>4
<1>7. QED
  BY <1>1, <1>6 DEF ManifestInv

\* So is the end of one, which lists nothing.
LEMMA EndElementLogs ==
  ASSUME ManifestInv, EndElement
  PROVE  ManifestInv'
<1>1. orderStage' = orderStage /\ orderStage # "waiting"
  BY DEF EndElement
<1>2. ASSUME orderStage = "manifest" PROVE Levels(log', parents') /\ ids' = Lists(log')
  <2> DEFINE x == [tag |-> "close", name |-> Parent, id |-> Missing]
  <2>1. /\ log' = Append(log, x) /\ parents # <<>> /\ parents' = Front(parents) /\ ids' = ids
    BY <1>2 DEF EndElement
  <2>2. Levels(log, parents) /\ ids = Lists(log)
    BY <1>2 DEF ManifestInv
  <2>3. Parent \in {"item", "container", "other"}
    BY <2>1, <2>2, FrontAndLast DEF Levels, Parent
  <2>4. x \in LogTag /\ x.tag = "close"
    BY <2>3 DEF LogTag
  <2> HIDE DEF x
  <2>5. QED
    BY <2>1, <2>2, <2>4, LevelsGrow, ListsGrow
<1>3. QED
  BY <1>1, <1>2 DEF ManifestInv

(***************************************************************************)
(* Texts and their bytes.                                                  *)
(***************************************************************************)

\* The bytes of a text are the sum of those of its characters.
LEMMA BytesIsTotal ==
  ASSUME NEW S, NEW text \in Seq(S)
  PROVE  Bytes(text) = Total([i \in 1 .. Len(text) |-> text[i].w], Len(text))
<1> DEFINE n == Len(text)
           w == [i \in 1 .. n |-> text[i].w]
           Step(f, s) == IF s = {} THEN 0 ELSE f[s \ {Max(s)}] + text[Max(s)].w
<1>1. n \in Nat /\ DOMAIN text = 1 .. n
  OBVIOUS
<1>2. ASSUME NEW s \in SUBSET (1 .. n), s # {} PROVE w[Max(s)] = text[Max(s)].w
  <2>1. s \in SUBSET (0 .. n)
    OBVIOUS
  <2>2. Max(s) \in s
    BY <1>1, <1>2, <2>1, MaxOfSet
  <2>3. QED
    BY <2>2
<1>3. \A f : IsTable(f, w, n) <=> f = [s \in SUBSET (DOMAIN text) |-> Step(f, s)]
  BY <1>1, <1>2 DEF IsTable
<1>4. PICK f : f = [s \in SUBSET (DOMAIN text) |-> Step(f, s)] /\ Bytes(text) = f[DOMAIN text]
  <2>1. \E f : f = [s \in SUBSET (DOMAIN text) |-> Step(f, s)]
    BY <1>1, <1>3, TableExists
  <2>2. QED
    BY <2>1 DEF Bytes, FoldLeft, MapThenFoldSet
<1>5. IsTable(f, w, n) /\ n \in Nat /\ n <= n
  <2>1. IsTable(f, w, n)
    <3> HIDE DEF n, w
    <3>1. QED
      BY <1>3, <1>4
  <2>2. QED
    BY <1>1, <2>1
<1>6. f[1 .. n] = Total(w, n)
  <2> HIDE DEF n, w
  <2>1. QED
    BY <1>5, TotalOfTable
<1>7. QED
  BY <1>1, <1>4, <1>6

\* The bytes of the texts of all sections.
SectionBytes(parts) == FoldLeft(LAMBDA n, s : n + Bytes(s.text), 0, parts)

\* They are a sum too.
LEMMA SectionBytesIsTotal ==
  ASSUME NEW S, NEW parts \in Seq(S)
  PROVE  SectionBytes(parts) = Total([i \in 1 .. Len(parts) |-> Bytes(parts[i].text)], Len(parts))
<1> DEFINE n == Len(parts)
           w == [i \in 1 .. n |-> Bytes(parts[i].text)]
           Step(f, s) == IF s = {} THEN 0 ELSE f[s \ {Max(s)}] + Bytes(parts[Max(s)].text)
<1>1. n \in Nat /\ DOMAIN parts = 1 .. n
  OBVIOUS
<1>2. ASSUME NEW s \in SUBSET (1 .. n), s # {} PROVE w[Max(s)] = Bytes(parts[Max(s)].text)
  <2>1. s \in SUBSET (0 .. n)
    OBVIOUS
  <2>2. Max(s) \in s
    BY <1>1, <1>2, <2>1, MaxOfSet
  <2>3. QED
    BY <2>2
<1>3. \A f : IsTable(f, w, n) <=> f = [s \in SUBSET (DOMAIN parts) |-> Step(f, s)]
  BY <1>1, <1>2 DEF IsTable
<1>4. PICK f : f = [s \in SUBSET (DOMAIN parts) |-> Step(f, s)] /\ SectionBytes(parts) = f[DOMAIN parts]
  <2>1. \E f : f = [s \in SUBSET (DOMAIN parts) |-> Step(f, s)]
    BY <1>1, <1>3, TableExists
  <2>2. QED
    BY <2>1 DEF SectionBytes, FoldLeft, MapThenFoldSet
<1>5. IsTable(f, w, n) /\ n \in Nat /\ n <= n
  <2>1. IsTable(f, w, n)
    <3> HIDE DEF n, w
    <3>1. QED
      BY <1>3, <1>4
  <2>2. QED
    BY <1>1, <2>1
<1>6. f[1 .. n] = Total(w, n)
  <2> HIDE DEF n, w
  <2>1. QED
    BY <1>5, TotalOfTable
<1>7. QED
  BY <1>1, <1>4, <1>6

\* How many bytes there are in no text, in some text and in two, one behind the other.
LEMMA BytesOfText ==
  ASSUME NEW s \in Seq(Char), NEW t \in Seq(Char)
  PROVE  /\ Bytes(<<>>) = 0
         /\ Bytes(s) \in Nat
         /\ Bytes(s \o t) = Bytes(s) + Bytes(t)
<1> DEFINE W(x) == [i \in 1 .. Len(x) |-> x[i].w]
<1>1. \A x \in Seq(Char) : Bytes(x) = Total(W(x), Len(x))
  BY BytesIsTotal
<1>2. \A x \in Seq(Char) : \A i \in 1 .. Len(x) : W(x)[i] \in Nat
  BY IntakeAssumption
<1>3. Bytes(<<>>) = 0
  <2>1. <<>> \in Seq(Char) /\ Len(<<>>) = 0
    OBVIOUS
  <2>2. QED
    BY <1>1, <2>1, TotalSteps
<1>4. Bytes(s) \in Nat
  <2>1. Len(s) \in Nat
    OBVIOUS
  <2> HIDE DEF W
  <2>2. Total(W(s), Len(s)) \in Nat
    BY <1>2, <2>1, TotalTyped
  <2>3. QED
    BY <1>1, <2>2
<1>5. Bytes(s \o t) = Bytes(s) + Bytes(t)
  <2> DEFINE m == Len(s)
             n == Len(t)
             w == W(s \o t)
  <2>1. /\ m \in Nat /\ n \in Nat /\ s \o t \in Seq(Char) /\ Len(s \o t) = m + n
        /\ \A i \in 1 .. m : (s \o t)[i] = s[i]
        /\ \A i \in 1 .. n : (s \o t)[m + i] = t[i] /\ m + i \in 1 .. m + n
    OBVIOUS
  <2>2. \A i \in 1 .. m + n : w[i] \in Nat
    BY <1>2, <2>1
  <2>3. \A i \in 1 .. n : W(t)[i] = w[m + i]
    BY <2>1
  <2>4. \A i \in 1 .. m : w[i] = W(s)[i]
    BY <2>1
  <2>5. Bytes(s \o t) = Total(w, m + n) /\ Bytes(s) = Total(W(s), m) /\ Bytes(t) = Total(W(t), n)
    BY <1>1, <2>1
  <2> HIDE DEF W, m, n, w
  <2>6. Total(w, m + n) = Total(w, m) + Total(W(t), n)
    BY <2>1, <2>2, <2>3, TotalSplit
  <2>7. Total(w, m) = Total(W(s), m)
    BY <2>1, <2>4, TotalSame
  <2>8. QED
    BY <2>5, <2>6, <2>7
<1>6. QED
  BY <1>3, <1>4, <1>5

\* A beginning, cell by cell.
LEMMA PrefixByElements ==
  ASSUME NEW S, NEW s \in Seq(S), NEW t \in Seq(S)
  PROVE  IsPrefix(s, t) <=> Len(s) <= Len(t) /\ \A i \in 1 .. Len(s) : s[i] = t[i]
<1>1. CASE Len(s) <= Len(t)
  <2>1. /\ SubSeq(s, 1, Len(s)) \in Seq(S) /\ SubSeq(t, 1, Len(s)) \in Seq(S)
        /\ Len(SubSeq(s, 1, Len(s))) = Len(s) /\ Len(SubSeq(t, 1, Len(s))) = Len(s)
        /\ \A i \in 1 .. Len(s) : SubSeq(s, 1, Len(s))[i] = s[i] /\ SubSeq(t, 1, Len(s))[i] = t[i]
    BY <1>1
  <2>2. QED
    BY <1>1, <2>1 DEF IsPrefix
<1>2. CASE ~ Len(s) <= Len(t)
  BY <1>2 DEF IsPrefix
<1>3. QED
  BY <1>1, <1>2

\* What fits is a beginning of the piece, and it fits.
LEMMA FittingFits ==
  ASSUME NEW piece \in Seq(Char), NEW room \in Nat
  PROVE  /\ Fitting(piece, room) \in Seq(Char)
         /\ Bytes(Fitting(piece, room)) <= room
         /\ Len(Fitting(piece, room)) <= Len(piece)
         /\ \A i \in 1 .. Len(Fitting(piece, room)) : Fitting(piece, room)[i] = piece[i]
         /\ Len(Fitting(piece, room)) = Len(piece) => Fitting(piece, room) = piece
<1> DEFINE N == {n \in 0 .. Len(piece) : Bytes(SubSeq(piece, 1, n)) <= room}
           fits(n) == /\ Bytes(SubSeq(piece, 1, n)) <= room
                      /\ n < Len(piece) => Bytes(SubSeq(piece, 1, n + 1)) > room
<1>1. \A n \in 0 .. Len(piece) : SubSeq(piece, 1, n) \in Seq(Char) /\ Bytes(SubSeq(piece, 1, n)) \in Nat
  <2>1. \A n \in 0 .. Len(piece) : SubSeq(piece, 1, n) \in Seq(Char)
    OBVIOUS
  <2>2. QED
    BY <2>1, BytesOfText
<1>2. \E n \in 0 .. Len(piece) : fits(n)
  <2>1. SubSeq(piece, 1, 0) = <<>>
    OBVIOUS
  <2>2. 0 \in N
    <3>1. Bytes(<<>>) = 0
      BY BytesOfText
    <3>2. Bytes(SubSeq(piece, 1, 0)) = 0
      BY <2>1, <3>1, Zenon
    <3>3. 0 \in 0 .. Len(piece)
      OBVIOUS
    <3>4. QED
      BY <3>2, <3>3
  <2>3. Len(piece) \in Nat /\ N \in SUBSET (0 .. Len(piece)) /\ N # {}
    BY <2>2
  <2>4. Max(N) \in N /\ \A i \in N : i <= Max(N)
    <3> HIDE DEF N
    <3>1. QED
      BY <2>3, MaxOfSet
  <2>5. Max(N) < Len(piece) => Max(N) + 1 \notin N /\ Max(N) + 1 \in 0 .. Len(piece)
    <3> HIDE DEF N
    <3>1. Max(N) \in 0 .. Len(piece)
      BY <2>3, <2>4
    <3>2. Max(N) + 1 \notin N
      BY <2>4, <3>1
    <3>3. QED
      BY <2>3, <3>1, <3>2
  <2>6. QED
    BY <1>1, <2>4, <2>5
<1>3. PICK n \in 0 .. Len(piece) : fits(n) /\ Fitting(piece, room) = SubSeq(piece, 1, n)
  BY <1>2 DEF Fitting
<1>4. /\ SubSeq(piece, 1, n) \in Seq(Char) /\ Len(SubSeq(piece, 1, n)) = n
      /\ \A i \in 1 .. n : SubSeq(piece, 1, n)[i] = piece[i]
  OBVIOUS
<1>5. n = Len(piece) => SubSeq(piece, 1, n) = piece
  OBVIOUS
<1>6. QED
  BY <1>3, <1>4, <1>5

(***************************************************************************)
(* Sinks, sections and budgets.                                            *)
(***************************************************************************)


\* A sink keeps a beginning of what it was offered, within its limit, and says
\* whether that is all.
SinkOK(s) ==
  /\ s \in SinkType
  /\ Bytes(s.text) <= s.limit
  /\ IsPrefix(s.text, s.whole)
  /\ s.cut <=> s.text # s.whole

\* A new sink is empty, and so is the one that nothing is written to.
LEMMA OpenedOK ==
  ASSUME NEW limit \in Nat
  PROVE  /\ SinkOK(Closed) /\ ~Closed.open /\ Closed.text = <<>>
         /\ SinkOK(Opened(limit)) /\ Opened(limit).open /\ Opened(limit).limit = limit
<1>1. Bytes(<<>>) = 0 /\ IsPrefix(<<>>, <<>>) /\ <<>> \in Seq(Char)
  <2>1. <<>> \in Seq(Char)
    OBVIOUS
  <2>2. Bytes(<<>>) = 0
    BY <2>1, BytesOfText
  <2>3. IsPrefix(<<>>, <<>>)
    BY DEF IsPrefix
  <2>4. QED
    BY <2>1, <2>2, <2>3
<1>2. /\ Closed \in SinkType /\ Closed.text = <<>> /\ Closed.whole = <<>> /\ ~Closed.cut
      /\ ~Closed.open /\ Closed.limit = 0
  BY DEF Closed, SinkType
<1>3. /\ Opened(limit) \in SinkType /\ Opened(limit).text = <<>> /\ Opened(limit).whole = <<>>
      /\ ~Opened(limit).cut /\ Opened(limit).open /\ Opened(limit).limit = limit
  BY <1>2 DEF Opened, SinkType
<1>4. SinkOK(Closed)
  BY <1>1, <1>2 DEF SinkOK
<1>5. SinkOK(Opened(limit))
  BY <1>1, <1>3 DEF SinkOK
<1>6. QED
  BY <1>2, <1>3, <1>4, <1>5

\* After a cut nothing is taken any more, and before one everything was.
LEMMA TakingOK ==
  ASSUME NEW s, SinkOK(s), NEW piece \in Seq(Char)
  PROVE  /\ SinkOK(Taking(s, piece))
         /\ Taking(s, piece).open = s.open /\ Taking(s, piece).limit = s.limit
<1> DEFINE kept == IF s.cut THEN <<>> ELSE Fitting(piece, s.limit - Bytes(s.text))
           r == Taking(s, piece)
<1>1. /\ s \in SinkType /\ s.whole \in Seq(Char) /\ s.text \in Seq(Char) /\ s.limit \in Nat
      /\ s.cut \in BOOLEAN /\ Bytes(s.text) \in Nat /\ Bytes(s.text) <= s.limit
      /\ s.cut <=> s.text # s.whole
  BY BytesOfText DEF SinkOK, SinkType
<1>2. /\ Len(s.text) <= Len(s.whole)
      /\ \A i \in 1 .. Len(s.text) : s.text[i] = s.whole[i]
  BY <1>1, PrefixByElements DEF SinkOK
<1>3. s.limit - Bytes(s.text) \in Nat
  BY <1>1
<1>4. /\ kept \in Seq(Char) /\ Len(kept) <= Len(piece)
      /\ \A i \in 1 .. Len(kept) : kept[i] = piece[i]
      /\ ~s.cut => Bytes(kept) <= s.limit - Bytes(s.text)
      /\ s.cut => kept = <<>>
      /\ ~s.cut /\ Len(kept) = Len(piece) => kept = piece
  <2> HIDE DEF r
  <2>1. CASE s.cut
    BY <2>1
  <2>2. CASE ~s.cut
    BY <1>3, <2>2, FittingFits
  <2>3. QED
    BY <2>1, <2>2
<1>5. /\ r \in SinkType /\ r.whole = s.whole \o piece /\ r.text = s.text \o kept
      /\ r.cut = (s.cut \/ kept # piece) /\ r.open = s.open /\ r.limit = s.limit
  <2>1. r = [s EXCEPT !.whole = @ \o piece, !.text = @ \o kept, !.cut = @ \/ kept # piece]
    BY DEF Taking
  <2> HIDE DEF kept, r
  <2>2. s.whole \o piece \in Seq(Char) /\ s.text \o kept \in Seq(Char)
    BY <1>1, <1>4
  <2>3. (s.cut \/ kept # piece) \in BOOLEAN
    OBVIOUS
  <2>4. QED
    BY <1>1, <2>1, <2>2, <2>3 DEF SinkType
<1> HIDE DEF kept, r
<1>6. /\ Len(r.text) = Len(s.text) + Len(kept) /\ Len(r.whole) = Len(s.whole) + Len(piece)
      /\ r.text \in Seq(Char) /\ r.whole \in Seq(Char)
      /\ \A i \in 1 .. Len(s.text) : r.text[i] = s.text[i]
      /\ \A i \in 1 .. Len(kept) : r.text[Len(s.text) + i] = kept[i]
      /\ \A i \in 1 .. Len(s.whole) : r.whole[i] = s.whole[i]
      /\ \A i \in 1 .. Len(piece) : r.whole[Len(s.whole) + i] = piece[i]
  BY <1>1, <1>4, <1>5
<1>7. CASE s.cut
  <2>1. r.text = s.text /\ Len(kept) = 0 /\ r.cut
    <3>1. kept = <<>> /\ s.text \o <<>> = s.text
      BY <1>1, <1>4, <1>7
    <3>2. QED
      BY <1>5, <1>7, <3>1
  <2>2. Len(s.text) < Len(s.whole)
    BY <1>1, <1>2, <1>7
  <2>3. r.text # r.whole
    BY <1>6, <2>1, <2>2
  <2>4. IsPrefix(r.text, r.whole)
    <3>1. Len(r.text) <= Len(r.whole) /\ \A i \in 1 .. Len(r.text) : r.text[i] = r.whole[i]
      BY <1>1, <1>2, <1>6, <2>1, <2>2
    <3>2. QED
      BY <1>6, <3>1, PrefixByElements
  <2>5. QED
    BY <1>1, <1>5, <2>1, <2>3, <2>4 DEF SinkOK, r
<1>8. CASE ~s.cut
  <2>1. s.text = s.whole /\ (r.cut <=> kept # piece)
    BY <1>1, <1>5, <1>8
  <2>2. IsPrefix(r.text, r.whole)
    <3>1. Len(r.text) <= Len(r.whole)
      BY <1>4, <1>6, <2>1
    <3>2. ASSUME NEW i \in 1 .. Len(r.text) PROVE r.text[i] = r.whole[i]
      <4>1. CASE i <= Len(s.text)
        BY <1>6, <2>1, <4>1
      <4>2. CASE i > Len(s.text)
        <5>1. PICK j \in 1 .. Len(kept) : i = Len(s.text) + j
          <6>1. i - Len(s.text) \in 1 .. Len(kept) /\ i = Len(s.text) + (i - Len(s.text))
            BY <1>1, <1>4, <1>6, <4>2
          <6>2. QED
            BY <6>1
        <5>2. r.text[i] = kept[j] /\ j \in 1 .. Len(piece)
          BY <1>4, <1>6, <5>1
        <5>3. r.whole[i] = piece[j]
          BY <1>6, <2>1, <5>1, <5>2
        <5>4. QED
          BY <1>4, <5>2, <5>3
      <4>3. QED
        BY <1>1, <1>6, <4>1, <4>2
    <3>3. QED
      BY <1>6, <3>1, <3>2, PrefixByElements
  <2>3. r.cut <=> r.text # r.whole
    <3>1. kept # piece => Len(kept) < Len(piece)
      BY <1>4, <1>8
    <3>2. kept # piece => Len(r.text) # Len(r.whole)
      BY <1>1, <1>4, <1>6, <2>1, <3>1
    <3>3. kept = piece => r.text = r.whole
      BY <1>5, <2>1
    <3>4. QED
      BY <2>1, <3>2, <3>3
  <2>4. Bytes(r.text) <= r.limit
    <3>1. Bytes(r.text) = Bytes(s.text) + Bytes(kept) /\ Bytes(kept) \in Nat
      BY <1>1, <1>4, <1>5, BytesOfText
    <3>2. QED
      BY <1>1, <1>4, <1>5, <1>8, <3>1
  <2>5. QED
    BY <1>5, <2>2, <2>3, <2>4 DEF SinkOK, r
<1>9. QED
  BY <1>1, <1>7, <1>8

SectionType == [whole : Seq(Char), text : Seq(Char), scanned : BOOLEAN]
Cut(i) == sections[i].text # sections[i].whole

\* The sink and the sections share one budget.
TextOK ==
  /\ SinkOK(sink)
  /\ sections \in Seq(SectionType)
  /\ remaining \in Nat /\ remaining + SectionBytes(sections) = MaxTextBytes
  /\ IF sink.open THEN sink.limit = remaining ELSE sink.text = <<>>

\* What each section has is known, and whether something is missing.
SectionsOK ==
  /\ \A i \in 1 .. Len(sections) :
       /\ IsPrefix(sections[i].text, sections[i].whole)
       /\ sections[i].scanned => ~office /\ AllBlank(sections[i].whole)
  /\ truncated <=> total > MaxSections \/ \E i \in 1 .. Len(sections) : Cut(i)

\* How far the extraction is.
ProgressOK ==
  /\ total \in Nat /\ expanded \in Nat
  /\ outcome # "ExtractionFailed" => expanded <= MaxExpanded
  /\ outcome = "Ok" => Len(sections) = Taken
  /\ walk \in {"admission", "order"} => sections = <<>>

\* Texts that wait to be read.
StringsOK == current \in Seq(Char) /\ pool \in Seq(Seq(Char))

IntakeInv == TextOK /\ SectionsOK /\ ProgressOK /\ StringsOK

\* The bytes of no section, and of one section more.
LEMMA BytesOfSections ==
  ASSUME NEW parts \in Seq(SectionType), NEW part \in SectionType
  PROVE  /\ SectionBytes(<<>>) = 0
         /\ SectionBytes(parts) \in Nat
         /\ SectionBytes(Append(parts, part)) = SectionBytes(parts) + Bytes(part.text)
<1> DEFINE W(x) == [i \in 1 .. Len(x) |-> Bytes(x[i].text)]
           n == Len(parts)
           longer == Append(parts, part)
<1>1. \A x \in Seq(SectionType) : SectionBytes(x) = Total(W(x), Len(x))
  BY SectionBytesIsTotal
<1>2. \A x \in Seq(SectionType) : \A i \in 1 .. Len(x) : W(x)[i] \in Nat
  <2>1. \A x \in Seq(SectionType) : \A i \in 1 .. Len(x) : x[i].text \in Seq(Char)
    <3>1. \A x \in Seq(SectionType) : \A i \in 1 .. Len(x) : x[i] \in SectionType
      OBVIOUS
    <3>2. \A y \in SectionType : y.text \in Seq(Char)
      BY DEF SectionType
    <3>3. QED
      BY <3>1, <3>2
  <2>2. \A x \in Seq(SectionType) : \A i \in 1 .. Len(x) : Bytes(x[i].text) \in Nat
    BY <2>1, BytesOfText
  <2>3. QED
    BY <2>2
<1>3. /\ n \in Nat /\ longer \in Seq(SectionType) /\ Len(longer) = n + 1 /\ longer[n + 1] = part
      /\ <<>> \in Seq(SectionType) /\ Len(<<>>) = 0
      /\ \A i \in 1 .. n : longer[i] = parts[i]
  OBVIOUS
<1>4. W(longer)[n + 1] = Bytes(part.text) /\ \A i \in 1 .. n : W(longer)[i] = W(parts)[i]
  BY <1>3
<1> HIDE DEF W, n, longer
<1>5. SectionBytes(<<>>) = 0
  BY <1>1, <1>3, TotalSteps
<1>6. SectionBytes(parts) = Total(W(parts), n) /\ Total(W(parts), n) \in Nat
  BY <1>1, <1>2, <1>3, TotalTyped DEF n
<1>7. SectionBytes(longer) = Total(W(longer), n) + W(longer)[n + 1]
  BY <1>1, <1>3, TotalSteps
<1>8. Total(W(longer), n) = Total(W(parts), n)
  BY <1>3, <1>4, TotalSame
<1>9. QED
  BY <1>4, <1>5, <1>6, <1>7, <1>8 DEF longer

\* The budgets and what is missing depend on this much.
LEMMA TextStutters ==
  /\ TextOK /\ UNCHANGED <<sections, sink, remaining>> => TextOK'
  /\ SectionsOK /\ UNCHANGED <<office, total, sections, truncated>> => SectionsOK'
<1>1. TextOK /\ UNCHANGED <<sections, sink, remaining>> => TextOK'
  BY DEF TextOK
<1>2. SectionsOK /\ UNCHANGED <<office, total, sections, truncated>> => SectionsOK'
  BY DEF SectionsOK, Cut
<1>3. QED
  BY <1>1, <1>2

\* Extraction goes on as before, or fails.
LEMMA FailureKeeps ==
  ASSUME IntakeInv,
         UNCHANGED <<office, total, sections, sink, remaining, expanded, truncated>>,
         outcome' \in {outcome, "ExtractionFailed"}, walk' = walk, StringsOK'
  PROVE  IntakeInv'
<1>1. TextOK' /\ SectionsOK'
  BY TextStutters DEF IntakeInv
<1>2. ProgressOK'
  BY DEF IntakeInv, ProgressOK, Taken
<1>3. QED
  BY <1>1, <1>2 DEF IntakeInv

\* At first nothing is kept and nothing is charged.
LEMMA IntakeInitially ==
  ASSUME IntakeInit, XmlInit
  PROVE  IntakeInv
<1>1. /\ sections = <<>> /\ sink = Closed /\ remaining = MaxTextBytes /\ expanded = 0
      /\ total \in Nat /\ truncated = (total > MaxSections) /\ outcome = "running"
      /\ MaxTextBytes \in Nat /\ MaxExpanded \in Nat /\ MaxSections \in Nat
  BY IntakeAssumption DEF IntakeInit
<1>2. SectionBytes(<<>>) = 0
  <2>1. <<>> \in Seq(SectionType) /\ [whole |-> <<>>, text |-> <<>>, scanned |-> TRUE] \in SectionType
    BY DEF SectionType
  <2>2. QED
    BY <2>1, BytesOfSections
<1>3. SinkOK(Closed) /\ ~Closed.open /\ Closed.text = <<>>
  BY OpenedOK
<1>4. TextOK
  BY <1>1, <1>2, <1>3 DEF TextOK
<1>5. SectionsOK
  <2>1. \A i \in 1 .. Len(sections) : FALSE
    BY <1>1
  <2>2. truncated <=> total > MaxSections
    BY <1>1
  <2>3. QED
    BY <2>1, <2>2 DEF SectionsOK
<1>6. ProgressOK
  BY <1>1 DEF ProgressOK
<1>7. StringsOK
  BY DEF StringsOK, XmlInit
<1>8. QED
  BY <1>4, <1>5, <1>6, <1>7 DEF IntakeInv

\* The parts are known before there is any section.
LEMMA FindPartsKeeps ==
  ASSUME IntakeInv, NEW parts \in Nat, FindParts(parts), walk \in {"admission", "order"},
         UNCHANGED <<office, sections, sink, remaining>>, outcome = "running", outcome' = outcome,
         expanded' \in Nat, expanded' <= MaxExpanded, UNCHANGED xmlVars
  PROVE  IntakeInv'
<1>1. sections = <<>> /\ sections' = <<>>
  BY DEF IntakeInv, ProgressOK
<1>2. TextOK'
  BY TextStutters DEF IntakeInv
<1>3. SectionsOK'
  <2>1. \A i \in 1 .. Len(sections') : FALSE
    BY <1>1
  <2>2. truncated' <=> total' > MaxSections
    BY DEF FindParts
  <2>3. QED
    BY <2>1, <2>2 DEF SectionsOK
<1>4. ProgressOK'
  BY <1>1 DEF ProgressOK, FindParts
<1>5. StringsOK'
  BY DEF IntakeInv, StringsOK, xmlVars
<1>6. QED
  BY <1>2, <1>3, <1>4, <1>5 DEF IntakeInv

\* What is decompressed is a number, and not too large unless the part is.
LEMMA DecompressOK ==
  ASSUME IntakeInv, NEW n \in Nat, Decompress(n)
  PROVE  expanded' \in Nat /\ (~Excessive(n) => expanded' <= MaxExpanded)
BY IntakeAssumption DEF IntakeInv, ProgressOK, Decompress, Excessive, Smaller

\* A section begins with what the budget has left.
LEMMA OpenSectionKeeps ==
  ASSUME IntakeInv, outcome = "running", outcome' = outcome, sink' = Opened(remaining),
         expanded' \in Nat, expanded' <= MaxExpanded,
         UNCHANGED <<office, total, sections, remaining, truncated>>, walk' = walk, StringsOK'
  PROVE  IntakeInv'
<1>1. remaining \in Nat
  BY DEF IntakeInv, TextOK
<1>2. SinkOK(sink') /\ sink'.open /\ sink'.limit = remaining'
  BY <1>1, OpenedOK
<1>3. TextOK'
  BY <1>2 DEF IntakeInv, TextOK
<1>4. SectionsOK'
  BY TextStutters DEF IntakeInv
<1>5. ProgressOK'
  BY DEF IntakeInv, ProgressOK
<1>6. QED
  BY <1>3, <1>4, <1>5 DEF IntakeInv

\* Opening a part charges what it expands to and opens a sink for what is left.
LEMMA OpenPartKeeps ==
  ASSUME IntakeInv, NEW n \in Nat, OpenPart(n), walk' = walk, StringsOK'
  PROVE  IntakeInv'
<1>1. expanded' \in Nat /\ (~Excessive(n) => expanded' <= MaxExpanded)
  BY DecompressOK DEF OpenPart
<1>2. CASE Excessive(n)
  <2>1. outcome' = "ExtractionFailed" /\ UNCHANGED <<office, total, sections, sink, remaining, truncated>>
    BY <1>2 DEF OpenPart
  <2>2. TextOK' /\ SectionsOK'
    BY <2>1, TextStutters DEF IntakeInv
  <2>3. ProgressOK'
    BY <1>1, <2>1 DEF IntakeInv, ProgressOK
  <2>4. QED
    BY <2>2, <2>3 DEF IntakeInv
<1>3. CASE ~Excessive(n)
  BY <1>1, <1>3, OpenSectionKeeps DEF OpenPart
<1>4. QED
  BY <1>2, <1>3

\* So does opening a page.
LEMMA OpenPageKeeps ==
  ASSUME IntakeInv, OpenPage, walk' = walk, StringsOK'
  PROVE  IntakeInv'
<1>1. expanded' \in Nat /\ expanded' <= MaxExpanded
  BY DEF OpenPage, IntakeInv, ProgressOK
<1>2. QED
  BY <1>1, OpenSectionKeeps DEF OpenPage

\* The sink takes a piece, or nothing.
LEMMA UtteredKeeps ==
  ASSUME IntakeInv, sink.open, NEW piece \in Seq(Char), sink' = sink \/ sink' = Taking(sink, piece),
         UNCHANGED <<office, total, sections, remaining, expanded, truncated, outcome>>,
         walk' = walk, StringsOK'
  PROVE  IntakeInv'
<1>1. SinkOK(sink') /\ sink'.open = sink.open /\ sink'.limit = sink.limit
  BY TakingOK DEF IntakeInv, TextOK
<1>2. TextOK'
  BY <1>1 DEF IntakeInv, TextOK
<1>3. SectionsOK'
  BY TextStutters DEF IntakeInv
<1>4. ProgressOK'
  BY DEF IntakeInv, ProgressOK, Taken
<1>5. QED
  BY <1>2, <1>3, <1>4 DEF IntakeInv

\* The section joins the others, and its text is charged to the budget.
LEMMA CloseSectionKeeps ==
  ASSUME IntakeInv, CloseSection, walk' = walk, StringsOK', walk \notin {"admission", "order"}
  PROVE  IntakeInv'
<1> DEFINE part == [whole |-> sink.whole, text |-> sink.text, scanned |-> Scanned(sink)]
<1>1. /\ sink.open /\ outcome = "running" /\ sections' = Append(sections, part)
      /\ remaining' = remaining - Bytes(sink.text) /\ truncated' = (truncated \/ sink.cut)
      /\ sink' = Closed /\ UNCHANGED <<office, total, expanded, outcome>>
  BY DEF CloseSection
<1>2. /\ SinkOK(sink) /\ sections \in Seq(SectionType) /\ remaining \in Nat
      /\ remaining + SectionBytes(sections) = MaxTextBytes /\ sink.limit = remaining
  BY <1>1 DEF IntakeInv, TextOK
<1>3. /\ sink.text \in Seq(Char) /\ sink.whole \in Seq(Char) /\ Bytes(sink.text) <= remaining
      /\ IsPrefix(sink.text, sink.whole) /\ (sink.cut <=> sink.text # sink.whole)
  BY <1>2 DEF SinkOK, SinkType
<1>4. part \in SectionType /\ part.text = sink.text /\ part.whole = sink.whole
  <2>1. Scanned(sink) \in BOOLEAN
    BY DEF Scanned
  <2>2. QED
    BY <1>3, <2>1 DEF SectionType
<1>5. part.scanned => ~office /\ AllBlank(part.whole)
  <2>1. part.scanned => ~office /\ AllBlank(sink.text) /\ ~sink.cut
    BY DEF Scanned
  <2>2. QED
    BY <1>3, <1>4, <2>1
<1> HIDE DEF part
<1>6. PICK n : n = Len(sections)
  OBVIOUS
<1>7. /\ sections' \in Seq(SectionType) /\ Len(sections') = n + 1 /\ n \in Nat
      /\ sections'[n + 1] = part /\ \A i \in 1 .. n : sections'[i] = sections[i]
  BY <1>1, <1>2, <1>4, <1>6
<1>8. TextOK'
  <2>1. Bytes(sink.text) \in Nat
    BY <1>3, BytesOfText
  <2>2. /\ SectionBytes(sections) \in Nat
        /\ SectionBytes(sections') = SectionBytes(sections) + Bytes(sink.text)
    BY <1>1, <1>2, <1>4, BytesOfSections
  <2>3. remaining' \in Nat /\ remaining' + SectionBytes(sections') = MaxTextBytes
    BY <1>1, <1>2, <1>3, <2>1, <2>2, IntakeAssumption
  <2>4. SinkOK(sink') /\ ~sink'.open /\ sink'.text = <<>>
    BY <1>1, <1>2, OpenedOK
  <2>5. QED
    BY <1>7, <2>3, <2>4 DEF TextOK
<1>9. SectionsOK'
  <2>1. \A i \in 1 .. Len(sections') :
          i # n + 1 => i \in 1 .. n /\ sections'[i] = sections[i]
    BY <1>7
  <2>2. ASSUME NEW i \in 1 .. Len(sections')
        PROVE  /\ IsPrefix(sections'[i].text, sections'[i].whole)
               /\ sections'[i].scanned => ~office /\ AllBlank(sections'[i].whole)
    <3>1. CASE i = n + 1
      BY <1>3, <1>4, <1>5, <1>7, <3>1
    <3>2. CASE i # n + 1
      BY <1>6, <2>1, <3>2 DEF IntakeInv, SectionsOK
    <3>3. QED
      BY <3>1, <3>2
  <2>3. Cut(n + 1)' <=> sink.cut
    BY <1>3, <1>4, <1>7 DEF Cut
  <2>4. \A i \in 1 .. n : Cut(i)' <=> Cut(i)
    BY <1>7 DEF Cut
  <2>5. (\E i \in 1 .. Len(sections') : Cut(i)') <=> sink.cut \/ \E i \in 1 .. n : Cut(i)
    <3>1. \A i : i \in 1 .. Len(sections') <=> i = n + 1 \/ i \in 1 .. n
      BY <1>7
    <3>2. QED
      BY <2>3, <2>4, <3>1
  <2>6. truncated <=> total > MaxSections \/ \E i \in 1 .. n : Cut(i)
    BY <1>6 DEF IntakeInv, SectionsOK
  <2>7. truncated' <=> total' > MaxSections \/ \E i \in 1 .. Len(sections') : Cut(i)'
    BY <1>1, <2>5, <2>6
  <2>8. QED
    BY <1>1, <2>2, <2>7 DEF SectionsOK
<1>10. ProgressOK'
  BY <1>1 DEF IntakeInv, ProgressOK
<1>11. QED
  BY <1>8, <1>9, <1>10 DEF IntakeInv

\* The answer says of every section what was kept of it.
LEMMA AnswerKeeps ==
  ASSUME IntakeInv, Answer, walk' = walk, StringsOK'
  PROVE  IntakeInv'
<1>1. /\ outcome = "running" /\ outcome' = "Ok" /\ Len(sections) = Taken
      /\ UNCHANGED <<office, total, sections, sink, remaining, expanded, truncated>>
  BY DEF Answer
<1>2. TextOK' /\ SectionsOK'
  BY <1>1, TextStutters DEF IntakeInv
<1>3. ProgressOK'
  BY <1>1 DEF IntakeInv, ProgressOK, Taken
<1>4. QED
  BY <1>2, <1>3 DEF IntakeInv

\* A string that waits grows by a piece, or joins the others.
LEMMA CollectKeeps ==
  ASSUME StringsOK, Collect
  PROVE  StringsOK' /\ outcome' \in {outcome, "ExtractionFailed"}
<1>1. current \in Seq(Char) /\ pool \in Seq(Seq(Char))
  BY DEF StringsOK
<1>2. CASE Len(pool) >= MaxSharedStrings
  BY <1>1, <1>2 DEF Collect, StringsOK, Fails
<1>3. CASE ~ Len(pool) >= MaxSharedStrings
  <2>1. pool' = Append(pool, current) /\ current' = <<>> /\ outcome' = outcome
    BY <1>3 DEF Collect
  <2>2. Append(pool, current) \in Seq(Seq(Char)) /\ <<>> \in Seq(Char)
    BY <1>1
  <2>3. QED
    BY <2>1, <2>2 DEF StringsOK
<1>4. QED
  BY <1>2, <1>3

\* Collecting the shared strings charges nothing to the budgets.
LEMMA StringsKeep ==
  ASSUME IntakeInv, StringsNext, walk' = walk
  PROVE  IntakeInv'
<1>1. StringsOK /\ current \in Seq(Char)
  BY DEF IntakeInv, StringsOK
<1>2. ASSUME UNCHANGED <<pool, current>> PROVE StringsOK'
  BY <1>1, <1>2 DEF StringsOK
<1>3. UNCHANGED <<office, total, sections, sink, remaining, expanded, truncated>>
  BY DEF StringsNext
<1>4. ASSUME NEW name, StringStart(name)
      PROVE  StringsOK' /\ outcome' \in {outcome, "ExtractionFailed"}
  BY <1>2, <1>4 DEF StringStart, Fails
<1>5. ASSUME NEW name, StringEmpty(name)
      PROVE  StringsOK' /\ outcome' \in {outcome, "ExtractionFailed"}
  BY <1>1, <1>2, <1>5, CollectKeeps DEF StringEmpty
<1>6. ASSUME NEW piece \in XmlPiece, StringPiece(piece)
      PROVE  StringsOK' /\ outcome' \in {outcome, "ExtractionFailed"}
  <2>1. current' \in {current, current \o piece} /\ pool' = pool
        /\ outcome' \in {outcome, "ExtractionFailed"}
    BY <1>6 DEF StringPiece, Fails
  <2>2. piece \in Seq(Char)
    BY XmlAssumption
  <2>3. current \o piece \in Seq(Char)
    BY <1>1, <2>2
  <2>4. QED
    BY <1>1, <2>1, <2>3 DEF StringsOK
<1>7. ASSUME StringEnd
      PROVE  StringsOK' /\ outcome' \in {outcome, "ExtractionFailed"}
  BY <1>1, <1>2, <1>7, CollectKeeps DEF StringEnd
<1>8. ASSUME StringsMalformed
      PROVE  StringsOK' /\ outcome' \in {outcome, "ExtractionFailed"}
  BY <1>2, <1>8 DEF StringsMalformed, xmlVars, Fails
<1>9. StringsOK' /\ outcome' \in {outcome, "ExtractionFailed"}
  BY <1>4, <1>5, <1>6, <1>7, <1>8 DEF StringsNext
<1>10. QED
  BY <1>3, <1>9, FailureKeeps

\* What the walk over a part does while it goes on.
TextStep ==
  \/ \E name \in DOMAIN Children : TextEmpty(name) \/ \E shared \in BOOLEAN : TextStart(name, shared)
  \/ \E piece \in XmlPiece : TextPiece(piece)
  \/ TextEnd

\* A tag, or a piece of text, lets the sink take some piece or fails.
LEMMA TextStepUtters ==
  ASSUME StringsOK, TextStep
  PROVE  /\ StringsOK'
         /\ \/ outcome' = "ExtractionFailed" /\ sink' = sink
            \/ /\ outcome' = outcome
               /\ \E piece \in Seq(Char) : sink' = sink \/ sink' = Taking(sink, piece)
<1>1. current \in Seq(Char) /\ pool \in Seq(Seq(Char))
  BY DEF StringsOK
<1>2. ASSUME UNCHANGED <<pool, current>> PROVE StringsOK'
  BY <1>1, <1>2 DEF StringsOK
<1>3. ASSUME NEW piece \in Seq(Char), Utters(piece)
      PROVE  \E p \in Seq(Char) : sink' = sink \/ sink' = Taking(sink, p)
  BY <1>3 DEF Utters
<1>4. ASSUME sink' = sink
      PROVE  \E p \in Seq(Char) : sink' = sink \/ sink' = Taking(sink, p)
  BY <1>4, BreaksTyped
<1> DEFINE Kept == /\ StringsOK'
                   /\ \/ outcome' = "ExtractionFailed" /\ sink' = sink
                      \/ /\ outcome' = outcome
                         /\ \E p \in Seq(Char) : sink' = sink \/ sink' = Taking(sink, p)
<1>5. ASSUME NEW name, TextEmpty(name) PROVE Kept
  <2>1. Utters(Breaks(name)) \/ Utters(<<>>)
    BY <1>5 DEF TextEmpty
  <2>2. UNCHANGED <<pool, current, outcome>>
    BY <1>5 DEF TextEmpty
  <2>3. QED
    BY <1>2, <1>3, <2>1, <2>2, BreaksTyped
<1>6. ASSUME NEW name, NEW shared, TextStart(name, shared) PROVE Kept
  <2>1. UNCHANGED <<pool, current>>
    BY <1>6 DEF TextStart
  <2>2. CASE TooDeep
    BY <1>2, <1>6, <2>1, <2>2 DEF TextStart, Fails
  <2>3. CASE ~TooDeep
    <3>1. (Utters(Breaks(name)) \/ Utters(<<>>)) /\ outcome' = outcome
      BY <1>6, <2>3 DEF TextStart
    <3>2. QED
      BY <1>2, <1>3, <2>1, <3>1, BreaksTyped
  <2>4. QED
    BY <2>2, <2>3
<1>7. ASSUME NEW piece \in XmlPiece, TextPiece(piece) PROVE Kept
  <2>1. piece \in Seq(Char) /\ pool' = pool
    BY <1>7, XmlAssumption DEF TextPiece
  <2>2. \/ sink' = sink /\ outcome' \in {outcome, "ExtractionFailed"}
           /\ current' \in {current, current \o piece}
        \/ Utters(piece) /\ UNCHANGED <<current, outcome>>
    BY <1>7 DEF TextPiece, Fails
  <2>3. current \o piece \in Seq(Char)
    BY <1>1, <2>1
  <2>4. CASE sink' = sink /\ outcome' \in {outcome, "ExtractionFailed"}
             /\ current' \in {current, current \o piece}
    <3>1. StringsOK'
      BY <1>1, <2>1, <2>3, <2>4 DEF StringsOK
    <3>2. QED
      BY <1>4, <2>4, <3>1
  <2>5. CASE Utters(piece) /\ UNCHANGED <<current, outcome>>
    BY <1>2, <1>3, <2>1, <2>5
  <2>6. QED
    BY <2>2, <2>4, <2>5
<1>8. ASSUME TextEnd PROVE Kept
  <2> DEFINE name == Last(open).name
             leaf == name \in {"t", "v"}
             refers == leaf /\ inValue /\ sharedCell
             said == IF refers THEN pool[Parsed(current) + 1]
                     ELSE IF name \in {"p", "c"} THEN <<Newline>> ELSE <<>>
  <2>1. /\ pool' = pool /\ current' \in {current, <<>>}
        /\ IF refers /\ ~Resolves THEN Fails /\ sink' = sink
                                  ELSE Utters(said) /\ outcome' = outcome
    <3>1. pool' = pool /\ current' = IF leaf THEN <<>> ELSE current
      BY <1>8 DEF TextEnd
    <3>2. IF refers /\ ~Resolves THEN Fails /\ sink' = sink
                                 ELSE Utters(said) /\ outcome' = outcome
      BY <1>8 DEF TextEnd
    <3>3. QED
      BY <3>1, <3>2
  <2>2. StringsOK'
    BY <1>1, <2>1, BreaksTyped DEF StringsOK
  <2>3. CASE refers /\ ~Resolves
    BY <2>1, <2>2, <2>3 DEF Fails
  <2>4. CASE ~(refers /\ ~Resolves)
    <3>1. refers => pool[Parsed(current) + 1] \in Seq(Char)
      <4>1. refers => Parsed(current) + 1 \in DOMAIN pool
        BY <2>4 DEF Resolves
      <4>2. \A i \in DOMAIN pool : pool[i] \in Seq(Char)
        BY <1>1
      <4>3. QED
        BY <4>1, <4>2
    <3>2. said \in Seq(Char)
      BY <3>1, BreaksTyped
    <3> HIDE DEF said, refers
    <3>3. QED
      BY <1>3, <2>1, <2>2, <2>4, <3>2
  <2>5. QED
    BY <2>3, <2>4
<1> HIDE DEF Kept
<1>9. Kept
  BY <1>5, <1>6, <1>7, <1>8 DEF TextStep
<1>10. QED
  BY <1>9 DEF Kept

\* Reading a part tag by tag stays within the budget of its sink.
LEMMA TextKeeps ==
  ASSUME IntakeInv, TextNext, walk' = walk, walk \notin {"admission", "order"}
  PROVE  IntakeInv'
<1>1. StringsOK
  BY DEF IntakeInv
<1>2. CASE Malformed /\ UNCHANGED xmlVars
  <2>1. StringsOK'
    BY <1>1, <1>2 DEF StringsOK, xmlVars
  <2>2. QED
    BY <1>2, <2>1, FailureKeeps DEF Malformed
<1>3. CASE SectionOver
  <2>1. StringsOK'
    BY <1>1, <1>3, BreaksTyped DEF SectionOver, XmlBegins, StringsOK
  <2>2. QED
    BY <1>3, <2>1, CloseSectionKeeps DEF SectionOver
<1>4. CASE /\ sink.open /\ outcome = "running" /\ TextStep
           /\ UNCHANGED <<office, total, sections, remaining, expanded, truncated>>
  <2>1. /\ StringsOK'
        /\ \/ outcome' = "ExtractionFailed" /\ sink' = sink
           \/ /\ outcome' = outcome
              /\ \E piece \in Seq(Char) : sink' = sink \/ sink' = Taking(sink, piece)
    BY <1>1, <1>4, TextStepUtters
  <2>2. CASE outcome' = "ExtractionFailed" /\ sink' = sink
    BY <1>4, <2>1, <2>2, FailureKeeps
  <2>3. CASE /\ outcome' = outcome
             /\ \E piece \in Seq(Char) : sink' = sink \/ sink' = Taking(sink, piece)
    BY <1>4, <2>1, <2>3, UtteredKeeps
  <2>4. QED
    BY <2>1, <2>2, <2>3
<1>5. QED
  BY <1>2, <1>3, <1>4 DEF TextNext, TextStep

\* So does a parser of which nothing is known but the pieces it writes.
LEMMA IntakeKeeps ==
  ASSUME IntakeInv, IntakeNext, walk' = walk, walk \notin {"admission", "order"}, UNCHANGED xmlVars
  PROVE  IntakeInv'
<1>1. StringsOK'
  BY DEF IntakeInv, StringsOK, xmlVars
<1>2. ASSUME NEW n \in PartBytes, OpenPart(n) PROVE IntakeInv'
  BY <1>1, <1>2, OpenPartKeeps, IntakeAssumption
<1>3. ASSUME NEW piece \in Piece, WritePiece(piece) PROVE IntakeInv'
  <2>1. piece \in Seq(Char)
    BY IntakeAssumption
  <2>2. QED
    BY <1>1, <1>3, <2>1, UtteredKeeps DEF WritePiece
<1>4. CASE Malformed
  BY <1>1, <1>4, FailureKeeps DEF Malformed
<1>5. QED
  BY <1>1, <1>2, <1>3, <1>4, OpenPageKeeps, AnswerKeeps, CloseSectionKeeps
     DEF IntakeNext, BetweenSections, WithinSection

\* After a failure nothing but types is asked for.
LEMMA FailedKeeps ==
  ASSUME IntakeInv, UNCHANGED <<office, total, sections, sink, remaining, truncated>>,
         outcome' = "ExtractionFailed", expanded' \in Nat, walk' = walk, UNCHANGED xmlVars
  PROVE  IntakeInv'
<1>1. TextOK' /\ SectionsOK'
  BY TextStutters DEF IntakeInv
<1>2. ProgressOK'
  BY DEF IntakeInv, ProgressOK
<1>3. StringsOK'
  BY DEF IntakeInv, StringsOK, xmlVars
<1>4. QED
  BY <1>1, <1>2, <1>3 DEF IntakeInv

(***************************************************************************)
(* The whole extraction.                                                   *)
(***************************************************************************)

\* Every walk has its invariant, and the order waits for the archive.
ExtractInv ==
  /\ ZipInv /\ OrderInv /\ IntakeInv
  /\ walk = "admission" => orderStage = "waiting"

\* A walk that is over leaves nothing behind that could be wrong.
LEMMA WalksOver ==
  /\ ZipDone => ZipInv'
  /\ OrderDone => OrderInv'
<1>1. ZipDone => ZipInv'
  BY DEF ZipDone, ZipInv, ArchiveOK, DirectoryOK, WalkOK, ReaderOK, Admitted, Reading, Size
<1>2. ASSUME OrderDone PROVE OrderInv'
  <2>1. /\ DOMAIN targets' = {} /\ Len(ordered') = 0 /\ Len(ids') = 0 /\ written' = {}
        /\ ids' \in Seq(RelId) /\ ordered' \in Seq(Member) /\ DOMAIN ordered' = {}
        /\ ordered' = <<>> /\ orderStage' = "done"
    BY <1>2 DEF OrderDone
  <2>2. RelationsOK'
    BY <2>1 DEF RelationsOK
  <2>3. ResolvedOK'
    BY <2>1 DEF ResolvedOK, IsInjective, Reads
  <2>4. QED
    BY <2>2, <2>3 DEF OrderInv
<1>3. QED
  BY <1>1, <1>2

\* The invariants hold before the archive is read.
LEMMA ExtractInitially ==
  ExtractInit => ExtractInv
<1>1. SUFFICES ASSUME ExtractInit PROVE ExtractInv
  OBVIOUS
<1>2. ZipInv
  BY <1>1, ZipInitially, NoArchiveOK DEF ExtractInit, NoArchive
<1>3. OrderInv
  BY <1>1, NoOrderOK DEF ExtractInit, NoOrder
<1>4. IntakeInv
  BY <1>1, IntakeInitially DEF ExtractInit
<1>5. QED
  BY <1>1, <1>2, <1>3, <1>4 DEF ExtractInv, ExtractInit

\* The manifests are found, which also takes from what may be decompressed.
LEMMA FindManifestsKeeps ==
  ASSUME IntakeInv, OrderInv, orderStage = "waiting",
         NEW n \in PartBytes, NEW m \in PartBytes, FindManifests(n, m)
  PROVE  IntakeInv' /\ OrderInv'
<1>1. n \in Nat /\ m \in Nat /\ MaxPart \in Nat /\ expanded \in Nat /\ MaxExpanded \in Nat
  BY IntakeAssumption DEF IntakeInv, ProgressOK
<1>2. expanded' \in Nat
  BY <1>1 DEF FindManifests, Smaller
<1>3. CASE Excessive(n) \/ Excessive(m)
  <2>1. outcome' = "ExtractionFailed" /\ UNCHANGED <<orderVars, walk>>
    BY <1>3 DEF FindManifests, Fails
  <2>2. IntakeInv'
    BY <1>2, <2>1, FailedKeeps DEF FindManifests
  <2>3. QED
    BY <2>1, <2>2, OrderStutters DEF orderVars
<1>4. CASE ~(Excessive(n) \/ Excessive(m))
  <2>1. /\ OrderBegins /\ walk = "admission" /\ walk' = "order" /\ outcome' = outcome
        /\ UNCHANGED <<xmlVars, office, total, sections, sink, remaining, truncated>>
    BY <1>4 DEF FindManifests
  <2>2. expanded' <= MaxExpanded
    BY <1>1, <1>2, <1>4 DEF Excessive
  <2>3. TextOK' /\ SectionsOK'
    BY <2>1, TextStutters DEF IntakeInv
  <2>4. ProgressOK'
    BY <1>2, <2>1, <2>2 DEF IntakeInv, ProgressOK, Taken
  <2>5. StringsOK'
    BY <2>1 DEF IntakeInv, StringsOK, xmlVars
  <2>6. OrderInv'
    <3>1. ordered = <<>> /\ UNCHANGED <<ids, targets, written, ordered>> /\ orderStage' = "manifest"
      BY <2>1 DEF OrderInv, ResolvedOK, Reads, OrderBegins
    <3>2. RelationsOK'
      BY <3>1, RelationsStutter DEF OrderInv
    <3>3. ResolvedOK'
      BY <3>1 DEF OrderInv, ResolvedOK, Leads, Reads
    <3>4. QED
      BY <3>2, <3>3 DEF OrderInv
  <2>7. QED
    BY <2>3, <2>4, <2>5, <2>6 DEF IntakeInv
<1>5. QED
  BY <1>3, <1>4

\* The parts are found in the order that the manifest gives.
LEMMA FindOrderedKeeps ==
  ASSUME IntakeInv, OrderInv, NEW n \in PartBytes, FindOrdered(n)
  PROVE  IntakeInv'
<1>1. n \in Nat /\ Len(ordered) \in Nat /\ outcome = "running" /\ walk = "order" /\ UNCHANGED xmlVars
  BY IntakeAssumption DEF OrderInv, ResolvedOK, FindOrdered
<1>2. expanded' \in Nat /\ (~Excessive(n) => expanded' <= MaxExpanded)
  BY <1>1, DecompressOK DEF FindOrdered
<1>3. CASE Excessive(n)
  BY <1>1, <1>2, <1>3, FailedKeeps DEF FindOrdered, Fails
<1>4. CASE ~Excessive(n)
  <2>1. FindParts(Len(ordered)) /\ outcome' = outcome /\ UNCHANGED <<office, sections, sink, remaining>>
    BY <1>4 DEF FindOrdered
  <2>2. QED
    BY <1>1, <1>2, <1>4, <2>1, FindPartsKeeps
<1>5. QED
  BY <1>3, <1>4

\* A step of one walk keeps its invariant and leaves the others alone; a walk that is
\* over leaves nothing behind.
LEMMA ExtractKeeps ==
  ExtractInv /\ [ExtractNext]_extractVars => ExtractInv'
<1>1. SUFFICES ASSUME ExtractInv, [ExtractNext]_extractVars PROVE ExtractInv'
  OBVIOUS
<1>2. ZipInv /\ OrderInv /\ IntakeInv /\ (walk = "admission" => orderStage = "waiting")
  BY <1>1 DEF ExtractInv
<1>3. StringsOK /\ (UNCHANGED xmlVars => StringsOK')
  BY <1>2 DEF IntakeInv, StringsOK, xmlVars
<1>4. /\ UNCHANGED zipVars => ZipInv'
      /\ UNCHANGED orderVars => OrderInv'
      /\ UNCHANGED <<intakeVars, xmlVars, walk>> => IntakeInv'
  <2>1. UNCHANGED <<intakeVars, xmlVars, walk>> => IntakeInv'
    BY <1>2, <1>3, FailureKeeps DEF intakeVars
  <2>2. QED
    BY <1>2, <2>1, ZipStutters, OrderStutters
<1>5. CASE UNCHANGED extractVars
  <2>1. UNCHANGED <<zipVars, orderVars, intakeVars, xmlVars, walk>> /\ orderStage' = orderStage
    BY <1>5 DEF extractVars, orderVars
  <2>2. QED
    BY <1>2, <1>4, <2>1 DEF ExtractInv
<1>6. CASE Admission
  <2>1. UNCHANGED <<orderVars, intakeVars, xmlVars, walk>> /\ orderStage' = orderStage /\ ZipNext
    BY <1>6 DEF Admission, orderVars
  <2>2. QED
    BY <1>2, <1>4, <2>1, ZipKeeps DEF ExtractInv
<1>7. CASE Refused
  <2>1. ZipDone /\ UNCHANGED <<orderVars, xmlVars, walk>> /\ orderStage' = orderStage
    BY <1>7 DEF Refused, orderVars
  <2>2. IntakeInv'
    BY <1>2, <1>3, <1>7, <2>1, FailureKeeps DEF Refused, Fails
  <2>3. QED
    BY <1>2, <1>4, <2>1, <2>2, WalksOver DEF ExtractInv
<1>8. CASE FindDocument
  <2>1. ZipDone /\ UNCHANGED <<orderVars, xmlVars>> /\ walk' # "admission" /\ walk = "admission"
    BY <1>8 DEF FindDocument
  <2>2. expanded \in Nat /\ expanded <= MaxExpanded
    BY <1>2, <1>8 DEF IntakeInv, ProgressOK, FindDocument
  <2>3. IntakeInv'
    BY <1>2, <1>8, <2>1, <2>2, FindPartsKeeps DEF FindDocument
  <2>4. QED
    BY <1>4, <2>1, <2>3, WalksOver DEF ExtractInv
<1>9. ASSUME NEW n \in PartBytes, NEW m \in PartBytes, FindManifests(n, m) PROVE ExtractInv'
  <2>1. walk = "admission" /\ ZipDone /\ (walk' = "admission" => orderStage' = orderStage)
    BY <1>9 DEF FindManifests, orderVars
  <2>2. QED
    BY <1>2, <1>9, <2>1, FindManifestsKeeps, WalksOver DEF ExtractInv
<1>10. CASE Ordering
  BY <1>2, <1>4, <1>10, OrderKeeps DEF Ordering, ExtractInv
<1>11. CASE Disordered
  <2>1. IntakeInv'
    BY <1>2, <1>3, <1>11, FailureKeeps DEF Disordered, Fails
  <2>2. QED
    BY <1>4, <1>11, <2>1, WalksOver DEF Disordered, ExtractInv
<1>12. ASSUME NEW n \in PartBytes, FindOrdered(n) PROVE ExtractInv'
  <2>1. OrderDone /\ UNCHANGED zipVars /\ walk' # "admission"
    BY <1>12 DEF FindOrdered
  <2>2. QED
    BY <1>2, <1>4, <1>12, <2>1, FindOrderedKeeps, WalksOver DEF ExtractInv
<1>13. CASE ReadSections
  BY <1>2, <1>4, <1>13, IntakeKeeps DEF ReadSections, ExtractInv
<1>14. CASE ReadStrings
  <2>1. UNCHANGED <<zipVars, orderVars>> /\ walk' \in {"strings", "tags"} /\ walk = "strings"
    BY <1>14 DEF ReadStrings
  <2>2. CASE StringsNext /\ UNCHANGED walk
    BY <1>2, <1>4, <2>1, <2>2, StringsKeep DEF ExtractInv
  <2>3. CASE StringsOver /\ walk' = "tags" /\ UNCHANGED intakeVars
    <3>1. TextOK' /\ SectionsOK'
      BY <1>2, <2>3, TextStutters DEF IntakeInv, intakeVars
    <3>2. ProgressOK'
      BY <1>2, <2>3 DEF IntakeInv, ProgressOK, Taken, intakeVars
    <3>3. StringsOK'
      BY <1>3, <2>3, BreaksTyped DEF StringsOver, XmlBegins, StringsOK
    <3>4. QED
      BY <1>4, <2>1, <2>3, <3>1, <3>2, <3>3 DEF ExtractInv, IntakeInv
  <2>4. QED
    BY <1>14, <2>2, <2>3 DEF ReadStrings
<1>15. CASE ReadTags
  <2>1. /\ UNCHANGED <<zipVars, orderVars, walk>> /\ walk = "tags"
        /\ \/ (OpenPart(DetailBytes) \/ Answer) /\ UNCHANGED xmlVars
           \/ TextNext
    BY <1>15 DEF ReadTags
  <2>2. IntakeInv'
    BY <1>2, <1>3, <2>1, OpenPartKeeps, AnswerKeeps, TextKeeps, DetailAssumption
  <2>3. QED
    BY <1>4, <2>1, <2>2 DEF ExtractInv
<1>16. QED
  BY <1>1, <1>5, <1>6, <1>7, <1>8, <1>9, <1>10, <1>11, <1>12, <1>13, <1>14, <1>15 DEF ExtractNext

\* So they always hold.
LEMMA ExtractInvAlways ==
  ExtractSpec => []ExtractInv
BY ExtractInitially, ExtractKeeps, PTL DEF ExtractSpec

\* The rest of the walk does not come back to the manifest.
LEMMA ManifestKeeps ==
  ManifestInv /\ [ExtractNext]_extractVars /\ ExtractInv => ManifestInv'
<1>1. SUFFICES ASSUME ManifestInv, [ExtractNext]_extractVars, ExtractInv PROVE ManifestInv'
  OBVIOUS
<1>2. UNCHANGED orderVars => ManifestInv'
  BY <1>1 DEF ManifestInv, orderVars
<1>3. ASSUME NEW n \in PartBytes, NEW m \in PartBytes, FindManifests(n, m) PROVE ManifestInv'
  <2>1. CASE UNCHANGED orderVars
    BY <1>2, <2>1
  <2>2. CASE OrderBegins
    <3>1. log = <<>> /\ parents = <<>> /\ ids = <<>>
      BY <1>1, <1>3 DEF FindManifests, ExtractInv, ManifestInv
    <3>2. QED
      BY <2>2, <3>1, NothingListed DEF OrderBegins, ManifestInv
  <2>3. QED
    BY <1>3, <2>1, <2>2 DEF FindManifests, orderVars
<1>4. CASE OrderNext
  <2>1. ASSUME NEW name, NEW empty, PassElement(name, empty) PROVE ManifestInv'
    BY <2>1 DEF PassElement, Invalid, ManifestInv
  <2>2. ASSUME NEW r, NEW empty, RelateElement(r, empty) PROVE ManifestInv'
    BY <2>2 DEF RelateElement, Invalid, ManifestInv
  <2>3. CASE EndOfFile \/ MalformedXml \/ Resolve \/ Ordered
    BY <2>3 DEF EndOfFile, MalformedXml, Resolve, Ordered, Invalid, ManifestInv
  <2>4. QED
    BY <1>1, <1>4, <2>1, <2>2, <2>3, ListElementLogs, EndElementLogs DEF OrderNext
<1>5. CASE OrderDone
  BY <1>5 DEF OrderDone, ManifestInv
<1>6. ASSUME NEW n \in PartBytes, FindOrdered(n) PROVE OrderDone
  BY <1>6 DEF FindOrdered
<1>7. CASE \/ UNCHANGED extractVars \/ Admission \/ Refused \/ FindDocument
           \/ ReadSections \/ ReadStrings \/ ReadTags
  BY <1>2, <1>7 DEF extractVars, Admission, Refused, FindDocument, ReadSections, ReadStrings, ReadTags
<1>8. QED
  BY <1>1, <1>3, <1>4, <1>5, <1>6, <1>7 DEF ExtractNext, Ordering, Disordered

\* So it always holds, as nothing is logged before the manifest.
LEMMA ManifestInvAlways ==
  ExtractSpec => []ManifestInv
<1>1. ExtractInit => ManifestInv
  BY DEF ExtractInit, ManifestInv
<1>2. QED
  BY <1>1, ExtractInitially, ExtractKeeps, ManifestKeeps, PTL DEF ExtractSpec

\* What is kept of all sections and what may still be kept make up the budget.
LEMMA IntakeInvHasBudgets ==
  IntakeInv => WithinBudgets
<1>1. SUFFICES ASSUME IntakeInv PROVE WithinBudgets
  OBVIOUS
<1>2. /\ SinkOK(sink) /\ sections \in Seq(SectionType) /\ remaining \in Nat
      /\ remaining + SectionBytes(sections) = MaxTextBytes /\ MaxTextBytes \in Nat
      /\ IF sink.open THEN sink.limit = remaining ELSE sink.text = <<>>
  BY <1>1, IntakeAssumption DEF IntakeInv, TextOK
<1>3. sink.text \in Seq(Char) /\ Bytes(sink.text) <= sink.limit /\ sink.limit \in Nat
  BY <1>2 DEF SinkOK, SinkType
<1>4. Bytes(sink.text) \in Nat /\ Bytes(<<>>) = 0
  BY <1>3, BytesOfText
<1>5. Bytes(sink.text) <= remaining
  BY <1>2, <1>3, <1>4
<1>6. SectionBytes(sections) \in Nat
  <2>1. [whole |-> <<>>, text |-> <<>>, scanned |-> TRUE] \in SectionType
    BY BreaksTyped DEF SectionType
  <2>2. QED
    BY <1>2, <2>1, BytesOfSections
<1>7. /\ Bytes(sink.text) + SectionBytes(sections) <= MaxTextBytes
      /\ remaining \in 0 .. MaxTextBytes
  BY <1>2, <1>4, <1>5, <1>6
<1>8. outcome # "ExtractionFailed" => expanded <= MaxExpanded
  BY <1>1 DEF IntakeInv, ProgressOK
<1>9. QED
  BY <1>7, <1>8 DEF WithinBudgets, SectionBytes

\* An answer has all sections that are taken, and whatever is cut of one is marked.
LEMMA IntakeInvIsExact ==
  IntakeInv => TruncatedIsExact /\ ScansHaveNoText
<1>1. SUFFICES ASSUME IntakeInv PROVE TruncatedIsExact /\ ScansHaveNoText
  OBVIOUS
<1>2. ScansHaveNoText
  BY <1>1 DEF IntakeInv, SectionsOK, ScansHaveNoText
<1>3. ASSUME outcome = "Ok"
      PROVE  /\ \A i \in 1 .. Len(sections) : IsPrefix(sections[i].text, sections[i].whole)
             /\ truncated <=> \/ Len(sections) < total
                              \/ \E i \in 1 .. Len(sections) : sections[i].text # sections[i].whole
  <2>1. Len(sections) = Smaller(total, MaxSections) /\ total \in Nat /\ MaxSections \in Nat
    BY <1>1, <1>3, IntakeAssumption DEF IntakeInv, ProgressOK, Taken
  <2>2. Len(sections) < total <=> total > MaxSections
    BY <2>1 DEF Smaller
  <2>3. QED
    BY <1>1, <2>2 DEF IntakeInv, SectionsOK, Cut
<1>4. QED
  BY <1>2, <1>3 DEF TruncatedIsExact

\* No document is walked tag by tag.
Blank ==
  /\ open = <<>> /\ done = <<>> /\ phonetic = 0
  /\ inText = FALSE /\ inValue = FALSE /\ sharedCell \in BOOLEAN /\ current = <<>>

\* What is known of the document that is walked, by the walk it is in.
XmlInv ==
  outcome = "running" =>
    /\ walk \in {"admission", "order", "strings", "tags", "sections"}
    /\ walk \in {"admission", "order", "sections"} => Blank
    /\ walk \in {"admission", "order"} => pool = <<>> /\ ~sink.open
    /\ walk = "strings" => PoolOK /\ ~sink.open
    /\ walk = "tags" => IF sink.open THEN TagsOK ELSE Blank

\* What is known depends on this much.
LEMMA XmlStutters ==
  ASSUME UNCHANGED <<xmlVars, sink>>
  PROVE  (Blank => Blank') /\ (PoolOK => PoolOK') /\ (TagsOK => TagsOK')
<1>1. UNCHANGED <<open, done, phonetic, inText, inValue, sharedCell, current, pool, sink>>
  BY DEF xmlVars, document, flags
<1>2. Blank => Blank'
  BY <1>1 DEF Blank
<1>3. PoolOK => PoolOK'
  BY <1>1 DEF PoolOK
<1>4. TagsOK => TagsOK'
  BY <1>1 DEF TagsOK, FlagsOK
<1>5. QED
  BY <1>2, <1>3, <1>4

\* A walk begins where nothing has been said.
LEMMA BlankBegins ==
  ASSUME Blank
  PROVE  /\ pool = <<>> => PoolOK
         /\ sink.whole = <<>> => TagsOK
<1>1. /\ Said(<<>>) = <<>> /\ Nested(<<>>, "strings") /\ Nested(<<>>, "section")
      /\ Muted(<<>>, 0) /\ Celled(<<>>, FALSE) /\ Celled(<<>>, sharedCell)
  BY NothingSaid
<1>2. FlattenSeq(<<>>) = <<>> /\ <<>> \o <<>> = <<>> /\ <<>> \in Seq(Seq(Char))
  BY DEF FlattenSeq
<1>3. pool = <<>> => PoolOK
  BY <1>1, <1>2 DEF Blank, PoolOK
<1>4. sink.whole = <<>> => TagsOK
  BY <1>1, <1>2 DEF Blank, TagsOK, FlagsOK
<1>5. QED
  BY <1>3, <1>4

\* The shared strings are read on, or are over.
LEMMA StringsSay ==
  ASSUME PoolOK, ~sink.open, StringsNext, outcome' = "running"
  PROVE  PoolOK' /\ ~sink'.open
<1>1. sink' = sink
  BY DEF StringsNext
<1>2. ASSUME NEW name \in DOMAIN Children, StringStart(name) PROVE PoolOK'
  <2>1. ~TooDeep
    BY <1>2 DEF StringStart, Fails
  <2>2. QED
    BY <1>2, <2>1, StringStartSays
<1>3. ASSUME NEW name \in DOMAIN Children, StringEmpty(name) PROVE PoolOK'
  BY <1>3, StringEmptySays
<1>4. ASSUME NEW piece \in XmlPiece, StringPiece(piece) PROVE PoolOK'
  BY <1>4, StringPieceSays
<1>5. ASSUME StringEnd PROVE PoolOK'
  BY <1>5, StringEndSays
<1>6. ~StringsMalformed
  BY DEF StringsMalformed, Fails
<1>7. QED
  BY <1>1, <1>2, <1>3, <1>4, <1>5, <1>6 DEF StringsNext

\* A part is read on, or it is over.
LEMMA TagsSay ==
  ASSUME TagsOK, sink \in SinkType, sink.open, pool \in Seq(Seq(Char)), TextNext,
         outcome' = "running"
  PROVE  IF sink'.open THEN TagsOK' ELSE Blank'
<1>1. ~(Malformed /\ UNCHANGED xmlVars)
  BY DEF Malformed
<1>2. CASE SectionOver
  <2>1. ~sink'.open
    BY <1>2 DEF SectionOver, CloseSection, Closed
  <2>2. Blank'
    BY <1>2 DEF SectionOver, XmlBegins, Blank
  <2>3. QED
    BY <2>1, <2>2
<1>3. CASE TextStep
  <2>1. sink'.open
    <3>1. \E piece \in Seq(Char) : sink' = sink \/ sink' = Taking(sink, piece)
      <4>1. StringsOK
        <5>1. current \in Seq(Char)
          <6>1. open # <<>> => Last(open).text \in Seq(Char)
            <7>1. open \in Seq(Element)
              BY DEF TagsOK, Nested
            <7>2. open # <<>> => Last(open) \in Element
              BY <7>1, FrontAndLast
            <7>3. QED
              BY <7>2 DEF Element
          <6>2. QED
            BY <6>1, BreaksTyped DEF TagsOK, FlagsOK
        <5>2. QED
          BY <5>1 DEF StringsOK
      <4>2. QED
        BY <1>3, <4>1, TextStepUtters
    <3>2. QED
      BY <3>1 DEF Taking, SinkType
  <2>2. ASSUME NEW name \in DOMAIN Children, TextEmpty(name) PROVE TagsOK'
    BY <2>2, TextEmptySays
  <2>3. ASSUME NEW name \in DOMAIN Children, NEW shared \in BOOLEAN, TextStart(name, shared)
        PROVE  TagsOK'
    <3>1. ~TooDeep
      BY <2>3 DEF TextStart, Fails
    <3>2. QED
      BY <2>3, <3>1, TextStartSays
  <2>4. ASSUME NEW piece \in XmlPiece, TextPiece(piece) PROVE TagsOK'
    BY <2>4, TextPieceSays
  <2>5. ASSUME TextEnd PROVE TagsOK'
    BY <2>5, TextEndSays
  <2>6. QED
    BY <1>3, <2>1, <2>2, <2>3, <2>4, <2>5 DEF TextStep
<1>4. QED
  BY <1>1, <1>2, <1>3 DEF TextNext, TextStep

\* Reading a section needs that extraction goes on.
LEMMA IntakeRuns ==
  IntakeNext => outcome = "running"
BY DEF IntakeNext, BetweenSections, WithinSection, OpenPart, OpenPage, Answer, WritePiece,
       Malformed, CloseSection

\* Every step of the extraction keeps what is known of the document.
LEMMA XmlKeeps ==
  ExtractInv /\ XmlInv /\ [ExtractNext]_extractVars => XmlInv'
<1>1. SUFFICES ASSUME ExtractInv, XmlInv, [ExtractNext]_extractVars, outcome' = "running"
               PROVE  XmlInv'
  BY DEF XmlInv
<1>2. sink \in SinkType /\ pool \in Seq(Seq(Char))
  BY <1>1 DEF ExtractInv, IntakeInv, TextOK, SinkOK, StringsOK
<1>3. ASSUME outcome = "running"
      PROVE  /\ walk \in {"admission", "order", "strings", "tags", "sections"}
             /\ walk \in {"admission", "order", "sections"} => Blank
             /\ walk \in {"admission", "order"} => pool = <<>> /\ ~sink.open
             /\ walk = "strings" => PoolOK /\ ~sink.open
             /\ walk = "tags" => IF sink.open THEN TagsOK ELSE Blank
  BY <1>1, <1>3 DEF XmlInv
<1>4. ASSUME UNCHANGED <<xmlVars, sink, outcome, walk>> PROVE XmlInv'
  <2>1. pool' = pool
    BY <1>4 DEF xmlVars
  <2>2. QED
    BY <1>1, <1>3, <1>4, <2>1, XmlStutters DEF XmlInv
<1>5. CASE UNCHANGED extractVars \/ Admission \/ Ordering
  BY <1>4, <1>5 DEF extractVars, intakeVars, Admission, Ordering
<1>6. ~(Refused \/ Disordered)
  BY <1>1 DEF Refused, Disordered, Fails
<1>7. ASSUME FindDocument \/ \E n, m \in PartBytes : FindManifests(n, m) PROVE XmlInv'
  <2>1. /\ outcome = "running" /\ walk = "admission" /\ UNCHANGED <<xmlVars, sink>>
        /\ walk' \in {"sections", "tags", "order"}
    BY <1>1, <1>7 DEF FindDocument, FindManifests, Fails
  <2>2. Blank' /\ pool' = <<>> /\ ~sink'.open
    BY <1>3, <2>1, XmlStutters DEF xmlVars
  <2>3. QED
    BY <2>1, <2>2 DEF XmlInv
<1>8. ASSUME NEW n \in PartBytes, FindOrdered(n) PROVE XmlInv'
  <2>1. /\ outcome = "running" /\ walk = "order" /\ UNCHANGED <<xmlVars, sink>>
        /\ walk' \in {"sections", "strings"}
    BY <1>1, <1>8 DEF FindOrdered, Fails
  <2>2. Blank' /\ PoolOK' /\ ~sink'.open
    BY <1>3, <2>1, XmlStutters, BlankBegins
  <2>3. QED
    BY <2>1, <2>2 DEF XmlInv
<1>9. CASE ReadSections
  <2>1. outcome = "running" /\ walk = "sections" /\ walk' = walk /\ UNCHANGED xmlVars
    BY <1>9, IntakeRuns DEF ReadSections
  <2>2. Blank'
    BY <1>3, <2>1 DEF Blank, xmlVars, document, flags
  <2>3. QED
    BY <2>1, <2>2 DEF XmlInv
<1>10. CASE ReadStrings
  <2>1. outcome = "running" /\ walk = "strings" /\ PoolOK /\ ~sink.open
    BY <1>3, <1>10 DEF ReadStrings
  <2>2. CASE StringsNext /\ UNCHANGED walk
    BY <1>1, <2>1, <2>2, StringsSay DEF XmlInv
  <2>3. CASE StringsOver /\ walk' = "tags" /\ UNCHANGED intakeVars
    <3>1. Blank' /\ ~sink'.open
      BY <2>1, <2>3 DEF StringsOver, XmlBegins, Blank, intakeVars
    <3>2. QED
      BY <2>3, <3>1 DEF XmlInv
  <2>4. QED
    BY <1>10, <2>2, <2>3 DEF ReadStrings
<1>11. CASE ReadTags
  <2>1. walk = "tags" /\ walk' = walk
    BY <1>11 DEF ReadTags
  <2>2. CASE OpenPart(DetailBytes) /\ UNCHANGED xmlVars
    <3>1. outcome = "running" /\ ~sink.open /\ sink' = Opened(remaining)
      BY <1>1, <2>2 DEF OpenPart
    <3>2. sink'.whole = <<>> /\ sink'.open
      BY <3>1 DEF Opened, Closed
    <3>3. Blank'
      BY <1>3, <2>1, <2>2, <3>1 DEF Blank, xmlVars, document, flags
    <3>4. TagsOK'
      <4>1. /\ Said(<<>>) = <<>> /\ Nested(<<>>, "section")
            /\ Muted(<<>>, 0) /\ Celled(<<>>, sharedCell')
        BY NothingSaid
      <4>2. FlattenSeq(<<>>) = <<>> /\ <<>> \o <<>> = <<>> /\ <<>> \in Seq(Seq(Char))
        BY DEF FlattenSeq
      <4>3. QED
        BY <3>2, <3>3, <4>1, <4>2 DEF Blank, TagsOK, FlagsOK
    <3>5. QED
      BY <2>1, <3>2, <3>4 DEF XmlInv
  <2>3. ~Answer
    BY <1>1 DEF Answer
  <2>4. CASE TextNext
    <3>1. outcome = "running" /\ sink.open
      BY <2>4 DEF TextNext, Malformed, SectionOver, CloseSection
    <3>2. IF sink'.open THEN TagsOK' ELSE Blank'
      BY <1>1, <1>2, <1>3, <2>1, <2>4, <3>1, TagsSay
    <3>3. QED
      BY <2>1, <3>2 DEF XmlInv
  <2>5. QED
    BY <1>11, <2>2, <2>3, <2>4 DEF ReadTags
<1>12. QED
  BY <1>1, <1>5, <1>6, <1>7, <1>8, <1>9, <1>10, <1>11 DEF ExtractNext

\* It holds before anything is read.
LEMMA XmlInitially ==
  ExtractInit => XmlInv
<1>1. SUFFICES ASSUME ExtractInit PROVE XmlInv
  OBVIOUS
<1>2. Blank /\ pool = <<>>
  BY <1>1 DEF ExtractInit, XmlInit, Blank
<1>3. ~sink.open /\ walk \in {"admission", "sections"}
  BY <1>1 DEF ExtractInit, IntakeInit, Closed
<1>4. QED
  BY <1>2, <1>3 DEF XmlInv

\* So it always holds.
LEMMA XmlInvAlways ==
  ExtractSpec => []XmlInv
BY ExtractInitially, ExtractKeeps, XmlInitially, XmlKeeps, PTL DEF ExtractSpec

\* What the elements have said is what the sink was offered, or what was collected.
LEMMA XmlInvIsVisible ==
  XmlInv => VisibleText /\ SharedByIndex
<1>1. SUFFICES ASSUME XmlInv PROVE VisibleText /\ SharedByIndex
  OBVIOUS
<1>2. Unfinished = Said(open)
  BY DEF Unfinished, Said, Sayings
<1>3. Blank => document = <<<<>>, <<>>>>
  BY DEF Blank, document
<1>4. ASSUME outcome = "running", document # <<<<>>, <<>>>>
      PROVE  /\ sink.open => sink.whole = FlattenSeq(done) \o Unfinished
             /\ ~sink.open => pool = done /\ current = Unfinished
  <2>1. walk \in {"strings", "tags"}
    BY <1>1, <1>3, <1>4 DEF XmlInv
  <2>2. CASE walk = "strings"
    BY <1>1, <1>2, <1>4, <2>2 DEF XmlInv, PoolOK
  <2>3. CASE walk = "tags"
    BY <1>1, <1>2, <1>3, <1>4, <2>3 DEF XmlInv, TagsOK
  <2>4. QED
    BY <2>1, <2>2, <2>3
<1>5. QED
  BY <1>4 DEF VisibleText, SharedByIndex

(***************************************************************************)
(* What Extraction promises.                                               *)
(***************************************************************************)

\* While it indexes, the library finds no footer but the one that was checked, nor
\* another ZIP64 record, whatever the archive holds: AdmittedReader of
\* src/intake/zip_admission.rs hides them.
THEOREM OneFooterShown ==
  ExtractSpec => []OneFooter
<1>1. ExtractInv => OneFooter
  BY ZipInvShowsOneFooter DEF ExtractInv
<1>2. QED
  BY <1>1, ExtractInvAlways, PTL

\* The reader never changes what a member says: once the archive is indexed
\* every read shows the cells as they are.
THEOREM PayloadShown ==
  ExtractSpec => []PayloadIntact
<1>1. ExtractInv => PayloadIntact
  BY ZipInvKeepsPayload DEF ExtractInv
<1>2. QED
  BY <1>1, ExtractInvAlways, PTL

\* The library is given a directory only after every member it lists has been
\* walked over and none of their names was met twice.
THEOREM DirectoryWalked ==
  ExtractSpec => []MembersChecked
<1>1. ExtractInv => MembersChecked
  BY ZipInvChecksMembers DEF ExtractInv
<1>2. QED
  BY <1>1, ExtractInvAlways, PTL

\* Slides and sheets are the members their references lead to, each once.
THEOREM SectionsFollowReferences ==
  ExtractSpec => []OrderedFaithfully
<1>1. ExtractInv => OrderedFaithfully
  BY OrderInvIsFaithful DEF ExtractInv
<1>2. QED
  BY <1>1, ExtractInvAlways, PTL

\* While a manifest is read, the identifiers are those of the elements right below a
\* container, in their order, however deep and in whatever company they stand:
\* `collect_ids` of src/intake/office_order.rs, for a manifest of any length.
THEOREM ManifestListed ==
  ExtractSpec => []ListedInOrder
<1>1. ManifestInv => ListedInOrder
  <2>1. \A tag, i, j : Tags(tag, i, j) = CountOf(log, tag, i, j)
    BY DEF Tags, CountOf
  <2>2. \A i : Around(i) = AroundIn(log, i)
    <3>1. ASSUME NEW i PROVE Around(i) = AroundIn(log, i)
      <4> DEFINE O == {j \in 1 .. i - 1 :
                         /\ log[j].tag = "open"
                         /\ Tags("open", j + 1, i - 1) = Tags("close", j + 1, i - 1)}
      <4>1. O = OpenAt(log, i)
        BY <2>1 DEF OpenAt
      <4>2. Around(i) = IF O = {} THEN 0 ELSE CHOOSE j \in O : \A k \in O : k <= j
        BY DEF Around
      <4> HIDE DEF O
      <4>3. QED
        BY <4>1, <4>2 DEF AroundIn
    <3>2. QED
      BY <3>1
  <2>3. \A i : Listed(i) <=> ListedIn(log, i)
    BY <2>2 DEF Listed, ListedIn
  <2>4. FlattenSeq([i \in 1 .. Len(log) |-> IF Listed(i) THEN <<log[i].id>> ELSE <<>>]) = Lists(log)
    BY <2>3 DEF Lists
  <2>5. QED
    BY <2>4 DEF ManifestInv, ListedInOrder
<1>2. QED
  BY <1>1, ManifestInvAlways, PTL

\* No document makes extract return or decompress more than its spec allows,
\* whatever its parts declare and however its text is cut into pieces.
THEOREM BudgetsHold ==
  ExtractSpec => []WithinBudgets
<1>1. ExtractInv => WithinBudgets
  BY IntakeInvHasBudgets DEF ExtractInv
<1>2. QED
  BY <1>1, ExtractInvAlways, PTL

\* An answer says that it is truncated exactly when something is missing, and
\* what it has of a section is the beginning of it.
THEOREM TruncationIsTold ==
  ExtractSpec => []TruncatedIsExact
<1>1. ExtractInv => TruncatedIsExact
  BY IntakeInvIsExact DEF ExtractInv
<1>2. QED
  BY <1>1, ExtractInvAlways, PTL

\* No page with visible text is offered for OCR, were it all lost to the budget.
THEOREM ScansAreBlank ==
  ExtractSpec => []ScansHaveNoText
<1>1. ExtractInv => ScansHaveNoText
  BY IntakeInvIsExact DEF ExtractInv
<1>2. QED
  BY <1>1, ExtractInvAlways, PTL

\* What a sink is offered of a part that is read tag by tag is the visible text of
\* the part, in its order: nothing that is between the elements or there for
\* pronunciation, and for a cell that refers to a shared string that string,
\* however the text is cut into pieces and however deep the elements are.
THEOREM TextIsVisible ==
  ExtractSpec => []VisibleText
<1>1. XmlInv => VisibleText
  BY XmlInvIsVisible
<1>2. QED
  BY <1>1, XmlInvAlways, PTL

\* The shared strings of a workbook are collected one for one: the n-th is the visible
\* text of the n-th si, so that an index means the string it means to Excel.
THEOREM StringsByIndex ==
  ExtractSpec => []SharedByIndex
<1>1. XmlInv => SharedByIndex
  BY XmlInvIsVisible
<1>2. QED
  BY <1>1, XmlInvAlways, PTL
=============================================================================
