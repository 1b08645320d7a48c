------------------------------- MODULE Intake --------------------------------
(***************************************************************************)
(* Bounded extraction of a document section by section: extract_office,    *)
(* extract_pdf, read_part and TextSink of src/intake/mod.rs.               *)
(*                                                                         *)
(* A section is a page, a slide, a sheet or a whole text document.  Its    *)
(* parser writes text piece by piece into a sink, which takes what the     *)
(* budget still allows, cut at the end of a character.  For the parts of   *)
(* an Office archive the bytes that decompression yields are budgeted      *)
(* too, whatever the archive declared.                                     *)
(***************************************************************************)
EXTENDS Integers, SequencesExt

CONSTANTS
  Char,          \* characters: [w |-> bytes in UTF-8, blank |-> whether white space,
                 \* digit |-> its value, or 10 for one that is no digit]
  MaxTextBytes,  \* spec.max_text_bytes
  MaxSections,   \* spec.max_sections
  MaxPart, MaxExpanded,   \* what one part, and all of them, may decompress to
  PartBytes,     \* what a part may decompress to
  Piece,         \* bound: what a parser may write at once
  SectionChars,  \* bound: characters of a section
  Sections       \* bound: sections of a document

ASSUME IntakeAssumption ==
  /\ \A c \in Char : c.w \in Nat \ {0} /\ c.blank \in BOOLEAN /\ c.digit \in 0 .. 10
  /\ Piece \subseteq Seq(Char) \ {<<>>}
  /\ MaxTextBytes \in Nat \ {0} /\ MaxSections \in Nat \ {0}
  /\ MaxPart \in Nat /\ MaxExpanded \in Nat /\ PartBytes \subseteq Nat
  /\ SectionChars \in Nat /\ Sections \in Nat

VARIABLES
  office,     \* an Office archive or a PDF
  total,      \* how many sections the document has
  sections,   \* the sections done: their whole text and what was kept of it
  sink,       \* the sink of the section being read
  remaining,  \* what the text budget still allows
  expanded,   \* bytes decompressed so far
  truncated,  \* ExtractedDocument::truncated
  outcome     \* "running", "Ok" or "ExtractionFailed"

intakeVars == <<office, total, sections, sink, remaining, expanded, truncated, outcome>>

Smaller(a, b) == IF a <= b THEN a ELSE b
Bytes(text) == FoldLeft(LAMBDA n, c : n + c.w, 0, text)
AllBlank(text) == \A i \in 1 .. Len(text) : text[i].blank

\* The sections that are extracted.
Taken == Smaller(total, MaxSections)

\* `whole` is history: everything the parser wrote, kept or not.
Closed == [open |-> FALSE, limit |-> 0, whole |-> <<>>, text |-> <<>>, cut |-> FALSE]
Opened(limit) == [Closed EXCEPT !.open = TRUE, !.limit = limit]

\* The longest beginning of the piece, in whole characters, that still fits.
Fitting(piece, room) ==
  LET n == CHOOSE n \in 0 .. Len(piece) :
             /\ Bytes(SubSeq(piece, 1, n)) <= room
             /\ n < Len(piece) => Bytes(SubSeq(piece, 1, n + 1)) > room
  IN SubSeq(piece, 1, n)

\* Bug: a piece that was cut does not stop later ones that fit.
TakingAny(s, piece) ==
  LET kept == Fitting(piece, s.limit - Bytes(s.text)) IN
  [s EXCEPT !.whole = @ \o piece, !.text = @ \o kept, !.cut = @ \/ kept # piece]

\* TextSink::append.
Taking(s, piece) ==
  LET kept == IF s.cut THEN <<>> ELSE Fitting(piece, s.limit - Bytes(s.text)) IN
  [s EXCEPT !.whole = @ \o piece, !.text = @ \o kept, !.cut = @ \/ kept # piece]

-----------------------------------------------------------------------------

\* Before the sections.  A PDF has its pages; the parts of an Office archive are
\* yet to be found.
IntakeInit ==
  /\ office \in BOOLEAN
  /\ total \in IF office THEN {0} ELSE 0 .. Sections
  /\ expanded = 0
  /\ sections = <<>> /\ sink = Closed
  /\ remaining = MaxTextBytes
  /\ truncated = (total > MaxSections)
  /\ outcome = "running"

\* The parts have been found, at least one.
FindParts(parts) == total' = parts /\ truncated' = (parts > MaxSections)

\* read_part: no more than one byte over the limit of a part is decompressed.
Decompress(n) == expanded' = expanded + Smaller(n, MaxPart + 1)
Excessive(n) == n > MaxPart \/ expanded' > MaxExpanded

OpenPart(n) ==
  /\ office /\ outcome = "running" /\ ~sink.open /\ Len(sections) < Taken
  /\ Decompress(n)
  /\ IF Excessive(n)
     THEN outcome' = "ExtractionFailed" /\ UNCHANGED sink
     ELSE sink' = Opened(remaining) /\ UNCHANGED outcome
  /\ UNCHANGED <<office, total, sections, remaining, truncated>>

OpenPage ==
  /\ ~office /\ outcome = "running" /\ ~sink.open /\ Len(sections) < Taken
  /\ sink' = Opened(remaining)
  /\ UNCHANGED <<office, total, sections, remaining, expanded, truncated, outcome>>

\* The parser of the section writes a piece of its text.
WritePiece(piece) ==
  /\ sink.open /\ outcome = "running" /\ Len(sink.whole \o piece) <= SectionChars
  /\ sink' = Taking(sink, piece)
  /\ UNCHANGED <<office, total, sections, remaining, expanded, truncated, outcome>>

\* The section is malformed: nothing is returned.
Malformed ==
  /\ sink.open /\ outcome = "running"
  /\ outcome' = "ExtractionFailed"
  /\ UNCHANGED <<office, total, sections, sink, remaining, expanded, truncated>>

\* Bug: a page is judged by what was kept of it.
ScannedByText(s) == ~office /\ AllBlank(s.text)

\* A page without text that was not cut may be a scan.
Scanned(s) == ~office /\ AllBlank(s.text) /\ ~s.cut

\* Bug: every section has the whole budget.
CloseSectionAnew ==
  /\ sink.open /\ outcome = "running"
  /\ sections' = Append(sections, [whole |-> sink.whole, text |-> sink.text,
                                   scanned |-> Scanned(sink)])
  /\ truncated' = (truncated \/ sink.cut)
  /\ sink' = Closed
  /\ UNCHANGED <<office, total, remaining, expanded, outcome>>

CloseSection ==
  /\ sink.open /\ outcome = "running"
  /\ sections' = Append(sections, [whole |-> sink.whole, text |-> sink.text,
                                   scanned |-> Scanned(sink)])
  /\ remaining' = remaining - Bytes(sink.text)
  /\ truncated' = (truncated \/ sink.cut)
  /\ sink' = Closed
  /\ UNCHANGED <<office, total, expanded, outcome>>

Answer ==
  /\ outcome = "running" /\ ~sink.open /\ Len(sections) = Taken
  /\ office => total > 0
  /\ outcome' = "Ok"
  /\ UNCHANGED <<office, total, sections, sink, remaining, expanded, truncated>>

BetweenSections == (\E n \in PartBytes : OpenPart(n)) \/ OpenPage \/ Answer

WithinSection == (\E piece \in Piece : WritePiece(piece)) \/ Malformed \/ CloseSection

IntakeNext == BetweenSections \/ WithinSection

IntakeSpec == IntakeInit /\ [][IntakeNext]_intakeVars

-----------------------------------------------------------------------------
(* Properties.                                                             *)

\* The text that is returned stays within the one budget that all sections
\* share, and extraction goes on only while what was decompressed is within its
\* own, however many parts there are and whatever sizes they declared.
WithinBudgets ==
  /\ Bytes(sink.text) + FoldLeft(LAMBDA n, s : n + Bytes(s.text), 0, sections) <= MaxTextBytes
  /\ remaining \in 0 .. MaxTextBytes
  /\ outcome # "ExtractionFailed" => expanded <= MaxExpanded

\* `truncated` says exactly whether something is missing, and what is missing is
\* missing at the end: of a section, whose text is never resumed after a cut,
\* or of the sections.
TruncatedIsExact ==
  outcome = "Ok" =>
    /\ \A i \in 1 .. Len(sections) : IsPrefix(sections[i].text, sections[i].whole)
    /\ truncated <=> \/ Len(sections) < total
                     \/ \E i \in 1 .. Len(sections) : sections[i].text # sections[i].whole

\* Only a page without visible text is offered for OCR as a scan: one whose text
\* fell victim to the budget is not.
ScansHaveNoText ==
  \A i \in 1 .. Len(sections) : sections[i].scanned => ~office /\ AllBlank(sections[i].whole)
=============================================================================
