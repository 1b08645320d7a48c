------------------------------ MODULE Markdown -------------------------------
(***************************************************************************)
(* A PDF or Office document as Markdown: `convert` of src/markdown.        *)
(*                                                                         *)
(* Text is a sequence of characters; those outside White are distinct      *)
(* letters.  What pdf-extract, zip, quick_xml and calamine make of a file  *)
(* is the source: pages, members of an archive with paragraphs of runs, or *)
(* sheets with cells.                                                      *)
(***************************************************************************)
EXTENDS Integers, SequencesExt

CONSTANTS
  Gap, LineEnd, PageBreak,   \* a space or tab, a newline, a form feed
  Bar,                       \* separates cells
  TextStart, TextStop, ParagraphStop, Broken,   \* XML events other than text
  Source,                    \* documents: [format, bytes, pages | members | sheets]
  MaxDocumentBytes, MaxDecompressed, MaxDenseCells

White == {Gap, LineEnd, PageBreak}

ASSUME MarkdownAssumption ==
  /\ {MaxDocumentBytes, MaxDecompressed, MaxDenseCells} \subseteq Nat
  /\ {TextStart, TextStop, ParagraphStop, Broken, Bar} \cap White = {}

VARIABLES
  source,      \* the document
  todo,        \* parts or sheets that are to be read
  markdown,    \* the text so far
  conversion   \* "size", "open", "members", "parts", "sheets", "text" or the answer

convertVars == <<source, todo, markdown, conversion>>

Stops(error) == conversion' = error /\ UNCHANGED <<todo, markdown>>

-----------------------------------------------------------------------------
(* normalize.                                                              *)

Split(text, at) ==
  FoldLeft(LAMBDA parts, c : IF c = at THEN Append(parts, <<>>)
                             ELSE Append(Front(parts), Append(Last(parts), c)), <<<<>>>>, text)

Letters(text) == {i \in 1 .. Len(text) : text[i] \notin White}
Textless(text) == Letters(text) = {}
TrimEnd(text) == IF Textless(text) THEN <<>> ELSE SubSeq(text, 1, Max(Letters(text)))
Trim(text) == IF Textless(text) THEN <<>> ELSE SubSeq(text, Min(Letters(text)), Max(Letters(text)))

\* Every run of white space in a line becomes one space.
Spaced(line) ==
  FoldLeft(LAMBDA out, c : IF c \notin White THEN Append(out, c)
                           ELSE IF out # <<>> /\ Last(out) = Gap THEN out
                           ELSE Append(out, Gap), <<>>, TrimEnd(line))

Normalize(text) ==
  LET lines == Split(text, LineEnd)
      Kept(i) == IF ~Textless(lines[i]) THEN Append(Spaced(lines[i]), LineEnd)
                 ELSE IF i = 1 \/ ~Textless(lines[i - 1]) THEN <<LineEnd>>
                 ELSE <<>>
  IN Trim(FlattenSeq([i \in 1 .. Len(lines) |-> Kept(i)]))

Joined(texts) ==
  FlattenSeq([i \in 1 .. Len(texts) |-> IF i = 1 THEN texts[i] ELSE <<PageBreak>> \o texts[i]])

-----------------------------------------------------------------------------
(* A part of an archive: paragraphs of runs [shown, text], up to a fault   *)
(* that leaves `lost` of its XML unread.                                   *)

Run(r) == IF r.shown THEN <<TextStart>> \o r.text \o <<TextStop>> ELSE r.text
Paragraph(runs) == Append(FlattenSeq([i \in 1 .. Len(runs) |-> Run(runs[i])]), ParagraphStop)

Xml(member) ==
  LET whole == FlattenSeq([i \in 1 .. Len(member.paragraphs) |-> Paragraph(member.paragraphs[i])])
  IN IF member.lost = 0 THEN whole ELSE Append(SubSeq(whole, 1, Len(whole) - member.lost), Broken)

\* xml_text: a fault ends the events, and the text before it is kept.
XmlText(xml) ==
  LET Step(acc, e) ==
        CASE e \in {TextStart, TextStop} -> [acc EXCEPT !.inText = (e = TextStart)]
          [] e = ParagraphStop -> [acc EXCEPT !.out = @ \o <<LineEnd, LineEnd>>]
          [] e = Broken -> acc
          [] OTHER -> IF acc.inText THEN [acc EXCEPT !.out = Append(@, e)] ELSE acc
  IN FoldLeft(Step, [inText |-> FALSE, out |-> <<>>], xml).out

-----------------------------------------------------------------------------

ConvertInit ==
  /\ source \in Source
  /\ todo = <<>> /\ markdown = <<>> /\ conversion = "size"

CheckSize ==
  /\ conversion = "size"
  /\ IF source.bytes \notin 1 .. MaxDocumentBytes THEN Stops("InvalidInput")
     ELSE conversion' = "open" /\ UNCHANGED <<todo, markdown>>
  /\ UNCHANGED source

\* A PDF that is rejected, or on which the parser panics; no archive, or one with
\* an entry that cannot be inspected; no workbook.
ParserFails ==
  /\ conversion = "open" /\ Stops("ExtractionFailed")
  /\ UNCHANGED source

ConvertPdf ==
  /\ conversion = "open" /\ source.format = "pdf"
  /\ markdown' = Joined([i \in 1 .. Len(source.pages) |-> Normalize(source.pages[i])])
  /\ conversion' = "text"
  /\ UNCHANGED <<source, todo>>

Expansion == FoldLeft(LAMBDA n, m : n + m.declared, 0, source.members)

\* The sizes that the entries declare are added up before any of them is read.
OpenArchive ==
  /\ conversion = "open" /\ source.format # "pdf"
  /\ IF Expansion > MaxDecompressed THEN Stops("ExtractionFailed")
     ELSE /\ conversion' = CASE source.format = "docx" -> "parts" [] source.format = "pptx" -> "members"
                             [] OTHER -> "sheets"
          /\ todo' = CASE source.format = "docx" -> SelectSeq(source.members, LAMBDA m : m.kind = "body")
                       [] source.format = "pptx" -> <<>> [] OTHER -> source.sheets
          /\ UNCHANGED markdown
  /\ UNCHANGED source

\* Bug: slide 10 comes before slide 2.
BySpelling(m, n) == m.spelled < n.spelled

\* Two spellings of one number are ordered as names.
Before(m, n) == m.number < n.number \/ (m.number = n.number /\ m.spelled < n.spelled)

\* A name that is no text is an error if it begins like that of a slide.
ListSlides ==
  /\ conversion = "members"
  /\ IF \E i \in 1 .. Len(source.members) : source.members[i].kind = "slide" /\ ~source.members[i].named
     THEN Stops("ExtractionFailed")
     ELSE /\ todo' = SortSeq(SelectSeq(source.members, LAMBDA m : m.kind = "slide"), Before)
          /\ conversion' = "parts" /\ UNCHANGED markdown
  /\ UNCHANGED source

Capped(xml) == IF Len(xml) <= MaxDecompressed THEN xml ELSE SubSeq(xml, 1, MaxDecompressed)

\* One part: what cannot be read is skipped, what is too long is cut off.
ReadPart ==
  /\ conversion = "parts" /\ todo # <<>> /\ todo' = Tail(todo)
  /\ LET xml == Xml(Head(todo)) IN
     IF Head(todo).damaged /\ Len(xml) <= MaxDecompressed THEN UNCHANGED markdown
     ELSE markdown' = markdown \o XmlText(Capped(xml))
  /\ UNCHANGED <<source, conversion>>

\* A sheet is [name, cells, readable], with cells [row, col, text] that have a value
\* and are each in a place of their own; dense_cells, and the grid of all cells in
\* between.
Span(ns) == Min(ns) .. Max(ns)
Rows(sheet) == {c.row : c \in ToSet(sheet.cells)}
Columns(sheet) == {c.col : c \in ToSet(sheet.cells)}
DenseCells(sheet) == Cardinality(Span(Rows(sheet))) * Cardinality(Span(Columns(sheet)))

CellText(sheet, row, col) ==
  FlattenSeq([i \in 1 .. Len(sheet.cells) |->
                IF sheet.cells[i].row = row /\ sheet.cells[i].col = col THEN sheet.cells[i].text ELSE <<>>])

RowText(sheet, row) ==
  LET texts == [n \in 1 .. Cardinality(Span(Columns(sheet))) |->
                  CellText(sheet, row, Min(Columns(sheet)) + n - 1)]
  IN IF \A n \in DOMAIN texts : Textless(texts[n]) THEN <<>>
     ELSE sheet.name \o FlattenSeq([n \in DOMAIN texts |-> <<Gap, Bar, Gap>> \o Trim(texts[n])])
            \o <<LineEnd>>

GridText(sheet) ==
  LET first == Min(Rows(sheet))
  IN FlattenSeq([n \in 1 .. Cardinality(Span(Rows(sheet))) |-> RowText(sheet, first + n - 1)])

\* One sheet: nothing is said of one without cells, or one that cannot be read to
\* its end; but the cells before a fault count.
ReadSheet ==
  /\ conversion = "sheets" /\ todo # <<>>
  /\ LET sheet == Head(todo) IN
     IF sheet.cells # <<>> /\ DenseCells(sheet) > MaxDenseCells THEN Stops("ExtractionFailed")
     ELSE /\ todo' = Tail(todo) /\ UNCHANGED conversion
          /\ markdown' = IF sheet.cells = <<>> \/ ~sheet.readable THEN markdown
                         ELSE markdown \o GridText(sheet)
  /\ UNCHANGED source

Extracted ==
  /\ conversion \in {"parts", "sheets"} /\ todo = <<>>
  /\ conversion' = "text" /\ markdown' = Normalize(markdown)
  /\ UNCHANGED <<source, todo>>

Converted ==
  /\ conversion = "text"
  /\ conversion' = IF Textless(markdown) THEN "ExtractionFailed" ELSE "Ok"
  /\ UNCHANGED <<source, todo, markdown>>

ConvertNext ==
  \/ CheckSize \/ ParserFails \/ ConvertPdf \/ OpenArchive \/ ListSlides
  \/ ReadPart \/ ReadSheet \/ Extracted \/ Converted

ConvertSpec == ConvertInit /\ [][ConvertNext]_convertVars

-----------------------------------------------------------------------------
(* Properties.                                                             *)

Words(text) ==
  LET even == [i \in 1 .. Len(text) |-> IF text[i] \in White THEN Gap ELSE text[i]]
  IN SelectSeq(Split(even, Gap), LAMBDA word : word # <<>>)

\* What a part says: no word goes beyond its paragraph.  A line break or a tab
\* inside a paragraph is no text, and does not part words.
ShownText(runs) == FlattenSeq([i \in 1 .. Len(runs) |-> IF runs[i].shown THEN runs[i].text ELSE <<>>])
PartWords(m) == FlattenSeq([i \in 1 .. Len(m.paragraphs) |-> Words(ShownText(m.paragraphs[i]))])

\* What a sheet says: row by row, the name of the sheet before each row.
SheetWords(sheet) ==
  LET spoken == SelectSeq(sheet.cells, LAMBDA c : ~Textless(c.text))
      inOrder == SortSeq(spoken, LAMBDA c, d : c.row < d.row \/ (c.row = d.row /\ c.col < d.col))
      Begins(i) == i = 1 \/ inOrder[i - 1].row < inOrder[i].row
  IN FlattenSeq([i \in 1 .. Len(inOrder) |->
       (IF Begins(i) THEN Words(sheet.name) ELSE <<>>) \o Words(inOrder[i].text)])

SlidesOf(s) == SortSeq(SelectSeq(s.members, LAMBDA m : m.kind = "slide"),
                     LAMBDA m, n : m.number < n.number \/ (m.number = n.number /\ m.spelled < n.spelled))

SourceWords(s) ==
  CASE s.format = "pptx" -> FlattenSeq([i \in 1 .. Len(SlidesOf(s)) |-> PartWords(SlidesOf(s)[i])])
    [] s.format = "docx" ->
         LET body == SelectSeq(s.members, LAMBDA m : m.kind = "body")
         IN FlattenSeq([i \in 1 .. Len(body) |-> PartWords(body[i])])
    [] OTHER -> FlattenSeq([i \in 1 .. Len(s.sheets) |-> SheetWords(s.sheets[i])])

Heard == SelectSeq(Words(markdown), LAMBDA word : word # <<Bar>>)

AllThere ==
  IF source.format = "pdf"
  THEN LET pages == Split(markdown, PageBreak)
       IN /\ Len(pages) = Len(source.pages)
          /\ \A i \in 1 .. Len(pages) : Words(pages[i]) = Words(source.pages[i])
  ELSE Heard = SourceWords(source)

Intact(s) ==
  CASE s.format = "pdf" -> TRUE
    [] s.format = "xlsx" -> \A i \in 1 .. Len(s.sheets) : s.sheets[i].readable
    [] OTHER -> \A i \in 1 .. Len(s.members) :
                  LET m == s.members[i]
                  IN ~m.damaged /\ m.lost = 0 /\ Len(Xml(m)) <= MaxDecompressed

\* The words of an intact document are all in its Markdown, each once, whole and
\* apart from the next, in the order of pages, slide numbers, or rows; and the
\* page breaks split a PDF into its own pages again, empty ones too, whatever white
\* space is on the pages.
WordsInPlace == conversion = "Ok" /\ Intact(source) => AllThere

\* "The result is complete rather than silently truncated."  (mod.rs:28)
CompleteNotTruncated == conversion = "Ok" => AllThere
=============================================================================
