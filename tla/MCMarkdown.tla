------------------------------ MODULE MCMarkdown -----------------------------
\* Small documents for Markdown.
EXTENDS Markdown

CONSTANTS A, B   \* letters

PageTexts == {<<>>, <<Gap, A, Gap, Gap, B>>, <<A, LineEnd, PageBreak, LineEnd, B, LineEnd>>, <<B, PageBreak, A>>}
Pdfs == [format : {"pdf"}, bytes : {0, 2, 9}, pages : SeqOf(PageTexts, 3)]

\* Paragraphs: a word in two runs, a blank one, one with text that is not shown.
Shown(text) == [shown |-> TRUE, text |-> text]
Paragraphs == {<<Shown(<<A>>), Shown(<<B, Gap>>)>>, <<Shown(<<Gap>>)>>,
               <<[shown |-> FALSE, text |-> <<B>>], Shown(<<B>>)>>}

Part(kind, number, spelled, named, paragraphs, declared, damaged, lost) ==
  [kind |-> kind, number |-> number, spelled |-> spelled, named |-> named, paragraphs |-> paragraphs,
   declared |-> declared, damaged |-> damaged, lost |-> lost]

DeclaredSizes == {0, 4, 9}   \* an archive of three exceeds the limit with the largest
Bodies == {Part("body", 0, 0, TRUE, ps, d, damaged, lost) :
             ps \in SeqOf(Paragraphs, 2), d \in DeclaredSizes, damaged \in BOOLEAN, lost \in 0 .. 2}
Other == Part("other", 0, 9, FALSE, <<>>, 4, FALSE, 0)
Docxs == [format : {"docx"}, bytes : {2}, members : {<<>>} \cup {<<b, Other>> : b \in Bodies}]

\* slide10 and slide2, a second spelling of 2, and one whose name is no text.
SlideParts == {Part("slide", n[1], n[2], n[3], <<p>>, 4, d, l) :
                 n \in {<<10, 1, TRUE>>, <<2, 3, TRUE>>, <<2, 2, TRUE>>, <<0, 0, FALSE>>},
                 p \in Paragraphs, d \in BOOLEAN, l \in {0, 2}}
Decks == {m \in SeqOf(SlideParts \cup {Other}, 2) : \A i, j \in 1 .. Len(m) : m[i].spelled = m[j].spelled => i = j}

\* All three slides, each with a paragraph of its own, in any order.
Full == {m \in [1 .. 3 -> SlideParts] : IsInjective([i \in 1 .. 3 |-> m[i].number + m[i].spelled])
           /\ \A i \in 1 .. 3 : m[i].named /\ ~m[i].damaged /\ m[i].lost = 0}
Pptxs == [format : {"pptx"}, bytes : {2}, members : Decks \cup Full]

Cells == {<<>>, <<[row |-> 2, col |-> 1, text |-> <<A, Gap>>]>>,
          <<[row |-> 2, col |-> 3, text |-> <<B, LineEnd, A>>], [row |-> 1, col |-> 1, text |-> <<A>>],
            [row |-> 1, col |-> 2, text |-> <<Gap>>]>>,
          <<[row |-> 1, col |-> 1, text |-> <<A>>], [row |-> 3, col |-> 2, text |-> <<B>>]>>,
          <<[row |-> 1, col |-> 1, text |-> <<A>>], [row |-> 3, col |-> 3, text |-> <<B>>]>>}
Sheets == [name : {<<A>>, <<A, Gap, B>>}, cells : Cells, readable : BOOLEAN]
Xlsxs == [format : {"xlsx"}, bytes : {2}, members : {<<Other>>, <<Other, Other, Other>>}, sheets : SeqOf(Sheets, 2)]

Documents == Pdfs \cup Docxs \cup Pptxs \cup Xlsxs
=============================================================================
