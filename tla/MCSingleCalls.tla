---------------------------- MODULE MCSingleCalls ----------------------------
\* SingleCalls on small decks, files, texts and documents.
EXTENDS SingleCalls, MCMarkdown

\* ImageStream: an image, one that is too large, one with a picture appended that
\* needs a byte of the next file, and a file that is no image but contains one.
FileOf(len, heads) == [len |-> len, heads |-> heads]

Files == {FileOf(1, 0 :> 1), FileOf(4, 0 :> 1), FileOf(3, 0 :> 1 @@ 2 :> 2), FileOf(2, 1 :> 1)}

-----------------------------------------------------------------------------
\* ImageInspection: segments with and without fill bytes, one of them with a
\* thumbnail, one with nothing but its length, one that ends in a fill byte.
Segment(fill, marker, data) ==
  [i \in 1 .. fill |-> Fill] \o <<marker, Len(data) + 1>> \o data

Thumbnail == <<Fill, Soi, Fill, Sof, 6, 8, 9, 9, 1, 1>>

Segments ==
  {Segment(1, 2, <<>>), Segment(1, 2, Thumbnail), Segment(3, 2, <<4, Fill>>),
   <<Fill, Restart>>, <<Fill, Fill, Soi>>}

Frames == [w : {0, 3}, h : {2}, n : {1, 2}, len : {4, 6, 7}]

Jpegs == [head : SeqOf(Segments, 2), stopped : BOOLEAN, frame : Frames, rest : {<<>>, <<Fill, Stop, 5>>}]

Pngs == [raw : {<<Png, PngChunk, Ihdr, w, 7, 5, 5, 5>> : w \in {0, 7}}
                 \cup {<<Png, 12, Ihdr, 7, 7, 5>>, <<4, 4>>, <<Fill, Soi, 4>>, <<Fill, Soi, Fill, Fill>>,
                       <<Fill, Soi, Fill, 0, 4>>, <<Fill, Soi, Fill, 2, 0, 4>>}]

Pictures == Jpegs \cup Pngs

-----------------------------------------------------------------------------
\* Synthesis: nothing, a blank, a word and a text that is too long for all but prose.
Nothing == [chars |-> 0, blank |-> TRUE]
Space == [chars |-> 1, blank |-> TRUE]
Word == [chars |-> 1, blank |-> FALSE]
Long == [chars |-> 3, blank |-> FALSE]
Of(kind, texts) == [i \in 1 .. Len(texts) |-> [kind |-> kind, text |-> texts[i]]]

HeadTextsMC == {Space, Word, Long, [chars |-> 2, blank |-> FALSE]}

Sections ==
  {Of("heading", h) \o Of("paragraph", p) \o Of("bullet", b) :
     h \in {<<>>, <<Word>>}, p \in {<<>>, <<Long>>, <<Space, Word>>},
     b \in {<<>>, <<Space>>, <<Word, Space, Word>>}}
  \cup {Of("heading", <<Long>>), Of("bullet", <<Word, Word, Space, Space>>), Of("paragraph", <<Nothing>>)}

Slides ==
  {Of("title", <<t>>) \o Of("body", b) \o Of("bullet", l) \o Of("notes", n) \o Of("caption", c) :
     t \in {Nothing, Word}, b \in {<<>>, <<Space>>}, l \in {<<>>, <<Word, Space, Word>>},
     n \in {<<>>, <<Word>>}, c \in {<<>>, <<Space, Word>>}}
  \cup {Of("title", <<Nothing>>) \o Of("body", <<Long>>), Of("title", <<Nothing>>) \o Of("body", <<Word>>),
         Of("title", <<Space>>) \o Of("bullet", <<Word, Word, Space, Space>>)}

-----------------------------------------------------------------------------
\* PdfRender: a square page, a wide one, a tall one and a sliver.
PaperSizes == {[w |-> 2, h |-> 2], [w |-> 5, h |-> 3], [w |-> 3, h |-> 7], [w |-> 9, h |-> 1]}
=============================================================================
