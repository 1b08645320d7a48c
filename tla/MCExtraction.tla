---------------------------- MODULE MCExtraction -----------------------------
\* Extraction on small archives, manifests and texts.
EXTENDS Extraction

\* ZipAdmission: what the data of the members may be, before the directory.
Payload == {<<>>, <<0>>, <<P>>, <<P, Eocd>>, <<0, P, Eocd>>, <<P, Zip64>>,
            <<P, Eocd, 0, 0, 0, 0, 0, 0>>}

Named(name, extra, comment) ==
  <<P, Entry, 0, Len(name), Len(extra), Len(comment)>> \o name \o extra \o comment

Entries ==
  {Named(<<0>>, <<>>, <<>>), Named(<<1, 0>>, <<>>, <<P>>), Named(<<P, Eocd>>, <<>>, <<>>),
   Named(<<6>>, <<UnicodePath, 2, 0, 0>>, <<>>), Named(<<0>>, <<UnicodePath, 2>>, <<>>)}

Directories ==
  {<<>>} \cup Entries \cup {e \o f : e, f \in Entries}

Comments == {<<>>, <<0>>, <<P, Eocd>>}

\* An archive with one directory and, if zip64, a ZIP64 record; off shifts
\* the size that the footer says.
Archive(payload, entries, count, off, zip64, comment) ==
  LET size == Larger(0, Len(entries) + off) IN
  payload \o entries
    \o (IF zip64 THEN <<P, Zip64, 5, 0, count, count, size, Len(payload)>>
                      \o <<P, Locator, 0, Len(payload \o entries), 1>>
        ELSE <<>>)
    \o <<P, Eocd, 0, count, count, IF zip64 THEN Sentinel ELSE size, Len(payload), Len(comment)>>
    \o comment

Archives ==
  {Archive(p, d, c, off, z, comment) :
     p \in Payload, d \in Directories, c \in 0 .. 2, off \in {-1, 0, 1}, z \in BOOLEAN,
     comment \in Comments}

-----------------------------------------------------------------------------
\* OfficeOrder: targets, relationships with them, and members.

To(absolute, steps) == [absolute |-> absolute, steps |-> steps]

\* Two members, one of them under three names, one that does not exist, and two
\* targets outside the package.
Targets ==
  {To(FALSE, <<"slides", "one">>), To(TRUE, <<"ppt", "slides", "one">>),
   To(FALSE, <<"..", "ppt", ".", "slides", "one">>), To(FALSE, <<"slides", "two">>),
   To(FALSE, <<"slides">>), To(FALSE, <<"..", "..">>), To(FALSE, <<"..">>)}

Relationships ==
  [id : RelId, relevant : {TRUE}, external : {FALSE}, target : Targets \cup {Missing}]
    \cup [id : RelId, relevant : {TRUE}, external : {TRUE}, target : {To(FALSE, <<"slides", "two">>)}]
    \cup [id : RelId \cup {Missing}, relevant : {FALSE}, external : {FALSE},
          target : {To(FALSE, <<"slides", "two">>)}]

Members == {<<"ppt", "slides", "one">>, <<"ppt", "slides", "two">>}

-----------------------------------------------------------------------------
\* Intake: a letter of one byte, one of three, a digit and white space.
Letter == [w |-> 1, blank |-> FALSE, digit |-> 10, of |-> "a"]
Wide3 == [w |-> 3, blank |-> FALSE, digit |-> 10, of |-> "w"]
Digit(n) == [w |-> 1, blank |-> FALSE, digit |-> n, of |-> "0"]
Space(name) == [w |-> 1, blank |-> TRUE, digit |-> 10, of |-> name]

LineFeed == Space("n")
Tabulator == Space("t")
Chars == {Letter, Wide3, Digit(0), Digit(1), LineFeed, Tabulator}
Pieces == SeqOf({Letter, Wide3, LineFeed}, 2) \ {<<>>}

-----------------------------------------------------------------------------
\* XmlText.
XmlPieces == {<<Letter>>, <<Digit(0)>>}

Schema == [
  strings |-> {"si"}, section |-> {"p", "c"},
  si |-> {"t", "rPh", "other"}, other |-> {"t"}, rPh |-> {"t", "rPh"},
  p |-> {"t", "br", "tab", "c"}, c |-> {"v", "t", "rPh"},
  t |-> {}, v |-> {}, br |-> {}, tab |-> {}]
=============================================================================
