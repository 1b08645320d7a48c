------------------------------- MODULE XmlText -------------------------------
(***************************************************************************)
(* The text of an Office part: xml_strings, xml_events and xml_text of     *)
(* src/intake/mod.rs.  The shared strings of a workbook are collected      *)
(* first, then the part is walked and its visible text goes to the sink of *)
(* Intake; a cell may refer to a shared string by its index.               *)
(*                                                                         *)
(* quick_xml is external: it delivers tags that match, text in any pieces, *)
(* or an error at any point.  Prefixes, encodings, and all names and       *)
(* attributes that the walks do not look at are left out; "p" stands for   *)
(* p and row, "br" for br and cr.                                          *)
(***************************************************************************)
EXTENDS Intake

CONSTANTS
  Children,          \* which elements stand in which: a schema; "strings" and
                     \* "section" name the documents themselves
  XmlPiece,          \* what one piece of text may be
  Newline, Tab,      \* members of Char
  MaxDepth,          \* elements that may be open
  MaxSharedStrings, MaxSharedBytes,   \* MAX_SHARED_STRINGS, MAX_SHARED_TEXT_BYTES
  MaxIndexChars,     \* characters of an index
  ElementChars       \* bound: characters of an element

ASSUME XmlAssumption ==
  /\ {"strings", "section"} \subseteq DOMAIN Children
  /\ \A e \in DOMAIN Children : Children[e] \subseteq DOMAIN Children
  /\ Newline \in Char /\ Tab \in Char /\ XmlPiece \subseteq Seq(Char)
  /\ {MaxDepth, MaxSharedStrings, MaxSharedBytes, MaxIndexChars, ElementChars} \subseteq Nat

\* What can stand somewhere in an element, however deep.
Inside == [e \in DOMAIN Children |->
  {n \in DOMAIN Children : \A X \in SUBSET DOMAIN Children :
     Children[e] \subseteq X /\ (\A d \in X : Children[d] \subseteq X) => n \in X}]

\* What the schemas of Office say of the elements that the walks look at: t and v
\* hold nothing but text, v stands in a cell and nowhere else, no cell stands in a
\* cell, a pronunciation has no values, and the strings of a workbook are a flat
\* list of si without cells or paragraphs.
ASSUME SchemaAssumption ==
  /\ Children["strings"] \subseteq {"si"}
  /\ \A e \in DOMAIN Children :
       /\ e \in {"t", "v"} => Children[e] = {}
       /\ "v" \in Children[e] => e = "c"
       /\ e = "c" => "c" \notin Inside[e]
       /\ e = "rPh" => "v" \notin Inside[e]
       /\ e = "si" => Inside[e] \cap {"si", "p", "c", "v"} = {}

VARIABLES
  open,       \* the elements that are open, depth is their number; their text is history
  done,       \* history: the text of the elements that are over, string by string
              \* or of the whole section
  phonetic,   \* depth of the outermost rPh that is open, or 0
  inText,     \* in_text
  inValue,    \* value
  sharedCell, \* shared_cell
  current,    \* the string, or the index, that is being read
  pool        \* the shared strings

document == <<open, done>>
flags == <<inText, inValue, sharedCell>>
xmlVars == <<document, phonetic, flags, current, pool>>

XmlInit ==
  /\ open = <<>> /\ done = <<>> /\ phonetic = 0
  /\ inText = FALSE /\ inValue = FALSE /\ sharedCell = FALSE
  /\ current = <<>> /\ pool = <<>>

\* Every document is walked with a state of its own; the strings stay.
XmlBegins ==
  /\ open' = <<>> /\ done' = <<>> /\ phonetic' = 0
  /\ inText' = FALSE /\ inValue' = FALSE /\ sharedCell' = FALSE /\ current' = <<>>

Fails == outcome' = "ExtractionFailed"

-----------------------------------------------------------------------------
(* What a document says, by its elements: none of the flags of the walks   *)
(* is used.                                                                *)

MayHold(kind, name) == name \in Children[IF open = <<>> THEN kind ELSE Last(open).name]

Breaks(name) == CASE name = "br" -> <<Newline>> [] name = "tab" -> <<Tab>> [] OTHER -> <<>>

IsIndex(text) == text # <<>> /\ \A i \in 1 .. Len(text) : text[i].digit < 10
Parsed(text) == FoldLeft(LAMBDA n, c : 10 * n + c.digit, 0, text)
Refers(path) == Last(path).name = "v" /\ \E i \in 1 .. Len(path) : path[i].shared

Pronounced(path) == \E i \in 1 .. Len(path) : path[i].name = "rPh"

\* The text of the innermost element once it is over: a value may stand for a
\* shared string.
Content(path, strings) ==
  CASE Refers(path) -> strings[Parsed(Last(path).text) + 1]
    [] Last(path).name \in {"p", "c"} -> Append(Last(path).text, Newline)
    [] OTHER -> Last(path).text

\* The innermost element of the path, or the document, says more.
Hears(path, text) ==
  /\ open' = IF path = <<>> THEN <<>> ELSE [path EXCEPT ![Len(path)].text = @ \o text]
  /\ done' = IF path # <<>> THEN done
             ELSE IF sink.open THEN <<FlattenSeq(Append(done, text))>> ELSE Append(done, text)

\* The element is over, and if a value, it stands for something.
Over == Hears(Front(open), Content(open, pool))

\* Only text in t and v is meant to be read, and no pronunciation.
Told(text) == Hears(open, IF Pronounced(open) THEN <<>> ELSE text)
ToldPiece(piece) ==
  /\ Len(Last(open).text \o piece) <= ElementChars
  /\ Told(IF Last(open).name \in {"t", "v"} THEN piece ELSE <<>>)

-----------------------------------------------------------------------------
(* What both walks do at a start tag and at an end tag.                    *)

\* Bug: an rPh inside another one begins anew.
StartsInnermost(name, shared, text) ==
  /\ open' = Append(open, [name |-> name, shared |-> shared, text |-> text])
  /\ phonetic' = IF name = "rPh" THEN Len(open') ELSE phonetic
  /\ inText' = (name = "t" /\ phonetic' = 0)
  /\ UNCHANGED done

Starts(name, shared, text) ==
  /\ open' = Append(open, [name |-> name, shared |-> shared, text |-> text])
  /\ phonetic' = IF name = "rPh" /\ phonetic = 0 THEN Len(open') ELSE phonetic
  /\ inText' = (name = "t" /\ phonetic' = 0)
  /\ UNCHANGED done

Closes == phonetic' = IF phonetic = Len(open) THEN 0 ELSE phonetic

TooDeep == Len(open) >= MaxDepth

-----------------------------------------------------------------------------
(* xml_strings.                                                            *)

StringBytes == Bytes(FlattenSeq(pool)) + Bytes(current)

\* The end of an si.
Collect ==
  IF Len(pool) >= MaxSharedStrings
  THEN Fails /\ UNCHANGED <<pool, current>>
  ELSE pool' = Append(pool, current) /\ current' = <<>> /\ UNCHANGED outcome

StringStart(name) ==
  /\ MayHold("strings", name)
  /\ IF TooDeep THEN Fails /\ UNCHANGED <<document, phonetic, inText>>
                ELSE Starts(name, FALSE, <<>>) /\ UNCHANGED outcome
  /\ UNCHANGED <<inValue, sharedCell, current, pool>>

StringEmpty(name) ==
  /\ MayHold("strings", name)
  /\ IF name = "si" THEN Collect ELSE UNCHANGED <<pool, current, outcome>>
  /\ Told(<<>>)
  /\ UNCHANGED <<phonetic, flags>>

StringPiece(piece) ==
  /\ open # <<>> /\ ToldPiece(piece)
  /\ IF ~inText THEN UNCHANGED <<current, outcome>>
     ELSE IF StringBytes + Bytes(piece) > MaxSharedBytes THEN Fails /\ UNCHANGED current
     ELSE current' = current \o piece /\ UNCHANGED outcome
  /\ UNCHANGED <<phonetic, flags, pool>>

StringEnd ==
  /\ open # <<>>
  /\ Over
  /\ Closes
  /\ inText' = FALSE
  /\ IF Last(open).name = "si" THEN Collect ELSE UNCHANGED <<pool, current, outcome>>
  /\ UNCHANGED <<inValue, sharedCell>>

\* The part is over; an open element is an error.
StringsOver == open = <<>> /\ XmlBegins /\ UNCHANGED pool

\* What quick_xml rejects, a DTD, an unknown entity, or an end too early.
StringsMalformed == Fails /\ UNCHANGED xmlVars

StringsNext ==
  /\ outcome = "running"
  /\ \/ \E name \in DOMAIN Children : StringStart(name) \/ StringEmpty(name)
     \/ \E piece \in XmlPiece : StringPiece(piece)
     \/ StringEnd \/ StringsMalformed
  /\ UNCHANGED <<office, total, sections, sink, remaining, expanded, truncated>>

-----------------------------------------------------------------------------
(* xml_text.                                                               *)

\* TextSink::append.
Utters(piece) ==
  /\ sink' = IF piece = <<>> THEN sink ELSE Taking(sink, piece)
  /\ Len(sink'.whole) <= SectionChars

\* Bug: a cell does not forget what the one before it was.
CellStaysShared(name, shared) == sharedCell \/ (name = "c" /\ shared)

\* Whether values refer to shared strings from here on.
CellShared(name, shared) == IF name = "c" THEN shared ELSE sharedCell

TextStart(name, shared) ==
  /\ MayHold("section", name) /\ (shared => name = "c")
  /\ IF TooDeep
     THEN Fails /\ UNCHANGED <<document, phonetic, flags, sink>>
     ELSE /\ Starts(name, shared, IF Pronounced(open) THEN <<>> ELSE Breaks(name))
          /\ inValue' = (name = "v")
          /\ sharedCell' = CellShared(name, shared)
          /\ Utters(IF phonetic' = 0 THEN Breaks(name) ELSE <<>>)
          /\ UNCHANGED outcome
  /\ UNCHANGED <<current, pool>>

TextEmpty(name) ==
  /\ MayHold("section", name)
  /\ Utters(IF phonetic = 0 THEN Breaks(name) ELSE <<>>)
  /\ Told(Breaks(name))
  /\ UNCHANGED <<phonetic, flags, current, pool, outcome>>

\* append_value: a piece of an index, or of text.
TextPiece(piece) ==
  /\ open # <<>> /\ ToldPiece(piece)
  /\ IF ~(inText \/ inValue) THEN UNCHANGED <<current, sink, outcome>>
     ELSE IF ~(inValue /\ sharedCell) THEN Utters(piece) /\ UNCHANGED <<current, outcome>>
     ELSE /\ UNCHANGED sink
          /\ IF Bytes(current) + Bytes(piece) > MaxIndexChars
             THEN Fails /\ UNCHANGED current
             ELSE current' = current \o piece /\ UNCHANGED outcome
  /\ UNCHANGED <<phonetic, flags, pool>>

\* A value may refer to a shared string; indices count from 0.
Resolves == IsIndex(current) /\ Parsed(current) + 1 \in DOMAIN pool

TextEnd ==
  /\ open # <<>>
  /\ LET name == Last(open).name
         leaf == name \in {"t", "v"}
         refers == leaf /\ inValue /\ sharedCell
     IN /\ IF refers /\ ~Resolves THEN Fails /\ UNCHANGED <<document, sink>>
           ELSE /\ Utters(IF refers THEN pool[Parsed(current) + 1]
                          ELSE IF name \in {"p", "c"} THEN <<Newline>> ELSE <<>>)
                /\ Over
                /\ UNCHANGED outcome
        /\ current' = IF leaf THEN <<>> ELSE current
        /\ inText' = (inText /\ ~leaf)
        /\ inValue' = (inValue /\ ~leaf)
  /\ Closes
  /\ UNCHANGED <<sharedCell, pool>>

SectionOver == open = <<>> /\ CloseSection /\ XmlBegins /\ UNCHANGED pool

TextNext ==
  \/ /\ sink.open /\ outcome = "running"
     /\ \/ \E name \in DOMAIN Children : TextEmpty(name) \/ \E shared \in BOOLEAN : TextStart(name, shared)
        \/ \E piece \in XmlPiece : TextPiece(piece)
        \/ TextEnd
     /\ UNCHANGED <<office, total, sections, remaining, expanded, truncated>>
  \/ Malformed /\ UNCHANGED xmlVars
  \/ SectionOver

-----------------------------------------------------------------------------
(* Properties.                                                             *)

\* What the elements that are open have said so far.
Unfinished ==
  FlattenSeq([i \in 1 .. Len(open) |->
    IF Refers(SubSeq(open, 1, i)) THEN <<>> ELSE open[i].text])

\* What the sink is offered is the visible text of the part, in its order, and no
\* more: not what stands between elements or is there for pronunciation, and
\* for a cell that refers to a shared string that string and not its index.
VisibleText ==
  sink.open /\ office /\ outcome = "running" /\ document # <<<<>>, <<>>>> =>
    sink.whole = FlattenSeq(done) \o Unfinished

\* The n-th shared string is the visible text of the n-th si, an empty one
\* included: one that is left out or split makes every later cell show the text
\* of another.
SharedByIndex ==
  ~sink.open /\ outcome = "running" /\ document # <<<<>>, <<>>>> =>
    pool = done /\ current = Unfinished
=============================================================================
