------------------------------ MODULE Synthesis ------------------------------
(***************************************************************************)
(* From a specification to the texts of a document or a deck: validate of  *)
(* DocumentSpec and of PresentationSpec, and the builders of src/docx and  *)
(* src/pptx that run after it and drop what is blank.                      *)
(*                                                                         *)
(* A section or slide is the sequence of its texts in the order of the     *)
(* specification.  The numbers and sizes of images are DeckImages' concern. *)
(***************************************************************************)
EXTENDS Integers, SequencesExt

CONSTANTS
  Text,            \* texts: [chars, blank]
  Absent,          \* an author or theme that is not there
  Docx, Pptx,      \* sections and slides: sequences of [kind, text]
  MaxGroups,       \* MAX_SECTIONS, MAX_SLIDES
  MaxTextChars,    \* MAX_TEXT_CHARS
  MaxProseChars,   \* MAX_PARAGRAPH_CHARS
  MaxListed,       \* MAX_PARAGRAPHS_PER_SECTION, MAX_BULLETS_PER_SECTION, ..._SLIDE
  MaxTotalChars    \* MAX_TOTAL_CHARS

ASSUME SynthesisAssumption ==
  /\ {MaxGroups, MaxTextChars, MaxProseChars, MaxListed, MaxTotalChars} \subseteq Nat
  /\ Text \subseteq [chars : Nat, blank : BOOLEAN]
  /\ Absent \notin Text
  /\ Docx \subseteq Seq([kind : {"heading", "paragraph", "bullet"},
                        text : [chars : Nat, blank : BOOLEAN]])
  /\ Pptx \subseteq Seq([kind : {"title", "body", "bullet", "caption", "notes"},
                        text : [chars : Nat, blank : BOOLEAN]])
  /\ 2 * MaxTextChars <= MaxTotalChars   \* a title and an author alone are never too much

VARIABLES
  format,     \* "docx" or "pptx"
  head,       \* [title, author]
  groups,     \* the sections or slides that were looked at so far
  total,      \* characters so far
  rendered,   \* what the writer is given, per section or slide; first the title
  synthesis   \* "head", "groups", "build" or the answer

synthesisVars == <<format, head, groups, total, rendered, synthesis>>

InvalidSpec == synthesis' = "InvalidInput"

\* Those of some texts that are chosen, in their order.
Among(texts, chosen) ==
  FlattenSeq([i \in 1 .. Len(texts) |-> IF texts[i] \in chosen THEN <<texts[i]>> ELSE <<>>])
Kept(texts) == Among(texts, {t \in Range(texts) : ~t.text.blank})
OfKinds(group, kinds) == Among(group, {t \in Range(group) : t.kind \in kinds})

Chars(group) == FoldLeft(LAMBDA n, t : n + t.text.chars, 0, group)
Present(text) == text # Absent

HeadTexts == <<[kind |-> "title", text |-> head.title]>>
               \o (IF Present(head.author) THEN <<[kind |-> "author", text |-> head.author]>> ELSE <<>>)

-----------------------------------------------------------------------------

SynthesisInit ==
  /\ format \in {"docx", "pptx"}
  /\ head \in [title : Text, author : Text \cup {Absent}]
  /\ groups = <<>> /\ total = 0 /\ rendered = <<>>
  /\ synthesis = "head"

\* The title and the author.  A theme is a text like an author, and has no effect.
ValidateHead ==
  /\ synthesis = "head"
  /\ IF head.title.blank \/ \E i \in 1 .. Len(HeadTexts) : HeadTexts[i].text.chars > MaxTextChars
     THEN InvalidSpec /\ UNCHANGED total
     ELSE synthesis' = "groups" /\ total' = Chars(HeadTexts)
  /\ UNCHANGED <<format, head, groups, rendered>>

\* Bug: a text counts as soon as it is not empty.
BlankIfEmpty(group) ==
  \A i \in 1 .. Len(group) : group[i].kind \notin {"caption", "notes"} => group[i].text.chars = 0

\* is_blank and is_textless: neither captions nor notes make a slide.
Blank(group) ==
  \A i \in 1 .. Len(group) : group[i].kind \notin {"caption", "notes"} => group[i].text.blank

\* Only prose in documents may be long.
Limit(kind) == IF format = "docx" /\ kind \in {"paragraph", "bullet"} THEN MaxProseChars ELSE MaxTextChars

\* Bug: the total begins anew with every section.
SumsAlone(group) == Chars(HeadTexts) + Chars(group)

Sums(group) == total + Chars(group)

\* A section or slide: it is refused at its first fault, wherever that is.
ValidateGroup(group) ==
  /\ synthesis = "groups" /\ Len(groups) < MaxGroups + 1
  /\ groups' = Append(groups, group) /\ total' = Sums(group)
  /\ IF \/ Len(groups') > MaxGroups \/ Blank(group)
        \/ \E i \in 1 .. Len(group) : group[i].text.chars > Limit(group[i].kind)
        \/ \E kind \in {"paragraph", "bullet"} : Len(OfKinds(group, {kind})) > MaxListed
        \/ format = "docx" /\ total' > MaxTotalChars
     THEN InvalidSpec ELSE UNCHANGED synthesis
  /\ UNCHANGED <<format, head, rendered>>

Validated ==
  /\ synthesis = "groups"
  /\ IF groups = <<>> THEN InvalidSpec /\ UNCHANGED rendered
     ELSE /\ synthesis' = "build"
          /\ rendered' = <<Kept(HeadTexts)>>
  /\ UNCHANGED <<format, head, groups, total>>

\* The builders: a slide has its title even if it is blank, and all its captions,
\* which follow the other bullets; notes are apart.
Built(group) ==
  IF format = "docx" THEN Kept(group)
  ELSE OfKinds(group, {"title"}) \o Kept(OfKinds(group, {"body", "bullet"}))
         \o OfKinds(group, {"caption"}) \o Kept(OfKinds(group, {"notes"}))

BuildGroup ==
  /\ synthesis = "build" /\ Len(rendered) <= Len(groups)
  /\ rendered' = Append(rendered, Built(groups[Len(rendered)]))
  /\ UNCHANGED <<format, head, groups, total, synthesis>>

\* The writer packs the document, or does not.
Pack ==
  /\ synthesis = "build" /\ Len(rendered) = Len(groups) + 1
  /\ synthesis' \in {"Ok", "GenerationFailed"}
  /\ UNCHANGED <<format, head, groups, total, rendered>>

SynthesisNext ==
  \/ ValidateHead
  \/ \E group \in IF format = "docx" THEN Docx ELSE Pptx : ValidateGroup(group)
  \/ Validated \/ BuildGroup \/ Pack

SynthesisSpec == SynthesisInit /\ [][SynthesisNext]_synthesisVars

-----------------------------------------------------------------------------
(* Properties.                                                             *)

\* What validation accepts the builder renders: the title first, every section or
\* slide with something to read of its own on it, no text that is not blank lost
\* or repeated, and those of one kind in their order.  Validation and builder
\* decide what is blank in different crates.
AcceptedIsRendered ==
  synthesis = "Ok" =>
    /\ Len(rendered) = Len(groups) + 1 /\ Head(Head(rendered)) = Head(HeadTexts)
    /\ \A i \in 1 .. Len(groups) :
         LET source == groups[i]
             out == rendered[i + 1]
         IN /\ Kept(OfKinds(out, {"heading", "title", "body", "paragraph", "bullet"})) # <<>>
            /\ \A kind \in {source[j].kind : j \in 1 .. Len(source)} :
                 Kept(OfKinds(out, {kind})) = Kept(OfKinds(source, {kind}))
            /\ Len(Kept(out)) = Len(Kept(source))

\* The texts of a document that is built stay within the total, however they are
\* spread over title, author and sections.
TotalBounded ==
  format = "docx" /\ synthesis \in {"build", "Ok"} =>
    Chars(HeadTexts) + FoldLeft(LAMBDA n, g : n + Chars(g), 0, groups) <= MaxTotalChars
=============================================================================
