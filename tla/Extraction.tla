----------------------------- MODULE Extraction ------------------------------
(***************************************************************************)
(* `extract` of src/intake/mod.rs as a whole.  A PDF goes straight to its  *)
(* pages.  An Office archive is admitted and indexed (ZipAdmission), its   *)
(* parts are found, for slides and sheets through two manifests            *)
(* (OfficeOrder), and then read (Intake).                                  *)
(*                                                                         *)
(* A walk hands over what the next one needs, and its other state is       *)
(* dropped: the reader stays open afterwards, but which cells are read of  *)
(* it then, ZipAdmission has explored already.                             *)
(*                                                                         *)
(* Some documents of one part are read tag by tag (XmlText); the parsers   *)
(* of the others write any pieces of text, among them those that the tags  *)
(* of a part could have led to.                                            *)
(***************************************************************************)
EXTENDS ZipAdmission, OfficeOrder, XmlText

CONSTANT DetailBytes   \* bound: what is decompressed of a part that is read tag by tag

ASSUME DetailAssumption == DetailBytes \in Nat

VARIABLE walk   \* "admission", "order", "strings", "tags" or "sections"

extractVars == <<zipVars, orderVars, intakeVars, xmlVars, walk>>

ZipDone ==
  /\ bytes' = <<>> /\ zipStage' = "done" /\ dir' = <<>> /\ cursor' = 0
  /\ names' = <<>> /\ displayed' = 0 /\ from' = 0 /\ got' = <<>>

OrderBegins ==
  /\ orderStage' = "manifest" /\ UNCHANGED <<log, parents, ids, written, targets, ordered>>

OrderDone ==
  /\ orderStage' = "done"
  /\ log' = <<>> /\ parents' = <<>> /\ ids' = <<>> /\ written' = {}
  /\ targets' = <<>> /\ ordered' = <<>>
-----------------------------------------------------------------------------

ExtractInit ==
  /\ IntakeInit
  /\ walk = IF office THEN "admission" ELSE "sections"
  /\ IF office THEN ZipInit
     ELSE /\ bytes = <<>> /\ zipStage = "done" /\ dir = <<>> /\ cursor = 0
          /\ names = <<>> /\ displayed = 0 /\ from = 0 /\ got = <<>>
  /\ orderStage = "waiting" /\ log = <<>> /\ parents = <<>> /\ ids = <<>>
  /\ written = {} /\ targets = <<>> /\ ordered = <<>>
  /\ XmlInit

Admission ==
  /\ walk = "admission" /\ outcome = "running"
  /\ ZipNext
  /\ UNCHANGED <<orderVars, intakeVars, xmlVars, walk>>

\* The archive is refused; or office_parts does not like what its members
\* declare, or finds no document among them.
Refused ==
  /\ walk = "admission" /\ zipStage \in {"refused", "indexed"} /\ outcome = "running"
  /\ Fails /\ ZipDone
  /\ UNCHANGED <<orderVars, xmlVars, walk, office, total, sections, sink, remaining, expanded, truncated>>

\* A DOCX has one part.
FindDocument ==
  /\ walk = "admission" /\ zipStage = "indexed" /\ outcome = "running"
  /\ FindParts(1) /\ ZipDone /\ walk' \in {"sections", "tags"}
  /\ UNCHANGED <<orderVars, xmlVars, office, sections, sink, remaining, expanded, outcome>>

\* A PPTX or XLSX has a manifest of n bytes, and relationships of m.
FindManifests(n, m) ==
  /\ walk = "admission" /\ zipStage = "indexed" /\ outcome = "running"
  /\ expanded' = expanded + Smaller(n, MaxPart + 1)
                   + IF n > MaxPart THEN 0 ELSE Smaller(m, MaxPart + 1)
  /\ IF Excessive(n) \/ Excessive(m)
     THEN Fails /\ UNCHANGED <<orderVars, walk>>
     ELSE OrderBegins /\ walk' = "order" /\ UNCHANGED outcome
  /\ ZipDone
  /\ UNCHANGED <<xmlVars, office, total, sections, sink, remaining, truncated>>

Ordering ==
  /\ walk = "order" /\ outcome = "running"
  /\ OrderNext
  /\ UNCHANGED <<zipVars, intakeVars, xmlVars, walk>>

Disordered ==
  /\ walk = "order" /\ orderStage = "invalid" /\ outcome = "running"
  /\ Fails /\ OrderDone
  /\ UNCHANGED <<zipVars, xmlVars, walk, office, total, sections, sink, remaining, expanded, truncated>>

\* The parts are known.  A XLSX may have shared strings, which are read first.
FindOrdered(n) ==
  /\ walk = "order" /\ orderStage = "ordered" /\ outcome = "running"
  /\ Decompress(n)
  /\ IF Excessive(n) THEN Fails /\ UNCHANGED <<walk, total, truncated>>
     ELSE /\ FindParts(Len(ordered)) /\ UNCHANGED outcome
          /\ \/ walk' = "sections"
             \/ walk' = "strings" /\ total' = 1 /\ expanded' = DetailBytes
  /\ OrderDone
  /\ UNCHANGED <<zipVars, xmlVars, office, sections, sink, remaining>>

ReadSections ==
  /\ walk = "sections"
  /\ IntakeNext
  /\ UNCHANGED <<zipVars, orderVars, xmlVars, walk>>

ReadStrings ==
  /\ walk = "strings" /\ outcome = "running"
  /\ \/ StringsNext /\ UNCHANGED walk
     \/ StringsOver /\ walk' = "tags" /\ UNCHANGED intakeVars
  /\ UNCHANGED <<zipVars, orderVars>>

ReadTags ==
  /\ walk = "tags"
  /\ \/ (OpenPart(DetailBytes) \/ Answer) /\ UNCHANGED xmlVars
     \/ TextNext
  /\ UNCHANGED <<zipVars, orderVars, walk>>

ExtractNext ==
  \/ Admission \/ Refused \/ FindDocument
  \/ \E n, m \in PartBytes : FindManifests(n, m)
  \/ Ordering \/ Disordered
  \/ \E n \in PartBytes : FindOrdered(n)
  \/ ReadSections \/ ReadStrings \/ ReadTags

ExtractSpec == ExtractInit /\ [][ExtractNext]_extractVars
=============================================================================
