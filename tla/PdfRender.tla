------------------------------ MODULE PdfRender ------------------------------
(***************************************************************************)
(* Rasterizing selected pages of a PDF under pixel and byte budgets:       *)
(* render, validate and dimensions of src/pdf_render/mod.rs.  All pages    *)
(* are planned before the first is rasterized.                             *)
(***************************************************************************)
EXTENDS Integers, SequencesExt

CONSTANTS
  PageLimit,      \* most pages of a request
  MaxDimension, MaxTotalPixels, MaxOutputBytes,   \* the budgets of the spec
  PageNumber,     \* numbers a request may name, 0 among them
  PageSize,       \* sizes a page of the document may have: [w, h]
  PngBytes,       \* what a page may encode to
  PageCount       \* page counts of documents

ASSUME RenderAssumption ==
  /\ PageLimit \in Nat /\ MaxDimension \in Nat \ {0}
  /\ MaxTotalPixels \in Nat \ {0} /\ MaxOutputBytes \in Nat \ {0}
  /\ PageNumber \subseteq Nat /\ PageCount \subseteq Nat /\ PngBytes \subseteq Nat
  /\ \A s \in PageSize : s.w \in Nat \ {0} /\ s.h \in Nat \ {0}

VARIABLES
  pages,     \* spec.pages
  count,     \* page_count
  rendering, \* "validate", "plan", "raster" or the answer
  plans,     \* planned pages: [page, w, h]
  pixels,    \* pixels planned so far
  output,    \* rasterized pages: [page, w, h, bytes]
  bytes      \* total_bytes

renderVars == <<pages, count, rendering, plans, pixels, output, bytes>>

Ends(error) == rendering' = error
Area(rasters) == FoldLeft(LAMBDA n, p : n + p.w * p.h, 0, rasters)
ToBounds(n) == IF n < 1 THEN 1 ELSE IF n > MaxDimension THEN MaxDimension ELSE n

\* dimensions: the longer side becomes MaxDimension, the other one is scaled in
\* 32-bit floating point and rounded up, so it may be off by one.
Scaled(n, longest) ==
  LET exact == (n * MaxDimension + longest - 1) \div longest
  IN {ToBounds(exact + d) : d \in -1 .. 1}

Dimensions(s) ==
  LET longest == IF s.w > s.h THEN s.w ELSE s.h
      side(n) == IF n = longest THEN {MaxDimension} ELSE Scaled(n, longest)
  IN side(s.w) \X side(s.h)

RenderInit ==
  /\ pages \in SeqOf(PageNumber, PageLimit + 1)
  /\ count \in PageCount
  /\ rendering = "validate"
  /\ plans = <<>> /\ pixels = 0 /\ output = <<>> /\ bytes = 0

\* Bug: a page may be selected twice.
ValidDuplicate == Len(pages) \in 1 .. PageLimit /\ \A i \in 1 .. Len(pages) : pages[i] # 0

\* validate: the budgets are constants here and within their hard bounds.
Valid ==
  /\ Len(pages) \in 1 .. PageLimit
  /\ \A i \in 1 .. Len(pages) : pages[i] # 0 /\ ~ Contains(SubSeq(pages, 1, i - 1), pages[i])

ValidateRequest ==
  /\ rendering = "validate"
  /\ IF Valid THEN rendering' = "plan" ELSE Ends("InvalidInput")
  /\ UNCHANGED <<pages, count, plans, pixels, output, bytes>>

\* The document is not a PDF, is encrypted or malformed, or has an absurd page; or
\* a page that was planned does not encode.
Unreadable(error) ==
  /\ \/ rendering = "plan"
     \/ rendering = "raster" /\ Len(output) < Len(plans) /\ error = "ExtractionFailed"
  /\ Ends(error)
  /\ UNCHANGED <<pages, count, plans, pixels, output, bytes>>

\* Bug: each page has the whole pixel budget.
PlanAlone(size) ==
  /\ rendering = "plan" /\ Len(plans) < Len(pages) /\ pages[Len(plans) + 1] <= count
  /\ \E d \in Dimensions(size) :
       /\ pixels' = d[1] * d[2]
       /\ IF pixels' > MaxTotalPixels
          THEN Ends("InvalidInput") /\ UNCHANGED plans
          ELSE /\ plans' = Append(plans, [page |-> pages[Len(plans) + 1], w |-> d[1], h |-> d[2]])
               /\ UNCHANGED rendering
  /\ UNCHANGED <<pages, count, output, bytes>>

\* One page of the request is looked up, scaled, and charged to the pixels.
Plan(size) ==
  /\ rendering = "plan" /\ Len(plans) < Len(pages) /\ pages[Len(plans) + 1] <= count
  /\ \E d \in Dimensions(size) :
       /\ pixels' = pixels + d[1] * d[2]
       /\ IF pixels' > MaxTotalPixels
          THEN Ends("InvalidInput") /\ UNCHANGED plans
          ELSE /\ plans' = Append(plans, [page |-> pages[Len(plans) + 1], w |-> d[1], h |-> d[2]])
               /\ UNCHANGED rendering
  /\ UNCHANGED <<pages, count, output, bytes>>

PlanMissing ==
  /\ rendering = "plan" /\ Len(plans) < Len(pages) /\ pages[Len(plans) + 1] > count
  /\ Ends("InvalidInput")
  /\ UNCHANGED <<pages, count, plans, pixels, output, bytes>>

Planned ==
  /\ rendering = "plan" /\ Len(plans) = Len(pages)
  /\ rendering' = "raster"
  /\ UNCHANGED <<pages, count, plans, pixels, output, bytes>>

\* One page is rasterized and encoded; its bytes are charged afterwards.
Raster(n) ==
  /\ rendering = "raster" /\ Len(output) < Len(plans)
  /\ bytes' = bytes + n
  /\ IF bytes' > MaxOutputBytes
     THEN Ends("InvalidInput") /\ UNCHANGED output
     ELSE LET p == plans[Len(output) + 1] IN
          /\ output' = Append(output, [page |-> p.page, w |-> p.w, h |-> p.h, bytes |-> n])
          /\ UNCHANGED rendering
  /\ UNCHANGED <<pages, count, plans, pixels>>

Rendered ==
  /\ rendering = "raster" /\ Len(output) = Len(plans)
  /\ Ends("Ok")
  /\ UNCHANGED <<pages, count, plans, pixels, output, bytes>>

RenderNext ==
  \/ ValidateRequest
  \/ \E error \in {"InvalidInput", "ExtractionFailed"} : Unreadable(error)
  \/ \E size \in PageSize : Plan(size)
  \/ PlanMissing \/ Planned
  \/ \E n \in PngBytes : Raster(n)
  \/ Rendered

RenderSpec == RenderInit /\ [][RenderNext]_renderVars

-----------------------------------------------------------------------------
(* Properties.                                                             *)

\* Nothing is rasterized before all pages of the request are known to fit the
\* pixel budget together, each within MaxDimension; what is kept of the
\* encoded pages stays within the byte budget.
RastersWithinBudget ==
  rendering = "raster" =>
    /\ Len(plans) = Len(pages) /\ Area(plans) <= MaxTotalPixels
    /\ \A i \in 1 .. Len(plans) :
         plans[i].w \in 1 .. MaxDimension /\ plans[i].h \in 1 .. MaxDimension
    /\ FoldLeft(LAMBDA n, p : n + p.bytes, 0, output) <= MaxOutputBytes

\* An answer has the pages of the request, in the order of the request, each an
\* existing page and none of them twice.
AnswersRequest ==
  rendering = "Ok" =>
    /\ [i \in 1 .. Len(output) |-> output[i].page] = pages
    /\ \A i \in 1 .. Len(pages) : pages[i] \in 1 .. count
    /\ IsInjective(pages)
=============================================================================
