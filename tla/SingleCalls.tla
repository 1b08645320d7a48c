----------------------------- MODULE SingleCalls -----------------------------
(***************************************************************************)
(* The calls that take an input and give an answer and keep nothing for    *)
(* the next one: GeneratePptx with its images (DeckImages), GenerateDocx   *)
(* and GeneratePptx as far as the texts are concerned (Synthesis),         *)
(* InspectImage (ImageInspection), RenderPdfPages (PdfRender) and          *)
(* ConvertMarkdown (Markdown).  A behaviour is one call.                   *)
(***************************************************************************)
EXTENDS DeckImages, ImageInspection, Synthesis, PdfRender, Markdown

DeckIdle ==
  /\ declared = <<>> /\ stream = FALSE /\ sent = <<>> /\ stage = "idle" /\ k = 1
  /\ expected = 0 /\ payload = 0 /\ cursor = 0 /\ slices = <<>> /\ result = "Ok"
  /\ images = <<>> /\ placed = <<>> /\ slotTop = BandTop /\ perSlide = <<>> /\ slide = 0

SynthesisIdle ==
  /\ format = "none" /\ head = <<>> /\ groups = <<>> /\ total = 0
  /\ rendered = <<>> /\ synthesis = "idle"

InspectIdle ==
  picture = <<>> /\ file = <<>> /\ at = 0 /\ inspected = "idle" /\ facts = <<>>

RenderIdle ==
  /\ pages = <<>> /\ count = 0 /\ rendering = "idle"
  /\ plans = <<>> /\ pixels = 0 /\ output = <<>> /\ bytes = 0

ConvertIdle ==
  source = <<>> /\ todo = <<>> /\ markdown = <<>> /\ conversion = "idle"

CallInit ==
  \/ DeckInit /\ SynthesisIdle /\ InspectIdle /\ RenderIdle /\ ConvertIdle
  \/ DeckIdle /\ SynthesisInit /\ InspectIdle /\ RenderIdle /\ ConvertIdle
  \/ DeckIdle /\ SynthesisIdle /\ InspectInit /\ RenderIdle /\ ConvertIdle
  \/ DeckIdle /\ SynthesisIdle /\ InspectIdle /\ RenderInit /\ ConvertIdle
  \/ DeckIdle /\ SynthesisIdle /\ InspectIdle /\ RenderIdle /\ ConvertInit

callVars == <<deckVars, synthesisVars, inspectVars, renderVars, convertVars>>

CallNext ==
  \/ DeckNext /\ UNCHANGED <<synthesisVars, inspectVars, renderVars, convertVars>>
  \/ SynthesisNext /\ UNCHANGED <<deckVars, inspectVars, renderVars, convertVars>>
  \/ InspectNext /\ UNCHANGED <<deckVars, synthesisVars, renderVars, convertVars>>
  \/ RenderNext /\ UNCHANGED <<deckVars, synthesisVars, inspectVars, convertVars>>
  \/ ConvertNext /\ UNCHANGED <<deckVars, synthesisVars, inspectVars, renderVars>>

CallSpec == CallInit /\ [][CallNext]_callVars
=============================================================================
