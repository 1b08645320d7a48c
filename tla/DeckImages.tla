----------------------------- MODULE DeckImages ------------------------------
(***************************************************************************)
(* The images of a deck from the stream to the slide: what GeneratePptx    *)
(* does with them, composed of ImageStream and SlideLayout.  The deck is   *)
(* resolved, validated, and laid out slide by slide.                       *)
(***************************************************************************)
EXTENDS ImageStream, SlideLayout

CONSTANTS
  MaxDeckImages,   \* MAX_IMAGES_PER_DECK
  MaxSlides        \* bound: slides of a deck

ASSUME DeckAssumption == MaxDeckImages \in Nat /\ MaxSlides \in Nat \ {0}

VARIABLES
  perSlide,   \* how many images each slide declares
  slide       \* the slide that is laid out, or 0

deckVars == <<streamVars, layoutVars, perSlide, slide>>

\* Bug: only the deck as a whole is bounded.
AcceptsDeck == Sum(perSlide) <= MaxDeckImages

\* What validate says of the numbers of images.
Accepts ==
  /\ Sum(perSlide) <= MaxDeckImages
  /\ \A s \in 1 .. Len(perSlide) : perSlide[s] <= MaxSlideImages

-----------------------------------------------------------------------------

DeckInit ==
  /\ StreamInit
  /\ perSlide \in {c \in SeqOf(0 .. MaxImages, MaxSlides) : c # <<>> /\ Sum(c) = Len(declared)}
  /\ slide = 0
  /\ images = <<>> /\ placed = <<>> /\ slotTop = BandTop

Resolve == StreamNext /\ UNCHANGED <<layoutVars, perSlide, slide>>

\* The layout of the next slide begins.  The sizes in pixels are those that the
\* headers of its images say.
BeginSlide ==
  /\ slide' = slide + 1
  /\ slide' <= Len(perSlide)
  /\ images' \in [1 .. perSlide[slide'] -> [w : Pixels, h : Pixels]]
  /\ placed' = <<>> /\ slotTop' = BandTop
  /\ UNCHANGED <<streamVars, perSlide>>

\* The resolved deck is validated before anything is laid out.  Its texts may be
\* a reason to refuse it too.
Validate ==
  /\ stage = "done" /\ result = "Ok" /\ slide = 0
  /\ \/ Accepts /\ BeginSlide
     \/ /\ result' = "InvalidInput"
        /\ UNCHANGED <<input, stage, k, expected, payload, cursor, slices, layoutVars,
                       perSlide, slide>>

NextSlide == slide > 0 /\ Len(placed) = Len(images) /\ BeginSlide

Place == slide > 0 /\ PlaceNext /\ UNCHANGED <<streamVars, perSlide, slide>>

DeckNext == Resolve \/ Validate \/ NextSlide \/ Place

DeckSpec == DeckInit /\ [][DeckNext]_deckVars
=============================================================================
