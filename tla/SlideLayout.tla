----------------------------- MODULE SlideLayout -----------------------------
(***************************************************************************)
(* Where the images of a slide go: place_single_column and fit_within of   *)
(* src/pptx/mod.rs.  The band below the text is cut into equal slots, one  *)
(* per image, and each image is scaled into its slot.  Extents are         *)
(* integers of 32 bits, their products of 64.                              *)
(***************************************************************************)
EXTENDS Integers, SequencesExt

CONSTANTS
  EmuMax,        \* largest 32-bit value
  EmuPerPx,       \* EMU_PER_PX
  ContentLeft, ContentWidth,   \* the content column
  BandTop, BandHeight,         \* the image band
  StackGap,       \* IMAGE_STACK_GAP_EMU
  Pixels,         \* image widths and heights in pixels
  MaxSlideImages  \* MAX_IMAGES_PER_SLIDE

\* Every image gets a slot of some height, as it does with the code's numbers.
ASSUME LayoutAssumption ==
  /\ EmuMax \in Nat /\ EmuPerPx \in Nat \ {0} /\ Pixels \subseteq 1 .. EmuMax
  /\ ContentLeft \in Nat /\ ContentWidth \in Nat \ {0} /\ StackGap \in Nat
  /\ BandTop \in Nat /\ BandHeight \in Nat /\ MaxSlideImages \in Nat
  /\ ContentLeft + ContentWidth <= EmuMax /\ BandTop + BandHeight + StackGap <= EmuMax
  /\ MaxSlideImages > 0 => BandHeight - StackGap * (MaxSlideImages - 1) >= MaxSlideImages

VARIABLES
  images,    \* what is to be placed, in order: [w, h] in pixels
  placed,    \* what has been placed: [x, y, w, h] in EMU
  slotTop    \* slot_top

layoutVars == <<images, placed, slotTop>>

Saturating(n) == IF n <= EmuMax THEN n ELSE EmuMax
\* Saturating subtraction.
Less(a, b) == IF a >= b THEN a - b ELSE 0
DivRound(n, d) == (n + d \div 2) \div d
\* Into 1 .. max, or to 1 if there is no such extent.
ClampIntoBox(n, max) == IF n < 1 \/ max < 1 THEN 1 ELSE IF n > max THEN max ELSE n

SlotHeight == Less(BandHeight, StackGap * (Len(images) - 1)) \div Len(images)

\* Bug: the height of the box is not looked at.
FitWidth(w, h, maxW, maxH) ==
  [w |-> ClampIntoBox(maxW, maxW), h |-> ClampIntoBox(DivRound(h * maxW, w), EmuMax)]

\* fit_within: to the width if the height then fits, else to the height.
FitWithin(w, h, maxW, maxH) ==
  LET heightAtFullWidth == DivRound(h * maxW, w) IN
  IF heightAtFullWidth <= maxH
  THEN [w |-> ClampIntoBox(maxW, maxW), h |-> ClampIntoBox(heightAtFullWidth, maxH)]
  ELSE [w |-> ClampIntoBox(DivRound(w * maxH, h), maxW), h |-> ClampIntoBox(maxH, maxH)]

Placed(img, top) ==
  LET box == FitWithin(Saturating(img.w * EmuPerPx), Saturating(img.h * EmuPerPx),
                       ContentWidth, SlotHeight)
  IN [x |-> ContentLeft + Less(ContentWidth, box.w) \div 2,
      y |-> top + Less(SlotHeight, box.h) \div 2, w |-> box.w, h |-> box.h]

-----------------------------------------------------------------------------

LayoutInit ==
  /\ images \in SeqOf([w : Pixels, h : Pixels], MaxSlideImages) \ {<<>>}
  /\ placed = <<>>
  /\ slotTop = BandTop

\* One image into its slot; the next slot is one stride below.
PlaceNext ==
  /\ Len(placed) < Len(images)
  /\ placed' = Append(placed, Placed(images[Len(placed) + 1], slotTop))
  /\ slotTop' = Saturating(slotTop + SlotHeight + StackGap)
  /\ UNCHANGED images

LayoutSpec == LayoutInit /\ [][PlaceNext]_layoutVars

-----------------------------------------------------------------------------
(* Properties.                                                             *)

\* Each image has its place inside the content column and the image band of the
\* slide, and the images do not come closer to each other than the gap.
Apart ==
  /\ \A i \in 1 .. Len(placed) :
       LET p == placed[i] IN
       /\ p.w >= 1 /\ p.x >= ContentLeft /\ p.x + p.w <= ContentLeft + ContentWidth
       /\ p.h >= 1 /\ p.y >= BandTop /\ p.y + p.h <= BandTop + BandHeight
  /\ \A i, j \in 1 .. Len(placed) :
       i < j => placed[i].y + placed[i].h + StackGap <= placed[j].y

\* The shape of a placed image is that of its source, up to the rounding of one
\* extent, or it is a line of one unit.
SameShape(p, img) ==
  LET d == p.h * img.w - p.w * img.h IN
  p.w = 1 \/ p.h = 1 \/ 2 * (IF d < 0 THEN -d ELSE d) <= (IF img.w > img.h THEN img.w ELSE img.h)

\* No image is distorted as long as its extents in EMU fit 32 bits: whatever
\* constraint binds, both extents are scaled alike.
Undistorted ==
  \A i \in 1 .. Len(placed) :
    images[i].w * EmuPerPx <= EmuMax /\ images[i].h * EmuPerPx <= EmuMax =>
      SameShape(placed[i], images[i])

\* The comment of place_single_column, for every image the program accepts: each
\* image is scaled to fit its slot with its aspect ratio preserved.
AspectPreserved == \A i \in 1 .. Len(placed) : SameShape(placed[i], images[i])
=============================================================================
