SPECIFICATION LayoutSpec
CONSTANTS
  EmuMax = 60
  EmuPerPx = 2
  ContentLeft = 2
  ContentWidth = 16
  BandTop = 8
  BandHeight = 13
  StackGap = 1
  Pixels = {1, 2, 3, 7, 11, 30, 40}
  MaxSlideImages = 1
CHECK_DEADLOCK FALSE
INVARIANT AspectPreserved
