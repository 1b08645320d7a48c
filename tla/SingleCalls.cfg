SPECIFICATION CallSpec
CONSTANTS
  WordMax = 7
  MaxImageBytes = 3
  Length = {0, 1, 2, 3, 4}
  File <- Files
  MaxImages = 3
  EmuMax = 60
  EmuPerPx = 2
  ContentLeft = 2
  ContentWidth = 16
  BandTop = 8
  BandHeight = 13
  StackGap = 7
  Pixels = {1, 2, 7, 11, 40}
  MaxSlideImages = 2
  MaxDeckImages = 3
  MaxSlides = 2
  MaxImageCells = 28
  Fill = 20
  Soi = 21
  Restart = 22
  Stop = 23
  Sof = 24
  Png = 25
  Ihdr = 26
  PngChunk = 13
  PngCells = 6
  NoLength = NoLength
  Announced = {NoLength, 28, 29}
  Picture <- Pictures
  Text <- HeadTextsMC
  Absent = Absent
  Docx <- Sections
  Pptx <- Slides
  MaxGroups = 2
  MaxTextChars = 2
  MaxProseChars = 3
  MaxListed = 3
  MaxTotalChars = 9
  PageLimit = 3
  MaxDimension = 3
  MaxTotalPixels = 17
  MaxOutputBytes = 4
  PageNumber = {0, 1, 2, 3}
  PageSize <- PaperSizes
  PngBytes = {1, 2, 3}
  PageCount = {0, 2, 3}
  Gap = Gap
  LineEnd = LineEnd
  PageBreak = PageBreak
  A = A
  B = B
  Bar = Bar
  TextStart = TextStart
  TextStop = TextStop
  ParagraphStop = ParagraphStop
  Broken = Broken
  Source <- Documents
  MaxDocumentBytes = 8
  MaxDecompressed = 11
  MaxDenseCells = 8
CHECK_DEADLOCK FALSE
INVARIANTS CutAsSent Apart Undistorted FrameFound AcceptedIsRendered TotalBounded RastersWithinBudget AnswersRequest WordsInPlace
