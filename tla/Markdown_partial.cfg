SPECIFICATION ConvertSpec
CONSTANTS
  Gap = Gap
  LineEnd = LineEnd
  PageBreak = PageBreak
  A = A
  B = B
  Bar = Bar
  TextStart = TextStart
  TextStop = TextStop
  ParagraphStop = ParagraphStop
  Broken = Broken
  Source <- Documents
  MaxDocumentBytes = 8
  MaxDecompressed = 20
  MaxDenseCells = 8
CHECK_DEADLOCK FALSE
INVARIANTS CompleteNotTruncated
