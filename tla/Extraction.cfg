SPECIFICATION ExtractSpec
CONSTANTS
  File <- Archives
  P = 10
  Eocd = 11
  Zip64 = 12
  Locator = 13
  Entry = 14
  UnicodePath = 5
  Wide = {6}
  Sentinel = 99
  MaxEntries = 2
  MaxMeta = 18
  MaxName = 3
  ReadCells = 3
  RelId = {"r1", "r2"}
  Missing = Missing
  Relationship <- Relationships
  Home = "ppt"
  Member <- Members
  MaxPath = 3
  MaxReferences = 2
  MaxNesting = 2
  MaxElements = 5
  Char <- Chars
  MaxTextBytes = 4
  MaxSections = 2
  MaxPart = 2
  MaxExpanded = 4
  PartBytes = {0, 1, 2, 3}
  Piece <- Pieces
  SectionChars = 3
  Sections = 3
  Children <- Schema
  XmlPiece <- XmlPieces
  Newline <- LineFeed
  Tab <- Tabulator
  MaxDepth = 4
  MaxSharedStrings = 2
  MaxSharedBytes = 2
  MaxIndexChars = 1
  ElementChars = 2
  DetailBytes = 1
CHECK_DEADLOCK FALSE
INVARIANTS OneFooter PayloadIntact MembersChecked ListedInOrder OrderedFaithfully WithinBudgets TruncatedIsExact ScansHaveNoText VisibleText SharedByIndex
