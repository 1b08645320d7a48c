SPECIFICATION ServiceSpec
CONSTANTS
  Worker = {w1, w2}
  Id = {i1, i2, i3, i4}
  NoId = NoId
  MaxChunkBytes = 1
  MaxOutputBytes = 2
  MaxTotalBytes = 4
  MaxLiveOutputs = 3
  IdleTtl = 1
  Size = {1, 2, 3}
  Offset = {0}
  Length = {1}
  MaxStall = 1
  MaxIssued = 4
  Method = {"GenerateDocx", "GeneratePptx", "ConvertMarkdown", "RenderPdf", "InspectImage"}
  Batch <- UnequalPages
  MaxBatch = 2
SYMMETRY Symmetry
INVARIANTS TaskTypeOK OneOwner UnknownIsFinal WholeBatches
PROPERTY UsesStore
