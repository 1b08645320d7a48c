SPECIFICATION FairServiceSpec
CONSTANTS
  Worker = {w1, w2}
  Id = {i1, i2, i3}
  NoId = NoId
  MaxChunkBytes = 1
  MaxOutputBytes = 1
  MaxTotalBytes = 2
  MaxLiveOutputs = 2
  IdleTtl = 0
  Size = {1, 2}
  Offset = {0}
  Length = {1}
  MaxStall = 0
  MaxIssued = 3
  Method = {"ConvertMarkdown", "RenderPdf"}
  Batch <- TwoPages
  MaxBatch = 2
PROPERTY Answered
