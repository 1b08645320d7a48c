SPECIFICATION FairSpec
CONSTANTS
  Worker = {w1, w2}
  Id = {i1, i2}
  NoId = NoId
  MaxChunkBytes = 1
  MaxOutputBytes = 1
  MaxTotalBytes = 1
  MaxLiveOutputs = 2
  IdleTtl = 1
  Size = {0, 1}
  Offset = {0, 1}
  Length = {0, 1}
  MaxStall = 1
  MaxIssued = 2
PROPERTY Reclaimed
