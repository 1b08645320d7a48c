SPECIFICATION Spec
CONSTANTS
  Worker = {w1, w2}
  Id = {i1, i2, i3}
  NoId = NoId
  MaxChunkBytes = 1
  MaxOutputBytes = 2
  MaxTotalBytes = 3
  MaxLiveOutputs = 2
  IdleTtl = 2
  Size = {0, 1, 2, 3}
  Offset = {0, 2}
  Length = {0, 1, 2}
  MaxStall = 1
  MaxIssued = 3
SYMMETRY Symmetry
INVARIANTS TypeOK Bounds TimesAgree
PROPERTY ImplementsHeldOutputs
