SPECIFICATION ClientSpec
CONSTANTS
  Op = {o1, o2}
  Id = {i1, i2, i3}
  MaxOutputBytes = 1
  MaxTotalBytes = 2
  MaxLiveOutputs = 3
  IdleTtl = 0
  Slack = 0
  ReadChunkBytes = 1
  MaxDocumentBytes = 1
  MaxPages = 2
  Faulty = FALSE
SYMMETRY Symmetry
INVARIANTS ClientTypeOK Covered
PROPERTY LeavesByExpiry
