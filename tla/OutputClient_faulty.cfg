SPECIFICATION FairClientSpec
CONSTANTS
  Op = {o1}
  Id = {i1, i2}
  MaxOutputBytes = 2
  MaxTotalBytes = 3
  MaxLiveOutputs = 2
  IdleTtl = 0
  Slack = 0
  ReadChunkBytes = 1
  MaxDocumentBytes = 2
  MaxPages = 2
  Faulty = TRUE
INVARIANT ResultIsDocuments
PROPERTIES Ends GivenBack
