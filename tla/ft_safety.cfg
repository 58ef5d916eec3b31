\* Chunk bookkeeping on both sides with every fault the environment admits.
CONSTANTS
  S = S  R = R  sidS = sidS  sidR = sidR
  Nodes <- MCNodes
  Sid <- MCSid
  Paths <- FlatPaths
  Basename <- MCBasename
  Size <- MCSize
  Holder <- MCHolder
  ChunkSize <- MCChunkSize
  Decodable <- AllDecodable
  SendLoopStarted = TRUE
  Accepts = {TRUE, FALSE}
  Faults = {"drop", "open", "disk"}
  MaxSendFile = 2
SPECIFICATION Spec
INVARIANT TypeOK
PROPERTY WholeFileOnSuccess
CHECK_DEADLOCK FALSE
