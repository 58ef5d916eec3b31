\* Chunk bookkeeping on both sides with every fault the environment admits.
CONSTANTS
  S = S  R = R  sidS = sidS  sidR = sidR
  Nodes <- MCNodes
  Sid <- MCSid
  Paths <- FlatPaths
  Basename <- MCBasename
  Size <- MCSize
  Holder <- MCHolder
  ChunkSize <- MCChunkSize
  Decodable <- AllDecodable
  SendLoopStarted = TRUE
  Accepts = {TRUE, FALSE}
  Faults = {"disk"}
  MaxSendFile = 1
SPECIFICATION Spec
PROPERTY EveryAcceptedTransferEnds
CHECK_DEADLOCK FALSE
