\* A zero-byte file is accepted by the receiver and never completed.
CONSTANTS
  S = S  R = R  sidS = sidS  sidR = sidR
  Nodes <- MCNodes
  Sid <- MCSid
  Paths <- OnePath
  Basename <- MCBasename
  Size <- MCSizeEmpty
  Holder <- MCHolder
  ChunkSize <- MCChunkSize
  Decodable <- AllDecodable
  SendLoopStarted = TRUE
  Accepts = {TRUE}
  Faults = {}
  MaxSendFile = 1
SPECIFICATION Spec
PROPERTY EveryAcceptedTransferEnds
CHECK_DEADLOCK FALSE
