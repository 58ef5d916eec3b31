\* A TCP connection that fails mid-transfer leaves the receiver's entry for ever.
CONSTANTS
  S = S  R = R  sidS = sidS  sidR = sidR
  Nodes <- MCNodes
  Sid <- MCSid
  Paths <- FlatPaths
  Basename <- MCBasename
  Size <- MCSize
  Holder <- MCHolder
  ChunkSize <- MCChunkSize
  Decodable <- AllDecodable
  SendLoopStarted = TRUE
  Accepts = {TRUE, FALSE}
  Faults = {"drop"}
  MaxSendFile = 1
SPECIFICATION Spec
PROPERTY EveryAcceptedTransferEnds
CHECK_DEADLOCK FALSE
