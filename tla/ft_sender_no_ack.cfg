\* The sender reports success without the receiver's acknowledgement.
CONSTANTS
  S = S  R = R  sidS = sidS  sidR = sidR
  Nodes <- MCNodes
  Sid <- MCSid
  Paths <- FlatPaths
  Basename <- MCBasename
  Size <- MCSize
  Holder <- MCHolder
  ChunkSize <- MCChunkSize
  Decodable <- AllDecodable
  SendLoopStarted = TRUE
  Accepts = {TRUE, FALSE}
  Faults = {}
  MaxSendFile = 1
SPECIFICATION Spec
PROPERTY SenderSuccessMeansDelivered
CHECK_DEADLOCK FALSE
