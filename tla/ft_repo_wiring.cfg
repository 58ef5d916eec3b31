\* As the repository wires it (only requests decoded, no send loop), an accepted transfer never ends.
CONSTANTS
  S = S  R = R  sidS = sidS  sidR = sidR
  Nodes <- MCNodes
  Sid <- MCSid
  Paths <- OnePath
  Basename <- MCBasename
  Size <- MCSize
  Holder <- MCHolder
  ChunkSize <- MCChunkSize
  Decodable <- RepoDecodable
  SendLoopStarted = FALSE
  Accepts = {TRUE}
  Faults = {}
  MaxSendFile = 1
SPECIFICATION Spec
PROPERTY EveryAcceptedTransferEnds
CHECK_DEADLOCK FALSE
