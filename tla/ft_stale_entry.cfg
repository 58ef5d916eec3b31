\* A stale incoming entry is completed by the chunks of a later, refused transfer of the same file name.
CONSTANTS
  S = S  R = R  sidS = sidS  sidR = sidR
  Nodes <- MCNodes
  Sid <- MCSid
  Paths <- SamePathsNames
  Basename <- MCBasename
  Size <- MCSize
  Holder <- MCHolder
  ChunkSize <- MCChunkSize
  Decodable <- AllDecodable
  SendLoopStarted = TRUE
  Accepts = {TRUE, FALSE}
  Faults = {}
  MaxSendFile = 2
SPECIFICATION Spec
PROPERTY WholeFileOnSuccess
CHECK_DEADLOCK FALSE
