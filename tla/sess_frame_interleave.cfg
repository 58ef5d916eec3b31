\* One chat from each side racing the connect and accept handlers: frame boundaries.
CONSTANTS
  C = C  A = A
  Connector = C
  Acceptor = A
  MaxConn = 1
  MaxChat = 1
  UserId <- MCUserId
  SessionId <- MCSessionId
  MsgId <- MCMsgId
  ConnMsgId <- MCConnMsgId
  Stamps <- MCStamps
  Content <- MCContent
  AllocLimit <- MCAllocLimit
SPECIFICATION Spec
INVARIANT FrameIntegrity
CHECK_DEADLOCK FALSE
