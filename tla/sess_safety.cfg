\* Connect, accept, callback wiring and two chats racing the handlers' writes.
CONSTANTS
  C = C  A = A
  Connector = C
  Acceptor = A
  MaxConn = 1
  MaxChat = 2
  UserId <- MCUserId
  SessionId <- MCSessionId
  MsgId <- MCMsgId
  ConnMsgId <- MCConnMsgId
  Stamps <- MCStamps
  Content <- MCContent
  AllocLimit <- MCAllocLimit
SPECIFICATION Spec
INVARIANT TypeOK NoForgedChat CodecRoundTrip
CHECK_DEADLOCK FALSE
