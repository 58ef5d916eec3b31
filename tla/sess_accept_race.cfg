\* Two connections, no chat: acceptance while Start is still running.
CONSTANTS
  C = C  A = A
  Connector = C
  Acceptor = A
  MaxConn = 2
  MaxChat = 0
  UserId <- MCUserId
  SessionId <- MCSessionId
  MsgId <- MCMsgId
  ConnMsgId <- MCConnMsgId
  Stamps <- MCStamps
  Content <- MCContent
  AllocLimit <- MCAllocLimit
SPECIFICATION Spec
PROPERTY EveryConnectionAccepted
CHECK_DEADLOCK FALSE
