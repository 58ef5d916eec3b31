\* One connection made after main's wiring, one chat: where does it end up?
CONSTANTS
  C = C  A = A
  Connector = C
  Acceptor = A
  MaxConn = 1
  MaxChat = 1
  UserId <- MCUserId
  SessionId <- MCSessionId
  MsgId <- MCMsgId
  ConnMsgId <- MCConnMsgId
  Stamps <- MCStamps
  Content <- MCContent
  AllocLimit <- MCAllocLimit
SPECIFICATION Spec
INVARIANT ChatsReachChatManager
CHECK_DEADLOCK FALSE
