\* The UI, its chat commands and inbound chats, with SIGINT in main's loop.
CONSTANTS
  p1 = p1  p2 = p2  u1 = u1  me = me
  Commands <- MCCommands
  Lines <- ServingLines
  IdOf <- MCIdOf
  Connected = {p1}
  LocalUser = me
  Users = {u1}
  Texts = {"hey"}
  SignalAt = {"init", "wait"}
  MaxLines = 3
  MaxInbound = 1
  MaxTime = 1
  MaxShow = 2
SPECIFICATION Spec
INVARIANT TypeOK ChatHistoryAsSpecified
PROPERTY DisplayEnds
CHECK_DEADLOCK FALSE
