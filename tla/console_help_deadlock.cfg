\* /help runs DisplayHelp on the input thread while ProcessCommand holds
\* _commands_mutex.
CONSTANTS
  p1 = p1  p2 = p2  u1 = u1  me = me
  Commands <- MCCommands
  Lines <- HelpLines
  IdOf <- MCIdOf
  Connected = {p1}
  LocalUser = me
  Users = {u1}
  Texts = {"hey"}
  SignalAt = {"init", "wait"}
  MaxLines = 2
  MaxInbound = 0
  MaxTime = 0
  MaxShow = 0
SPECIFICATION Spec
PROPERTY EveryLineHandled
CHECK_DEADLOCK FALSE
