\* "/exit" calls Stop on the input thread, whose self-join throws; main
\* then returns with both std::thread members still joinable.
CONSTANTS
  p1 = p1  p2 = p2  u1 = u1  me = me
  Commands <- MCCommands
  Lines <- ExitLines
  IdOf <- MCIdOf
  Connected = {p1}
  LocalUser = me
  Users = {u1}
  Texts = {"hey"}
  SignalAt = {"init", "wait"}
  MaxLines = 2
  MaxInbound = 0
  MaxTime = 0
  MaxShow = 0
SPECIFICATION Spec
INVARIANT CleanExit
CHECK_DEADLOCK FALSE
