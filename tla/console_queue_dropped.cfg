\* The display thread ends with messages still queued, which are never printed.
CONSTANTS
  p1 = p1  p2 = p2  u1 = u1  me = me
  Commands <- MCCommands
  Lines <- ServingLines
  IdOf <- MCIdOf
  Connected = {p1}
  LocalUser = me
  Users = {u1}
  Texts = {"hey"}
  SignalAt = {"init", "wait"}
  MaxLines = 3
  MaxInbound = 1
  MaxTime = 1
  MaxShow = 2
SPECIFICATION Spec
PROPERTY QueueDrainedAtEnd
CHECK_DEADLOCK FALSE
