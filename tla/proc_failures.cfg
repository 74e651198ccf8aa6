SPECIFICATION Spec
CONSTANTS
  NSlots = 3
  MaxPid = 3
  ExitCodes = {3}
  KillSigs = {}
  Killers = {}
  Ignorers = {1}
  ForkptyPids = {3}
  Trappers = {1, 3}
  GuestReturns = TRUE
  HostFails = TRUE
CHECK_DEADLOCK FALSE
PROPERTY SlotLifecycle
