SPECIFICATION Spec
CONSTANTS
  NSlots = 2
  MaxPid = 3
  ExitCodes = {3}
  KillSigs = {}
  Killers = {}
  Ignorers = {}
  ForkptyPids = {3}
  Trappers = {}
  GuestReturns = FALSE
  HostFails = FALSE
CHECK_DEADLOCK FALSE
INVARIANT AnnouncesExited
