SPECIFICATION Spec
CONSTANTS
  NSlots = 2
  MaxPid = 3
  ExitCodes = {3}
  KillSigs = {}
  Killers = {}
  Ignorers = {}
  ForkptyPids = {3}
  Trappers = {2, 3}
  GuestReturns = FALSE
  HostFails = FALSE
CHECK_DEADLOCK FALSE
INVARIANT LiveOwnsSlot
