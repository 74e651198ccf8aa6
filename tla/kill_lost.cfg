SPECIFICATION Spec
CONSTANTS
  NSlots = 2
  MaxPid = 2
  ExitCodes = {3}
  KillSigs = {9}
  Killers = {1}
  Ignorers = {}
  ForkptyPids = {3}
  Trappers = {}
  GuestReturns = FALSE
  HostFails = FALSE
CHECK_DEADLOCK FALSE
INVARIANT KillNotLost
