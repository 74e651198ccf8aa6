SPECIFICATION FairSpec
CONSTANTS
  NSlots = 3
  MaxPid = 3
  ExitCodes = {3}
  KillSigs = {}
  Killers = {}
  Ignorers = {}
  ForkptyPids = {3}
  Trappers = {}
  GuestReturns = TRUE
  HostFails = FALSE
CHECK_DEADLOCK FALSE
PROPERTY ShutdownCompletes
