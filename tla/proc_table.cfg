SPECIFICATION Spec
CONSTANTS
  NSlots = 3
  MaxPid = 3
  ExitCodes = {383}
  KillSigs = {9}
  Killers = {1}
  Ignorers = {}
  ForkptyPids = {3}
  Trappers = {}
  GuestReturns = FALSE
  HostFails = FALSE
CHECK_DEADLOCK FALSE
INVARIANTS LiveOwnsSlot ReportsFate ReapsOnce
PROPERTIES ImplementsLifecycle
