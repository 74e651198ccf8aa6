SPECIFICATION Spec
CONSTANTS
  Procs = {p1, p2}
  Root = p1
  NSig = 3
  SIGKILL = 3
  SIGCHLD = 2
  Terminating = {1, 3}
  HostSigs = {1}
  Targets = {p2}
  Parents = {p1}
  Catchable = {1}
  MaskSets = {{1}}
  SuspendSets = {{1}}
  WaitSets = {{1}}
  Handling = {p2}
  Execs = {p1}
  KillSigs = {1, 3}
  Polls = 2
  MaxNest = 4
PROPERTY BlockedHeld
CHECK_DEADLOCK FALSE
