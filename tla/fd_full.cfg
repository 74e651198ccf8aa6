SPECIFICATION FaultSpec
CONSTANTS
  Procs = {p1, p2}
  Root = p1
  FdMax = 2
  NStd = 1
  HostMax = 6
  Handles = {}
  Objs = {a}
  None = None
  KeepStreams = FALSE
CHECK_DEADLOCK FALSE
INVARIANT OwnDescriptor
