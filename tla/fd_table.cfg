SPECIFICATION Spec
CONSTANTS
  Procs = {p1, p2}
  Root = p1
  FdMax = 2
  NStd = 1
  HostMax = 5
  Handles = {x1}
  Objs = {a}
  None = None
  KeepStreams = FALSE
CHECK_DEADLOCK FALSE
INVARIANTS OwnDescriptor NoLeak
PROPERTIES ImplementsDescriptors TombsStay
