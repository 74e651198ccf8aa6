SPECIFICATION Spec
CONSTANTS
  Threads = {t1, t2}
  Kqs = {k1, k2}
  Pids = {p1, p2}
  Later = {p2}
  Udatas = {3}
  Half = 2
  NSlots = 4
  ShareKq = FALSE
  CloseArmed = FALSE
  AddsTwice = FALSE
  HostFails = FALSE
  None = None
CHECK_DEADLOCK FALSE
INVARIANT WatchesBacked
PROPERTIES ReportsTrue ExitsReported
