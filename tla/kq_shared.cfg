SPECIFICATION Spec
CONSTANTS
  Threads = {t1, t2}
  Kqs = {k1, k2}
  Pids = {p1}
  Later = {}
  Udatas = {2, 3}
  Half = 2
  NSlots = 2
  ShareKq = TRUE
  CloseArmed = FALSE
  AddsTwice = FALSE
  HostFails = FALSE
  None = None
CHECK_DEADLOCK FALSE
PROPERTY ReportsTrue
