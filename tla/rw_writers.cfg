SPECIFICATION Spec
CONSTANTS
  Threads = {a, b, c}
  Workloads = {{"rwlock"}}
  SeqSize = 3
  MaxSignals = 2
  RW_WRITER = 3
  BarrierCount = 2
  MaxArrivals = 3
CHECK_DEADLOCK FALSE
PROPERTY WriterPreference
