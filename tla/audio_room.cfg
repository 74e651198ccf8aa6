SPECIFICATION Spec
CONSTANTS
  Threads = {t1, t2}
  Cap = 3
  Low = 1
  Requests = {1, 2, 4}
  Periods = {1, 2}
  MaxSeq = 7
CHECK_DEADLOCK FALSE
INVARIANT RoomSignalled
