SPECIFICATION RaceSpec
CONSTANTS
  MemSize = 10
  PageSize = 2
  HeapBase = 3
  ArenaMin = 1
  MaxFree = 2
  MaxLive = 2
  Lengths = {1, 4}
  Addrs = {4, 5, 6}
  FixedAddrs = {6}
  BrkAddrs = {3}
  ChildExecs = FALSE
CHECK_DEADLOCK FALSE
INVARIANT MapsZeroed
