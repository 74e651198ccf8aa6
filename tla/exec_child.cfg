SPECIFICATION MapSpec
CONSTANTS
  MemSize = 12
  PageSize = 2
  HeapBase = 3
  ArenaMin = 1
  MaxFree = 2
  MaxLive = 3
  Lengths = {1, 4}
  Addrs = {2, 6, 7, 8, 10}
  FixedAddrs = {2, 7, 8}
  BrkAddrs = {3, 4}
  ChildExecs = TRUE
CHECK_DEADLOCK FALSE
INVARIANT NoAlias
