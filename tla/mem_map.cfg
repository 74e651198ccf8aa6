SPECIFICATION MapSpec
CONSTANTS
  MemSize = 10
  PageSize = 2
  HeapBase = 3
  ArenaMin = 1
  MaxFree = 2
  MaxLive = 2
  Lengths = {1, 4}
  Addrs = {4, 5, 6}
  FixedAddrs = {4, 6}
  BrkAddrs = {3, 6}
  ChildExecs = FALSE
CHECK_DEADLOCK FALSE
INVARIANTS MapTypeOK BelowCursor HolesFree NoAlias MapsZeroed NoClobber
