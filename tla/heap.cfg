SPECIFICATION Spec
CONSTANTS
  HeapEnd = 17
  MemorySize = 384
  Page = 16
  MinHeap = 64
  Word = 512
  Sizes = {0, 25, 244, 456}
  Counts = {0, 2}
  Aligns = {8, 16, 32}
  AllocAligns = {8, 32}
  Stale = {0, 32, 160, 500}
  Threads = {t1, t2}
CHECK_DEADLOCK FALSE
INVARIANTS Tiled OneOwner WritesInside Recovered
