SPECIFICATION Spec
CONSTANTS
  HeapEnd = 17
  MemorySize = 384
  Page = 16
  MinHeap = 64
  Word = 512
  Sizes = {25}
  Counts = {}
  Aligns = {16}
  AllocAligns = {}
  Stale = {}
  Threads = {t1}
CHECK_DEADLOCK FALSE
INVARIANT ContentsFollow
