SPECIFICATION FairSpec
CONSTANTS
  Threads = {a, b, c}
  Workloads = {{"mutex", "cond"}, {"rwlock"}, {"once", "spin"}, {"barrier"}}
  SeqSize = 3
  MaxSignals = 2
  RW_WRITER = 3
  BarrierCount = 2
  MaxArrivals = 3
CHECK_DEADLOCK FALSE
INVARIANTS TypeOK MutualExclusion NoLostWakeup CondNoMissedSignal OnceOnly BarrierHolds
PROPERTY SleepersWake
