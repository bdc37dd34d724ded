SPECIFICATION MCSpec
CONSTANTS
  Producers = {p1, p2}
  Workers = {w1, w2}
  Control = ctl
  Jobs = {j1, j2, j3}
  QueueSize = 2
  PreferQueueSize = 1
  HiQueueSize = 1
  MaxFlushes = 1
  SpuriousWakeups = TRUE
  NoOne = none
SYMMETRY Symmetry
INVARIANTS
  TypeOK
  Accounting
  FlushedMeansDrained
  OldestFirst
PROPERTIES
  NotDiscardableReachesWorker
  ImplementsService
