SPECIFICATION MCFairSpec
CONSTANTS
  Producers = {p1, p2}
  Workers = {w1}
  Control = ctl
  Jobs = {j1, j2, j3}
  QueueSize = 1
  PreferQueueSize = 0
  HiQueueSize = 1
  MaxFlushes = 0
  SpuriousWakeups = FALSE
  NoOne = none
PROPERTIES
  CallsReturn
  BlockingWaitDone
