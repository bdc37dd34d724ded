SPECIFICATION FairSpec
CONSTANTS
  Producers = {p1, p2}
  Workers = {w1}
  Control = ctl
  Jobs = {j1, j2}
  QueueSize = 1
  PreferQueueSize = 0
  HiQueueSize = 1
  MaxFlushes = 1
  SpuriousWakeups = FALSE
  NoOne = none
PROPERTY
  CallsReturn
CHECK_DEADLOCK FALSE
