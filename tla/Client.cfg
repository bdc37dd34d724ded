SPECIFICATION MCSpec
CONSTANTS
  Main = m
  Check = c
  ContinueLive = FALSE
  StopAnyTime = FALSE
  MaxPackets = 2
  max_value_ = 3
  max_delta_counter_init_ = 1
  kFirstPackets = 2
  kGetUdpPortIntervals = 1
  MaxLength = 2
  MaxRewind = 1
  MaxTime = 3
  MaxJump = 1
  kRecorderQueueMaxLen = 3
  kRecorderNotifyInterval = 1
  MaxRead = 5
  MaxStarts = 2
  LastId = 1
  MaxSavers = 2
  Tidy = TRUE
  Ports = {1, 2}
  MaxClientStarts = 3
  MaxContent = 2
  BufferSize = 4
  Refusals = 2
  Callers = {t1, t2}
  MaxCalls = 2
  CounterWrap = 2
  MaxLose = 2
  MaxSets = 2
  MaxOpened = 2
  MaxTableCalls = 4
  MaxSlotSets = 4
  Pairs <- MCPairs
  Setters = {t1, t2}
  Recorders = {m}
INVARIANTS
  
  DestroyedIsClosed
  OnlyRepeatsAreLeftOut
  EndsAreTold
  EveryPacketInTime
  FilesAreGapless
  
  SettingsReachStages

  
