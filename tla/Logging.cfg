SPECIFICATION MCSpec
CONSTANTS
  Loggers = {l1, l2}
  Worker = w
  Main = m
  BufferCount = 4
  QueueSize = 1
  LogLevels = {"critical", "error", "info"}
  LogSizes = {FALSE}
  MaxLogs = 6
  MaxSets = 1
  Nodes = {n1, n2}
  Keys = {1, 2, 3, 4}
  kNoRateControlCounts = 3
  kIncreaseTimes = 2
  MaxCount = 6
  Cut <- CutKey
  Writers = {w}
  rotate_file_number = 4
  SizeLimit = 2
  MaxRecords = 11
  MaxRestarts = 2
  None = none
  NoFile = none
INVARIANTS
  BuffersAccounted
  DeletedIsQuiet
  WorkerCallsWholePair
  PoolSuffices
  StormIsThinned
  NewestRecordsKept

  
