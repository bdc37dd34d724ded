SPECIFICATION Spec
CONSTANTS
  kRecorderQueueMaxLen = 3
  kRecorderNotifyInterval = 1
  MaxPackets = 5
  MaxStarts = 2
  Prompt = TRUE
INVARIANT NoCallbackAfterStop
