SPECIFICATION MCSpec
CONSTANTS
  Frames = {0, 1, 2, 5}
  LastSub = 2
  Copies = 2
  MaxQueue = 2
  MaxJump = 2
  OtherSockets = FALSE
  IsFile = FALSE
  MaxRestarts = 1
  Items = {a, b}
  QueueSize = 4
  NoItem = none
  UnitCount = 4
  PacketMode = TRUE
  Indeterminate = {0, 7}
  AggregateNum = 2
  TableEvery = 2
  Depth = 2
  MaxFrames = 4
  PacketsPerFrame = 3
  Buffers = {b1, b2, b3, b4, b5}
  Modes = {0, 1}
  MaxWaiting = 1
  MaxIdx = 2
  MaxSubIdx = 2
  ControlKinds = {"table", "roi_changed", "other"}
  NoPacket = nopacket
  kRecorderQueueMaxLen = 3
  kRecorderNotifyInterval = 1
  MaxPackets = 5
  MaxStarts = 2
  PCAP_CACHE_LENGTH = 2
  MaxParts = 2
  MaxCaptured = 5
  page_size = 2
  MapSize = 7
  Ranges = {r1, r2, r3, r4}
  MaxRequest = 5
  MaxAllocations = 5
  None = none
  NoFrame = none
  Res = 2
  MaxX = 16
  MaxY = 4
  Lidars = {1, 2}
  Shift <- MCShift
  Clouds <- MCClouds
  scan_min_ <- MCScanMin
  scan_max_ = 18
  MaxClouds = 2
  QueueDepth = 1
  base_height_ = 1
  SeqWrap = 4
  MaxSeq = 5
  MaxFrame = 3
  MaxSub = 2
  MaxBlocks = 1
  MaxInFrame = 2
  Tick = 2
  TickWrap = 2
  MaxGap = 3
  EncoderShift = 2
  PolygonTableSize = 4
  MaxAngle = 5
  Beyond = 5
  MaxBagged = 4
  MaxPoints = 2
  kBagBufferSize = 6
  SizeLimits = {0, 12}
  LongGap = 2
  Intervals = {0, 2}
  kMaxNumberInCframe = 2
  MaxConverted = 3
  MaxItems = 2
  TwoPi = 3
  PerRadian = 4
  Angles = {0, 2, 5, 7}
  MaxParameterSets = 1
INVARIANTS
  InOrder
  LateOnlyBeyondWindow
  WaitsOnlyForGap
  FreeListIntact
  FramesComeOut
  DeliveredFramesAreWhole
  BuffersReturn
  MapIsSound
  
  
PROPERTIES
  ImplementsFifo
  ImplementsPool
  TableRepeats
