----------------------------- MODULE MCDataPath -----------------------------
(***************************************************************************)
(* The way of a packet from the input to the cloud, in one run: the parts  *)
(* it passes, one chosen in the initial state while the others rest.       *)
(*                                                                         *)
(* Socket and file: the reordering (Misorder) of a socket with many short  *)
(* frames, each packet at most once, and of a file with two frames that is *)
(* played twice.  Clouds and scans: the frames of the driver               *)
(* (DriverFrames) without and with the topic between.  Deliver and modes:  *)
(* the deliver stages (Deliver) at work on frames and with the second      *)
(* stage, while the lidar stays in its mode; and the first one on packets  *)
(* while the lidar changes it.                                             *)
(* The rest are one module each.                                           *)
(***************************************************************************)
EXTENDS Misorder, CpQueue, MemPool, DriverFrames, Deliver, GridNodes

CONSTANTS
  kRecorderQueueMaxLen, kRecorderNotifyInterval, MaxPackets, MaxStarts, \* Recorder
  PCAP_CACHE_LENGTH, MaxParts, MaxCaptured,                           \* PcapInput
  page_size, MapSize, Ranges, MaxRequest, MaxAllocations,             \* MemAllocator
  SeqWrap, MaxSeq, MaxFrame, MaxSub,                                  \* PacketStats
  MaxBlocks, MaxInFrame, Tick, TickWrap, MaxGap,                      \* PacketConvert
  EncoderShift, PolygonTableSize, MaxAngle, Beyond,                   \* PacketAngles
  MaxBagged, MaxPoints, kBagBufferSize, SizeLimits, LongGap,          \* Rosbag
  Intervals, kMaxNumberInCframe, MaxConverted, MaxItems,              \* FrameConverter
  TwoPi, PerRadian, Angles, MaxParameterSets                          \* DriverNode

VARIABLES
  part,
  (* Recorder                                                               *)
  life, starts, read, reading, callback, recorder_queue_, recorder_thread_runing_,
  recorder, dequeued, lent, terminated, recorded,
  (* PcapInput                                                              *)
  cache_, captured, packets,
  (* MemAllocator                                                           *)
  is_live_direct_memory_mode, allocation_cnt, range_list, range, aborted, buffers,
  (* PacketStats                                                            *)
  seq_first, came, stats, got, summary,
  (* PacketConvert                                                          *)
  model, append, now, converted, dest, ok,
  (* PacketAngles                                                           *)
  input, output, angles_done,
  (* Rosbag                                                                 *)
  limit, bag, given,
  (* FrameConverter                                                         *)
  interval, current, cframes, handed, added,
  (* DriverNode                                                             *)
  config, x_, angle_, transform_degree_flag_, T_2_0_, parameters, executor, changes,
  parameter_sets, node_output

recordVars   == <<life, starts, read, reading, callback, recorder_queue_,
                  recorder_thread_runing_, recorder, dequeued, lent, terminated, recorded>>
pcapVars     == <<cache_, captured, packets>>
memoryVars   == <<is_live_direct_memory_mode, allocation_cnt, range_list, range, aborted, buffers>>
countVars    == <<seq_first, came, stats, got, summary>>
convertVars  == <<model, append, now, converted, dest, ok>>
anglesVars   == <<input, output, angles_done>>
bagVars      == <<limit, bag, given>>
cframeVars   == <<interval, current, cframes, handed, added>>
nodeVars     == <<config, x_, angle_, transform_degree_flag_, T_2_0_, parameters, executor,
                  changes, parameter_sets, node_output>>
mcVars       == <<part, vars, ringVars, poolVars, framesVars, stagesVars, recordVars,
                  pcapVars, memoryVars, gridVars, countVars, convertVars, anglesVars,
                  bagVars, cframeVars, nodeVars>>

(* Two datagrams that share a place of the cache, one of them of another   *)
(* port of the same place, one that is too long, and one in one piece.     *)
MCDatagrams ==
  {[id |-> 1, parts |-> 2, ours |-> TRUE], [id |-> 3, parts |-> 2, ours |-> TRUE],
   [id |-> 5, parts |-> 2, ours |-> FALSE], [id |-> 2, parts |-> 3, ours |-> TRUE],
   [id |-> 4, parts |-> 1, ours |-> TRUE]}

(* Clouds of two lidars over a map of nine by three cells: points in one   *)
(* cell, before, behind and on the border of the map, and cropped away.    *)
Point(x, y, z) == [x |-> x, y |-> y, z |-> z]
MCClouds == {{Point(1, 3, 4), Point(0, 2, 6)}, {Point(-1, 0, 9), Point(4, 4, 1)},
             {Point(8, 5, 5), Point(9, 2, 0), Point(17, 1, 9)}, {Point(19, 1, 1)}}
MCShift == [l \in Lidars |-> l - 1]
MCScanMin == -1

Socket     == INSTANCE Misorder WITH LastSub <- 1, Copies <- 1
File       == INSTANCE Misorder WITH Frames <- {0, 1}, LastSub <- 1, IsFile <- TRUE
Unscanned  == INSTANCE DriverFrames WITH PacketMode <- FALSE, Indeterminate <- {0}
Steady     == INSTANCE Deliver WITH Modes <- {0}, ControlKinds <- {"other"}
Recording  == INSTANCE Recorder WITH Prompt <- FALSE, sent <- read
Pcap       == INSTANCE PcapInput WITH Datagrams <- MCDatagrams
Memory     == INSTANCE MemAllocator
Counting   == INSTANCE PacketStats WITH first <- seq_first
Converting == INSTANCE PacketConvert WITH lidar <- model, packets <- converted, MaxPackets <- MaxInFrame
Angle      == INSTANCE PacketAngles
Bag        == INSTANCE Rosbag
Cframes    == INSTANCE FrameConverter
Node       == INSTANCE DriverNode

ASSUME DriverAssumption    == FramesAssumption /\ NoFrameAssumption /\ Unscanned!FramesAssumption
ASSUME DeliverAssumption   == StagesAssumption /\ Steady!StagesAssumption
ASSUME RecordingAssumption == Recording!ConstantAssumption
ASSUME PcapAssumption      == Pcap!PcapAssumption
ASSUME MemoryAssumption    == Memory!AllocatorAssumption
ASSUME SurfaceAssumption   == MapAssumption
ASSUME PacketAssumption    == Counting!CountingAssumption /\ Converting!ConstantAssumption /\ Angle!ConstantAssumption
ASSUME FileAssumption      == Bag!RosbagAssumption /\ Cframes!ConverterAssumption
ASSUME NodeAssumption      == Node!NodeAssumption

-----------------------------------------------------------------------------
Is(p) == part = p /\ UNCHANGED part

Unless(parts, v) == IF part \in parts THEN TRUE ELSE UNCHANGED v

Rest == /\ Unless({"socket", "file"}, vars) /\ Unless({"ring"}, ringVars) /\ Unless({"pool"}, poolVars)
        /\ Unless({"scans", "clouds"}, framesVars) /\ Unless({"deliver", "modes"}, stagesVars)
        /\ Unless({"recorder"}, recordVars) /\ Unless({"pcap"}, pcapVars)
        /\ Unless({"memory"}, memoryVars) /\ Unless({"grid"}, gridVars)
        /\ Unless({"counting"}, countVars) /\ Unless({"converting"}, convertVars)
        /\ Unless({"angles"}, anglesVars) /\ Unless({"bag"}, bagVars) /\ Unless({"cframes"}, cframeVars)
        /\ Unless({"node"}, nodeVars)

(* Every packet has come, the lidar is silent from here on, a fault has    *)
(* ended the program, or the caller of a library function calls no more.   *)
Silence ==
  /\ CASE part = "socket" -> pc = "idle" /\ Socket!Packets \subseteq arrived
       [] part = "file" -> pc = "idle" /\ \A p \in File!Packets : p.copy = restarts + 1 => p \in arrived
       [] part \in {"scans", "clouds"} -> topic = <<>> /\ \A p \in FramePackets : ~MayCome(p)
       [] part \in {"deliver", "modes"} -> crashed \/ (deliver = <<>> /\ deliver2 = <<>> /\ job = None /\ job2 = None)
       [] part = "memory" -> aborted
       [] part = "grid" -> clouds_sent = MaxClouds /\ cloud_topic = [l \in Lidars |-> <<>>]
       [] part \in {"counting", "converting", "angles", "bag", "cframes", "node"} -> TRUE
       [] OTHER -> FALSE
  /\ UNCHANGED mcVars

(* The parts that rest have one initial state.                             *)
MCInit ==
  /\ part \in {"socket", "file", "ring", "pool", "scans", "clouds", "deliver", "modes",
              "recorder", "pcap", "memory", "grid", "counting", "converting", "angles", "bag",
              "cframes", "node"}
  /\ IF part = "grid" THEN TRUE ELSE reader = "volume"
  /\ IF part = "counting" THEN TRUE ELSE seq_first = 0
  /\ IF part = "converting" THEN TRUE
     ELSE append = FALSE /\ model = [type |-> "sphere", mode |-> "single", table |-> TRUE, crc |-> TRUE]
  /\ IF part = "angles" THEN TRUE ELSE input = Angle!Input("imu", 0, 0, 0)
  /\ IF part = "bag" THEN TRUE ELSE limit = 0
  /\ IF part = "cframes" THEN TRUE ELSE interval = 0
  /\ Counting!CountingInit /\ Converting!Init /\ Angle!Init /\ Bag!RosbagInit /\ Cframes!ConverterInit
  /\ IF part = "node" THEN TRUE ELSE config = Node!PlainConfiguration
  /\ Node!NodeInit
  /\ Init /\ RingInit /\ PoolInit /\ Recording!Init /\ Pcap!PcapInit /\ Memory!AllocatorInit /\ MapInit
  /\ IF part = "scans" THEN FramesInit ELSE Unscanned!FramesInit
  /\ StagesInit
  /\ IF part = "deliver" THEN settings.deliver2 = (settings.callback # "xyz_frame")
     ELSE settings = [callback |-> "packet", deliver2 |-> FALSE] /\ ~xyz.is_last_sub_frame

Steps ==
  \/ Is("socket") /\ Socket!Next
  \/ Is("file") /\ File!Next
  \/ Is("ring") /\ RingNext
  \/ Is("pool") /\ PoolNext
  \/ Is("scans") /\ FramesNext
  \/ Is("clouds") /\ Unscanned!FramesNext
  \/ Is("modes") /\ StagesNext
  \/ Is("deliver") /\ Steady!StagesNext
  \/ Is("recorder") /\ Recording!Next
  \/ Is("pcap") /\ Pcap!PcapNext
  \/ Is("memory") /\ Memory!AllocatorNext
  \/ Is("grid") /\ MapNext
  \/ Is("counting") /\ Counting!CountingNext
  \/ Is("converting") /\ Converting!Next
  \/ Is("angles") /\ Angle!Next
  \/ Is("bag") /\ Bag!RosbagNext
  \/ Is("cframes") /\ Cframes!ConverterNext
  \/ Is("node") /\ Node!NodeNext

MCNext == (Steps /\ Rest) \/ Silence

MCSpec == MCInit /\ [][MCNext]_mcVars

-----------------------------------------------------------------------------
(* No buffer is lost: packets that wait behind a gap keep theirs until     *)
(* they are handed on or freed (Misorder); the deliver stages free those   *)
(* of the packet pool, and read none they no longer hold, but for the two  *)
(* cases Deliver names; those of recorded packets go back (Recorder), and  *)
(* the ranges of the mapped memory stay a partition of it (MemAllocator).  *)
BuffersReturn ==
  BuffersAccounted /\ PacketBuffersAccounted /\ Recording!BuffersReturn /\ Memory!RangesIntact

(* What is counted of the packets is what came and what is missing         *)
(* (PacketStats), and the datagrams put together from a capture are whole  *)
(* (PcapInput); what packets are converted to holds their points, at their *)
(* times, and can be read (PacketConvert); angles, corrections and scan    *)
(* lines are those of the point (PacketAngles); and the node turns them,   *)
(* and the IMU messages, to the axes it is asked for (DriverNode).         *)
PacketsAreTrue ==
  /\ Pcap!DatagramsAreWhole
  /\ part = "counting" => Counting!ExpectedIsTrue /\ Counting!GapsAreTrue
  /\ part = "converting" => Converting!ConversionIsSound
  /\ part = "angles" => Angle!PointsAreRight
  /\ part = "node" => Node!NodeIsSound

(* A recorded bag can be read from its first record to its last, in order, *)
(* and keeps to its limit (Rosbag); the frames of the converter are those  *)
(* that were added (FrameConverter).                                       *)
RecordsAreSound == (part = "bag" => Bag!BagsAreSound) /\ Cframes!FramesAreConverted
=============================================================================
