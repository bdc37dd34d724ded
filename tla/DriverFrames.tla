---------------------------- MODULE DriverFrames ----------------------------
(***************************************************************************)
(* How the ROS driver turns data packets into frames                       *)
(* (driver/driver_lidar.cc and driver/ros2_driver_adapter.hpp).            *)
(*                                                                         *)
(* The SDK calls the driver with one packet after another, in the order    *)
(* that Misorder promises.  Without packet mode the driver collects the    *)
(* points of a frame and publishes the cloud when the next frame begins.   *)
(* In packet mode it publishes scans of several packets on a topic; the    *)
(* subscriber, here the adapter of a node that replays them, collects the  *)
(* cloud and publishes it at the last scan of the frame.                   *)
(*                                                                         *)
(* A packet stands for its points and for the time it starts.  Conversion  *)
(* and the coordinate transform of the points are left out.                *)
(***************************************************************************)
EXTENDS Integers, Sequences, FiniteSets

CONSTANTS
  PacketMode,
  AggregateNum,     (* aggregate_num: packets of a scan                      *)
  TableEvery,       (* table_send_hz_: frames from one table to the next     *)
  Depth,            (* the depth of the topic, which keeps the last scans    *)
  Indeterminate,    (* what a member that is never initialized may hold      *)
  MaxFrames,        (* bound: frames of the lidar                            *)
  PacketsPerFrame,  (* bound: packets of a frame                             *)
  NoFrame           (* no frame yet, and a scan without a start             *)

FramesAssumption ==
  /\ PacketMode \in BOOLEAN /\ AggregateNum \in Nat \ {0}
  /\ TableEvery \in Nat \ {0} /\ Depth \in Nat \ {0}
  /\ Indeterminate \subseteq Nat /\ 0 \in Indeterminate
  /\ MaxFrames \in Nat /\ PacketsPerFrame \in Nat

FramePackets == [frame : 1..MaxFrames, sub : 1..PacketsPerFrame]

NoFrameAssumption == NoFrame \notin FramePackets

VARIABLES
  (* DriverLidar                                                            *)
  current_frame_id, frame_start_ts, anglehv_table_init,
  cloud,            (* the packets whose points are in pcl_pc_ptr            *)
  (* ROSAdapter                                                             *)
  frame_count, packets_width,
  scan,             (* inno_scan_msg_, with the table a packet may carry     *)
  scanned,          (* a scan has been published                             *)
  topic,            (* scans the subscriber has not taken yet                *)
  lost,             (* the topic has dropped a scan                          *)
  replay_table,     (* anglehv_table_init_ of the subscriber                 *)
  (* History: every packet the driver was called with, the last cloud that  *)
  (* was published, and their number                                        *)
  received, frame, published

driverVars  == <<current_frame_id, frame_start_ts, anglehv_table_init>>
adapterVars == <<frame_count, packets_width, scan, scanned, topic, lost>>
outVars     == <<cloud, frame, published>>
framesVars == <<driverVars, adapterVars, replay_table, outVars, received>>

FramesInit ==
  /\ current_frame_id = -1 /\ frame_start_ts = NoFrame /\ anglehv_table_init = FALSE
  /\ cloud = <<>>
  /\ frame_count \in Indeterminate /\ packets_width \in Indeterminate
  /\ scan = <<>> /\ scanned = FALSE /\ topic = <<>> /\ lost = FALSE
  /\ replay_table = FALSE
  /\ received = <<>> /\ frame = NoFrame /\ published = 0

(* The lidar may skip packets and whole frames.                            *)
Later(p, q) == p.frame > q.frame \/ (p.frame = q.frame /\ p.sub > q.sub)
MayCome(p)  == received # <<>> => Later(p, received[Len(received)])

-----------------------------------------------------------------------------
(* lidar_data_callback.                                                    *)

(* The first packet only says where the first frame starts.                *)
FirstPacket(p) ==
  /\ current_frame_id = -1
  /\ current_frame_id' = p.frame /\ frame_start_ts' = p
  /\ UNCHANGED <<anglehv_table_init, adapterVars, replay_table, outVars>>

IsNextFrame(p) == current_frame_id # p.frame

(* The table is asked for until the lidar has answered.                    *)
AskForTable == \E got \in BOOLEAN : anglehv_table_init' = (anglehv_table_init \/ got)

Begin(p) ==
  /\ current_frame_id' = p.frame
  /\ frame_start_ts' = IF IsNextFrame(p) THEN p ELSE frame_start_ts

(* Mutant of Cleared: the cloud keeps its points.                          *)
Kept    == cloud
Cleared == <<>>

Publish(stamp, packets) ==
  /\ frame' = [stamp |-> stamp, packets |-> packets]
  /\ published' = published + 1

(* Frame mode.                                                             *)
CollectPacket(p) ==
  /\ ~PacketMode /\ current_frame_id # -1
  /\ AskForTable /\ Begin(p)
  /\ IF IsNextFrame(p) THEN Publish(frame_start_ts, cloud) /\ cloud' = Append(Cleared, p)
                       ELSE cloud' = Append(cloud, p) /\ UNCHANGED <<frame, published>>
  /\ UNCHANGED <<adapterVars, replay_table>>

(* Packet mode: publishPacket.  The frame number is counted up to the      *)
(* frame that carries the table.                                           *)
CountAfter(p) == IF IsNextFrame(p) THEN frame_count + 1 ELSE frame_count

(* Mutant of Restart: the count goes on.                                   *)
GoOn(count)     == count
Restart(count)  == 0
SendsScan(p)    == IsNextFrame(p) \/ packets_width >= AggregateNum

WidthAfter(p)    == IF SendsScan(p) THEN 1 ELSE packets_width + 1

KeepLast(scans) == IF Len(scans) > Depth THEN Tail(scans) ELSE scans

(* first is history: the scan is the first one.                            *)
SendScan(p) ==
  IF ~SendsScan(p) THEN UNCHANGED <<scanned, topic, lost>>
  ELSE /\ scanned' = TRUE
       /\ topic' = KeepLast(Append(topic,
            [last |-> IsNextFrame(p), size |-> packets_width, packets |-> scan, first |-> ~scanned,
             stamp |-> IF IsNextFrame(p) THEN frame_start_ts ELSE NoFrame]))
       /\ lost' = (lost \/ Len(topic) = Depth)

PublishPacket(p) ==
  /\ PacketMode /\ current_frame_id # -1
  /\ AskForTable /\ Begin(p)
  /\ SendScan(p)
  /\ packets_width' = WidthAfter(p)
  /\ LET has_table == CountAfter(p) = TableEvery /\ anglehv_table_init'
     IN  /\ frame_count' = IF has_table THEN Restart(CountAfter(p)) ELSE CountAfter(p)
         /\ scan' = Append(IF SendsScan(p) THEN <<>> ELSE scan, [packet |-> p, has_table |-> has_table])
  /\ UNCHANGED <<replay_table, outVars>>

DataCallback(p) ==
  /\ MayCome(p) /\ received' = Append(received, p)
  /\ FirstPacket(p) \/ CollectPacket(p) \/ PublishPacket(p)

-----------------------------------------------------------------------------
(* subscribePacket, in the executor of the subscriber.                     *)
Collected == LET s == Head(topic).packets IN cloud \o [i \in DOMAIN s |-> s[i].packet]

SubscribePacket ==
  /\ topic # <<>> /\ topic' = Tail(topic)
  /\ replay_table' = (replay_table \/ \E i \in DOMAIN Head(topic).packets : Head(topic).packets[i].has_table)
  /\ IF Head(topic).last THEN Publish(Head(topic).stamp, Collected) /\ cloud' = Cleared
                         ELSE cloud' = Collected /\ UNCHANGED <<frame, published>>
  /\ UNCHANGED <<driverVars, frame_count, packets_width, scan, scanned, lost, received>>

FramesNext == (\E p \in FramePackets : DataCallback(p)) \/ SubscribePacket

FramesSpec == FramesInit /\ [][FramesNext]_framesVars

-----------------------------------------------------------------------------
Scans == [last : BOOLEAN, first : BOOLEAN, size : Nat, stamp : FramePackets \cup {NoFrame},
          packets : Seq([packet : FramePackets, has_table : BOOLEAN])]

FramesTypeOK ==
  /\ current_frame_id \in {-1} \cup (1..MaxFrames) /\ frame_start_ts \in FramePackets \cup {NoFrame}
  /\ anglehv_table_init \in BOOLEAN /\ scanned \in BOOLEAN
  /\ lost \in BOOLEAN /\ replay_table \in BOOLEAN
  /\ cloud \in Seq(FramePackets) /\ received \in Seq(FramePackets)
  /\ frame_count \in Nat /\ packets_width \in Nat /\ published \in Nat
  /\ scan \in Seq([packet : FramePackets, has_table : BOOLEAN])
  /\ topic \in Seq(Scans) /\ Len(topic) <= Depth
  /\ frame \in [stamp : FramePackets \cup {NoFrame}, packets : Seq(FramePackets)] \cup {NoFrame}

(* A published cloud is one frame: it carries the start of the first       *)
(* packet the driver got of a frame, and the points of every packet of     *)
(* that frame in order; only the first packet of all is missing.  A scan   *)
(* that the topic drops takes this from the subscriber.                    *)
FramesAreWhole ==
  frame # NoFrame /\ ~lost =>
    \E first \in DOMAIN received : \E last \in first..Len(received) :
      /\ {i \in DOMAIN received : received[i].frame = frame.stamp.frame} = first..last
      /\ frame.stamp = received[first]
      /\ frame.packets = SubSeq(received, IF first = 1 THEN 2 ELSE first, last)

(* Every frame that is followed by another comes out once: it has been     *)
(* published, or its last scan waits in the topic.                         *)
NoFrameIsForgotten ==
  ~lost =>
    LET frames == {received[i].frame : i \in DOMAIN received}
        over   == IF frames = {} THEN 0 ELSE Cardinality(frames) - 1
    IN  published + Cardinality({i \in DOMAIN topic : topic[i].last}) = over

(* The size of a scan is the number of its packets, which are of one       *)
(* frame and no more than aggregate_num, so that the sizes up to a last    *)
(* scan add up to the packets of the frame, as ros2_test.hpp reports them. *)
(* The first scan alone starts from a counter that is not initialized.     *)
ScanSizesAddUp ==
  \A i \in DOMAIN topic :
    LET s == topic[i]
    IN  /\ s.first \/ s.size = Len(s.packets)
        /\ Len(s.packets) <= AggregateNum
        /\ Cardinality({s.packets[k].packet.frame : k \in DOMAIN s.packets}) <= 1

(* What the driver publishes is whole, comes out once and adds up.         *)
FramesComeOut == FramesAreWhole /\ NoFrameIsForgotten /\ ScanSizesAddUp

(* Once the driver has the table and has not missed the frame that was to  *)
(* carry it, it goes out every table_send_hz_ frames.                      *)
TableRepeats ==
  [][anglehv_table_init /\ frame_count <= TableEvery => frame_count' <= TableEvery]_framesVars
=============================================================================
