------------------------------ MODULE Deliver ------------------------------
(***************************************************************************)
(* The two deliver stages (sdk_client/stage_client_deliver.cpp): the first *)
(* takes packets from the deliver pool, converts them if the callback      *)
(* wants Cartesian points, puts frames together if it wants frames, and    *)
(* calls back; with enable_stage_client_deliver2 it hands single packets   *)
(* to a second stage with a thread of its own, which calls back and frees. *)
(*                                                                         *)
(* A packet lives in a buffer of packet_pool_.  Points, checksums and the  *)
(* statistics are left out, but not the reads that fill the statistics.    *)
(***************************************************************************)
EXTENDS Integers, Sequences, FiniteSets

CONSTANTS
  Buffers,          (* the units of packet_pool_                             *)
  MaxIdx,           (* bound: frames have the indices 0..MaxIdx              *)
  MaxSubIdx,        (* bound: packets of a frame                             *)
  Modes,            (* bound: the modes of the lidar, 0 among them           *)
  ControlKinds,     (* bound: kinds of packets besides data and status       *)
  MaxWaiting,       (* bound: packets that wait for a stage                  *)
  NoPacket          (* no packet, job, buffer, frame or table                *)

(* What the application asked for: the kind of its data callback, and      *)
(* whether the second stage is on.                                         *)
Settings == [callback : {"packet", "xyz_packet", "xyz_frame"}, deliver2 : BOOLEAN]

Data     == [kind : {"data"}, idx : 0..MaxIdx, sub : 1..MaxSubIdx]
Controls == [kind : {"status"}, ok : BOOLEAN, mode : Modes]
            \cup [kind : ControlKinds]

Jobs == [buf : Buffers, pkt : Data \cup Controls, need_free_buffer : BOOLEAN,
         handed : BOOLEAN, given : Buffers \cup {NoPacket}]

StagesAssumption ==
  /\ {NoPacket} \cap (Buffers \cup Modes \cup Data \cup Jobs) = {}
  /\ ControlKinds \subseteq {"table", "roi_changed", "other"} /\ 0 \in Modes
  /\ {MaxIdx, MaxSubIdx, MaxWaiting} \subseteq Nat \ {0}
  (* kPacketPoolSize is 900, the queues hold 600                             *)
  /\ IsFiniteSet(Buffers) /\ Cardinality(Buffers) > 2 * MaxWaiting + 2

VARIABLES
  settings,
  pool,             (* free buffers                                          *)
  deliver, deliver2,(* jobs that wait for the first and the second stage     *)
  job, job2,        (* the job each stage is working on, or NoPacket         *)
  xyz,              (* the frame in xyz_data_packet_                         *)
  last_frame_idx,
  cur_lidar_mode,
  ring_id_table,    (* the mode the table came in, NoPacket if it is zero    *)
  (* History: the last data packet the lidar sent and whether one came one  *)
  (* frame late, the packets that were put into a frame, the frames that    *)
  (* were delivered, buffers nobody will free, and whether a buffer was     *)
  (* read after it had been given away and freed                            *)
  last_sent, late_sent, collected, frames, leaked, stale_read,
  crashed           (* a packet was converted into a buffer that is not there *)

inputVars   == <<settings, last_sent, late_sent>>
frameVars   == <<xyz, last_frame_idx, collected, frames>>
controlVars == <<cur_lidar_mode, ring_id_table>>
secondVars  == <<deliver2, job2>>
bufferVars  == <<leaked, stale_read, crashed>>
stagesVars == <<inputVars, pool, deliver, job, secondVars, frameVars, controlVars, bufferVars>>

(* xyz_data_packet_buf_ is not initialized: the first reader of its header *)
(* may find the flag of a last packet set or not.                          *)
StagesInit ==
  /\ settings \in Settings /\ pool = Buffers
  /\ deliver = <<>> /\ deliver2 = <<>> /\ job = NoPacket /\ job2 = NoPacket
  /\ xyz \in [idx : {NoPacket}, is_last_sub_frame : BOOLEAN, packets : {<<>>}]
  /\ last_frame_idx = 0 /\ cur_lidar_mode = 0 /\ ring_id_table = NoPacket
  /\ last_sent = NoPacket /\ late_sent = FALSE /\ collected = <<>> /\ frames = <<>>
  /\ leaked = {} /\ stale_read = FALSE /\ crashed = FALSE

-----------------------------------------------------------------------------
(* The read stage hands a packet on.  Data comes in order and some of it   *)
(* gets lost; one packet may come when this stage has begun the next       *)
(* frame.  Only frames tell packets apart.                                 *)
Follows(p) == last_sent # NoPacket => p.idx > last_sent.idx \/ (p.idx = last_sent.idx /\ p.sub > last_sent.sub)
IsLate(p)  == ~late_sent /\ last_sent # NoPacket /\ last_sent.idx = p.idx + 1 /\ last_frame_idx = p.idx + 1

Send(p) ==
  IF p.kind # "data" THEN UNCHANGED <<last_sent, late_sent>>
  ELSE IF settings.callback # "xyz_frame"
       THEN p.idx = 0 /\ p.sub = 1 /\ UNCHANGED <<last_sent, late_sent>>
       ELSE \/ Follows(p) /\ last_sent' = p /\ UNCHANGED late_sent
            \/ IsLate(p) /\ late_sent' = TRUE /\ UNCHANGED last_sent

(* The units of the pool are alike.                                        *)
Unit == CHOOSE b \in pool : TRUE

AddDeliverJob(p) ==
  /\ Len(deliver) < MaxWaiting /\ pool # {} /\ Send(p)
  /\ pool' = pool \ {Unit} /\ deliver' = Append(deliver, [buf |-> Unit, pkt |-> p])
  /\ UNCHANGED <<settings, job, secondVars, frameVars, controlVars, bufferVars>>

(* given is the buffer that was handed to the second stage.                *)
TakeJob ==
  /\ job = NoPacket /\ deliver # <<>>
  /\ job' = [buf |-> Head(deliver).buf, pkt |-> Head(deliver).pkt,
             need_free_buffer |-> TRUE, handed |-> FALSE, given |-> NoPacket]
  /\ deliver' = Tail(deliver)
  /\ UNCHANGED <<inputVars, pool, secondVars, frameVars, controlVars, bufferVars>>

(* The end of process_job_.                                                *)
Working == job # NoPacket /\ ~job.handed
FreeJob == pool' = pool \cup {job.buf} /\ job' = NoPacket

(* A job that the deliver pool no longer prefers.                          *)
DropJob ==
  /\ Working /\ FreeJob
  /\ UNCHANGED <<inputVars, deliver, secondVars, frameVars, controlVars, bufferVars>>

-----------------------------------------------------------------------------
(* Status packets, messages and the table of ring ids.                     *)

TableAfterStatus(p) == IF p.ok /\ p.mode # cur_lidar_mode THEN NoPacket ELSE ring_id_table

ProcessControl ==
  /\ Working /\ job.pkt.kind # "data" /\ FreeJob
  /\ LET p == job.pkt
     IN  /\ cur_lidar_mode' = IF p.kind = "status" /\ p.ok THEN p.mode ELSE cur_lidar_mode
         /\ ring_id_table' = CASE p.kind = "status"      -> TableAfterStatus(p)
                               [] p.kind = "table"       -> cur_lidar_mode
                               [] p.kind = "roi_changed" -> NoPacket
                               [] OTHER                  -> ring_id_table
  /\ UNCHANGED <<inputVars, deliver, secondVars, frameVars, bufferVars>>

-----------------------------------------------------------------------------
(* Single packets.                                                         *)
DataJob(callback) == Working /\ job.pkt.kind = "data" /\ settings.callback = callback

(* Without the second stage the callback runs here, on the packet or on    *)
(* xyz_data_packet_.                                                       *)
CallBackPacket ==
  /\ DataJob("packet") \/ DataJob("xyz_packet")
  /\ ~settings.deliver2 /\ FreeJob
  /\ UNCHANGED <<inputVars, deliver, secondVars, frameVars, controlVars, bufferVars>>

(* add_job waits for room.                                                 *)
AddDeliver2Job(b) == Len(deliver2) < MaxWaiting /\ deliver2' = Append(deliver2, b) /\ UNCHANGED job2

GivenAway    == [job EXCEPT !.handed = TRUE, !.given = job.buf, !.need_free_buffer = FALSE]

HandOverPacket ==
  /\ DataJob("packet") /\ settings.deliver2
  /\ AddDeliver2Job(job.buf) /\ job' = GivenAway
  /\ UNCHANGED <<inputVars, pool, deliver, frameVars, controlVars, bufferVars>>

(* The points go to a second buffer, which is handed over; if they cannot  *)
(* be converted nobody frees it.                                           *)
HandOverXyz ==
  /\ DataJob("xyz_packet") /\ settings.deliver2 /\ pool # {}
  /\ pool' = pool \ {Unit}
  /\ \/ /\ AddDeliver2Job(Unit) /\ job' = [job EXCEPT !.handed = TRUE, !.given = Unit]
        /\ UNCHANGED leaked
     \/ /\ leaked' = leaked \cup {Unit} /\ job' = [job EXCEPT !.handed = TRUE]
        /\ UNCHANGED secondVars
  /\ UNCHANGED <<inputVars, deliver, frameVars, controlVars, stale_read, crashed>>

(* alloc_buffer_ returns NULL when the pool is empty, and the conversion   *)
(* writes through it.                                                      *)
ConvertIntoNothing ==
  /\ DataJob("xyz_packet") /\ settings.deliver2 /\ pool = {}
  /\ crashed' = TRUE
  /\ UNCHANGED <<inputVars, pool, deliver, job, secondVars, frameVars, controlVars, leaked, stale_read>>

(* The flag of the last packet and the numbers of points are read after    *)
(* the job was handed over.                                                *)
InSecondStage(b) == b = job2 \/ \E i \in DOMAIN deliver2 : deliver2[i] = b

FinishHandedOver ==
  /\ job # NoPacket /\ job.handed
  /\ stale_read' = (stale_read \/ (job.given # NoPacket /\ ~InSecondStage(job.given)))
  /\ pool' = IF job.need_free_buffer THEN pool \cup {job.buf} ELSE pool
  /\ job' = NoPacket
  /\ UNCHANGED <<inputVars, deliver, secondVars, frameVars, controlVars, leaked, crashed>>

(* The second stage.  It frees its job after the callback or drops it.     *)
TakeJob2 ==
  /\ job2 = NoPacket /\ deliver2 # <<>>
  /\ job2' = Head(deliver2) /\ deliver2' = Tail(deliver2)
  /\ UNCHANGED <<inputVars, pool, deliver, job, frameVars, controlVars, bufferVars>>

ProcessJob2 ==
  /\ job2 # NoPacket
  /\ pool' = pool \cup {job2} /\ job2' = NoPacket
  /\ UNCHANGED <<inputVars, deliver, job, deliver2, frameVars, controlVars, bufferVars>>

-----------------------------------------------------------------------------
(* Frames.  A packet with another index ends the frame.                    *)
IsLastSubFrame(p) == p.sub = MaxSubIdx

(* Mutant of OfFrameBefore: a late packet begins its frame again.         *)
NeverBefore(p) == FALSE
OfFrameBefore(p) == last_frame_idx - p.idx = 1

LostLast(p)  == ~xyz.is_last_sub_frame /\ p.idx - last_frame_idx = 1

(* Only the first packet of a frame brings its header.                     *)
Begun(p)     == [idx |-> p.idx, is_last_sub_frame |-> IsLastSubFrame(p), packets |-> <<p>>]
Continued(p) == [xyz EXCEPT !.packets = Append(@, p), !.is_last_sub_frame = @ \/ IsLastSubFrame(p)]

CollectIntoFrame ==
  /\ DataJob("xyz_frame") /\ FreeJob
  /\ LET p     == job.pkt
         begin == last_frame_idx # p.idx
         over  == IF begin /\ LostLast(p) THEN Append(frames, xyz) ELSE frames
     IN  IF begin /\ OfFrameBefore(p)
         THEN frames' = over /\ UNCHANGED <<xyz, last_frame_idx, collected>>
         ELSE /\ xyz' = IF begin THEN Begun(p) ELSE Continued(p)
              /\ frames' = IF IsLastSubFrame(p) THEN Append(over, xyz') ELSE over
              /\ last_frame_idx' = p.idx /\ collected' = Append(collected, p)
  /\ UNCHANGED <<inputVars, deliver, secondVars, controlVars, bufferVars>>

-----------------------------------------------------------------------------
Running ==
  \/ \E p \in Data \cup Controls : AddDeliverJob(p)
  \/ TakeJob \/ DropJob \/ ProcessControl
  \/ CallBackPacket \/ HandOverPacket \/ HandOverXyz \/ ConvertIntoNothing \/ FinishHandedOver
  \/ TakeJob2 \/ ProcessJob2
  \/ CollectIntoFrame

StagesNext == ~crashed /\ Running

StagesSpec == StagesInit /\ [][StagesNext]_stagesVars

-----------------------------------------------------------------------------
StagesTypeOK ==
  /\ settings \in Settings /\ pool \subseteq Buffers /\ leaked \subseteq Buffers
  /\ deliver \in Seq([buf : Buffers, pkt : Data \cup Controls]) /\ deliver2 \in Seq(Buffers)
  /\ job \in Jobs \cup {NoPacket} /\ job2 \in Buffers \cup {NoPacket}
  /\ last_sent \in Data \cup {NoPacket} /\ collected \in Seq(Data)
  /\ last_frame_idx \in 0..MaxIdx /\ cur_lidar_mode \in Modes
  /\ ring_id_table \in Modes \cup {NoPacket}
  /\ late_sent \in BOOLEAN /\ stale_read \in BOOLEAN /\ crashed \in BOOLEAN

(* Where a buffer can be: free, in one of the queues, in the hands of one  *)
(* stage, or lost.                                                         *)
Queued   == {deliver[i].buf : i \in DOMAIN deliver}
Queued2  == {deliver2[i] : i \in DOMAIN deliver2}
Held     == IF job # NoPacket /\ job.need_free_buffer THEN {job.buf} ELSE {}
Held2    == {job2} \ {NoPacket}
Places   == <<pool, Queued, Queued2, Held, Held2, leaked>>

(* Every buffer of the pool is in one place only, and once.  With the      *)
(* second stage switched off none is lost and none is read after it was    *)
(* freed; switched on, a packet that cannot be converted loses one, and    *)
(* until that happens a pool larger than the queues never runs out in the  *)
(* middle of a packet.                                                     *)
PacketBuffersAccounted ==
  /\ Cardinality(Queued) = Len(deliver) /\ Cardinality(Queued2) = Len(deliver2)
  /\ \A i, j \in DOMAIN Places : i # j => Places[i] \cap Places[j] = {}
  /\ UNION {Places[i] : i \in DOMAIN Places} = Buffers
  /\ ~settings.deliver2 => leaked = {} /\ ~stale_read
  /\ crashed => leaked # {}

(* The index of a delivered frame, and the packets that came of a frame.   *)
Index(f)    == IF f.packets = <<>> THEN 0 ELSE f.packets[1].idx
Came        == {collected[i] : i \in DOMAIN collected}
CameOf(idx) == {p \in Came : p.idx = idx}

(* A frame that is delivered has the packets that came of it, each once    *)
(* and in order; frame 0 has no index, as the code never writes its header.*)
FramesHoldWhatCame ==
  \A i \in DOMAIN frames :
    LET f == frames[i]
    IN  /\ {f.packets[k] : k \in DOMAIN f.packets} = CameOf(Index(f))
        /\ \A k, l \in DOMAIN f.packets : k < l => f.packets[k].sub < f.packets[l].sub
        /\ f.idx = IF Index(f) = 0 THEN NoPacket ELSE Index(f)

FramesInOrder == \A i, j \in DOMAIN frames : i < j => Index(frames[i]) < Index(frames[j])

(* A frame comes if its last packet came or a packet of the next index     *)
(* follows.  Frame 0 is the exception: it may come empty before frame 1,   *)
(* and without its last packet it may not come at all.                     *)
FramesCome ==
  \A idx \in 0..MaxIdx :
    /\ CameOf(idx) # {}
    /\ (\E p \in CameOf(idx) : IsLastSubFrame(p)) \/ (idx # 0 /\ CameOf(idx + 1) # {})
    => \E i \in DOMAIN frames : Index(frames[i]) = idx

(* The table of ring ids that is in use came while the lidar was in the    *)
(* mode its last good status reports; points of another mode get no ids.   *)
TableIsOfThisMode == ring_id_table # NoPacket => ring_id_table = cur_lidar_mode

(* The frames that the first stage hands to the callback are whole, come   *)
(* in order and once, and its points get the ring ids of the lidar's mode. *)
DeliveredFramesAreWhole == FramesHoldWhatCame /\ FramesInOrder /\ FramesCome /\ TableIsOfThisMode
=============================================================================
