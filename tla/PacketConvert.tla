--------------------------- MODULE PacketConvert ---------------------------
(***************************************************************************)
(* The conversion of packets to points (InnoDataPacketUtils,               *)
(* inno_lidar_packet_utils.cpp and .h) by the deliver stage: packet by     *)
(* packet, into memory of its own size (_malloced), or packets of a frame  *)
(* one after the other into one buffer; and the check that a packet passes *)
(* when it is read.                                                        *)
(*                                                                         *)
(* Blocks are of one channel.  A slot is what a return of it says: a hit,  *)
(* nothing, or a hit outside the field of view.  Sizes count points; times *)
(* are in us and Tick is what ts_10us counts.                              *)
(***************************************************************************)
EXTENDS Integers, SequencesExt

CONSTANTS
  MaxBlocks,     (* bound: of a packet                                       *)
  MaxPackets,    (* bound: of a frame                                        *)
  Tick,          (* bound: 10 us                                             *)
  TickWrap,      (* bound: values of ts_10us, 2^16 in the code               *)
  MaxGap         (* bound: time between two packets                          *)

ConstantAssumption ==
  /\ {MaxBlocks, MaxPackets, Tick, TickWrap} \subseteq Nat \ {0} /\ MaxGap \in Nat

En == {"robine", "robinw", "falcon2"}
Co == {"robinw_co", "elite_co", "hb_co", "e2_co", "e2x_co"}

XyzOf == [sphere |-> "xyz", robinw |-> "robinw_xyz", falcon2 |-> "falcon2_xyz",
          robinw_co |-> "robinw_xyz", elite_co |-> "elite_xyz", hb_co |-> "hb_xyz",
          e2_co |-> "e2_xyz", e2x_co |-> "e2x_xyz", robine |-> "robine_xyz"]

(* CHECK_SPHERE_POINTCLOUD_DATA does not have the first of the En types.   *)
Spheres == {"sphere", "robinw", "falcon2"} \cup Co
Sizable == Spheres \cup {"robine"} \cup ({XyzOf[t] : t \in Spheres})

ReturnModes == {"single", "2_strongest", "2_strongest_furthest"}

get_return_times(mode) == IF mode = "single" THEN 1 ELSE 2

kHeader == 1       \* sizeof(InnoDataPacket), and a block or a point
Room    == kHeader + 2 * MaxBlocks      \* of the buffer for a frame

VARIABLES
  lidar,      (* what it sends, and whether its table of angles is there     *)
  append,     (* packets of a frame go into one buffer                       *)
  now, packets,  (* the time, and the packets that were converted into dest  *)
  dest, ok    (* the result and the return of the last conversion            *)

convertVars == <<lidar, append, now, packets, dest, ok>>

NoDest == [type |-> "none", mode |-> "none", points |-> <<>>, size |-> 0, crc |-> FALSE,
           ts_start |-> 0]

(* Any of the families, with what makes a difference to it.                *)
LidarModels ==
  {l \in [type : {"sphere", "robine", "falcon2", "elite_co", "e2x_co"},
          mode : {"single", "2_strongest"}, table : BOOLEAN, crc : BOOLEAN] :
     (l.type = "sphere" \/ l.crc) /\ (l.type = "elite_co" \/ l.table)}

Init ==
  /\ lidar \in LidarModels
  /\ append \in BOOLEAN /\ now = 0 /\ packets = <<>> /\ dest = NoDest /\ ok = TRUE

-----------------------------------------------------------------------------
Slots == {"hit", "empty", "outside"}

(* A packet of the lidar, sent at ts; the hits of a block have its time.   *)
PacketsAt(ts) ==
  [ts : {ts}, slots : UNION {[1..n -> Slots] :
     n \in {get_return_times(lidar.mode) * b : b \in 0..MaxBlocks}}]

get_max_points_count(p) == Len(p.slots)

get_data_packet_size(type, items) == kHeader + items

(* The first three loops over the slots of a packet.  With a table of      *)
(* angles, only compact types are cut to the field of view.                *)
Wanted(p) ==
  SelectSeq([i \in DOMAIN p.slots |-> i],
            LAMBDA i : /\ p.slots[i] # "empty"
                       /\ lidar.type \in Co /\ lidar.table => p.slots[i] # "outside")

(* get_points_count goes without the table.                                *)
get_points_count(p) == Len(SelectSeq(p.slots, LAMBDA s : s # "empty"))

(* Mutant of TimeAdjust: times are those of the packet.                    *)
NoAdjust(p, d) == 0
TimeAdjust(p, d) == ((p.ts - d.ts_start) \div Tick) % TickWrap

Points(p, d, adjust) ==
  [k \in DOMAIN Wanted(p) |-> [ts |-> p.ts, slot |-> Wanted(p)[k], ts_10us |-> adjust]]

SizeOf(d, add, room) == IF add THEN d.size ELSE kHeader

(* convert_to_xyz_pointcloud: what it makes of dest, and what it returns.  *)
(* When the room ends, the points that found room stay, and the size is    *)
(* what it was: that of the packet, or that of the frame so far.           *)
Converted(p, d, room, add) ==
  LET d0     == IF add THEN d
                ELSE [NoDest EXCEPT !.mode = lidar.mode, !.ts_start = p.ts,
                        !.size = get_data_packet_size(lidar.type, Len(p.slots) \div get_return_times(lidar.mode)),
                        !.crc = TRUE]
      size   == SizeOf(d, add, room)
      points == Points(p, d0, IF add THEN TimeAdjust(p, d0) ELSE 0)
      fits   == Min({Len(points), room - size})
  IN  IF lidar.type \notin Spheres THEN [dest |-> d, ok |-> FALSE]
      ELSE IF size > room THEN [dest |-> [d0 EXCEPT !.crc = FALSE], ok |-> FALSE]
      ELSE IF fits < Len(points)
      THEN [dest |-> [d0 EXCEPT !.type = XyzOf[lidar.type], !.crc = FALSE,
                                !.points = @ \o SubSeq(points, 1, fits)], ok |-> FALSE]
      ELSE [dest |-> [d0 EXCEPT !.type = XyzOf[lidar.type], !.points = @ \o points,
                                !.size = size + Len(points), !.crc = lidar.crc], ok |-> TRUE]

(* What a packet passes when it is read: the size it says is that of its   *)
(* type and number of items, and its checksum is right.  Two types of      *)
(* points are not known, and the size of one that is known is not.         *)
check_data_packet(type, mode, items, size, crc) ==
  IF \/ type \in {"e2_xyz", "e2x_xyz"}
     \/ (type \in Spheres \cup En /\ mode \notin ReturnModes) THEN "invalid"
  ELSE IF type \notin Sizable THEN "panic"
  ELSE IF size = get_data_packet_size(type, items) /\ crc THEN "valid" ELSE "invalid"

-----------------------------------------------------------------------------
(* A packet by itself, into a buffer or into memory that is made for it.   *)
Convert(p, room) ==
  /\ ~append /\ packets = <<>>
  /\ LET c == Converted(p, dest, room, FALSE) IN dest' = c.dest /\ ok' = c.ok
  /\ packets' = <<p>> /\ UNCHANGED <<lidar, append, now>>

convert_to_xyz_pointcloud == \E p \in PacketsAt(now) : Convert(p, Room)

convert_to_xyz_pointcloud_malloced ==
  \E p \in PacketsAt(now) :
    Convert(p, get_data_packet_size(XyzOf[lidar.type], get_max_points_count(p)))

(* A frame that is handed out says it has its last packet; that is written *)
(* after the checksum, and only the first packet could have said it.       *)
HandedOut(d, n) == [d EXCEPT !.crc = @ /\ n = 1]

(* A frame: the stage does not look at what the conversion returns.        *)
AppendToFrame ==
  /\ append /\ Len(packets) < MaxPackets
  /\ \E t \in now..(now + MaxGap) : \E p \in PacketsAt(IF packets = <<>> THEN 0 ELSE t) :
       LET c == Converted(p, dest, Room, packets # <<>>)
       IN  /\ now' = p.ts /\ packets' = Append(packets, p) /\ ok' = (ok /\ c.ok)
           /\ \/ dest' = c.dest
              \/ dest' = HandedOut(c.dest, Len(packets'))
  /\ UNCHANGED <<lidar, append>>

Next == convert_to_xyz_pointcloud \/ convert_to_xyz_pointcloud_malloced \/ AppendToFrame

Spec == Init /\ [][Next]_convertVars

-----------------------------------------------------------------------------
(* A conversion that returns true has every hit once and in order, those   *)
(* outside the field of view left out where they can be told, and its size *)
(* is that of its points.  What does not fit is told, and memory that is   *)
(* made for a packet is enough.                                            *)
ConvertedIsWhole ==
  ok /\ packets # <<>> =>
    /\ [k \in DOMAIN dest.points |-> <<dest.points[k].ts, dest.points[k].slot>>]
         = FlattenSeq([n \in DOMAIN packets |->
             [k \in DOMAIN Wanted(packets[n]) |-> <<packets[n].ts, Wanted(packets[n])[k]>>]])
    /\ dest.size = kHeader + Len(dest.points) /\ dest.size <= Room

(* Points have the time of their packet, cut to the unit of ts_10us, as    *)
(* long as the frame is shorter than its counter.                          *)
TimesAreTrue ==
  \A k \in DOMAIN dest.points :
    LET point == dest.points[k]
        told  == dest.ts_start + point.ts_10us * Tick
    IN  point.ts - dest.ts_start < Tick * TickWrap => point.ts - told \in 0..(Tick - 1)

(* What is converted passes the check that it will be read with, but for   *)
(* types of points that are not known there, frames of several packets,    *)
(* and what has no checksum.                                               *)
ConvertedIsReadable ==
  ok /\ packets # <<>> /\ lidar.crc /\ Len(packets) = 1 =>
    (check_data_packet(dest.type, dest.mode, Len(dest.points), dest.size, dest.crc)
       = IF dest.type = "e2x_xyz" THEN "invalid" ELSE "valid")

(* The points that are counted for the statistics are those that are       *)
(* converted, but for those that the table puts outside.                   *)
CountIsOfPoints ==
  ok /\ Len(packets) = 1 /\ ~(lidar.type \in Co /\ lidar.table) =>
    get_points_count(packets[1]) = Len(dest.points)

(* The conversion of packets is sound, and what is not converted is told.  *)
ConversionIsSound ==
  /\ ConvertedIsWhole /\ TimesAreTrue /\ ConvertedIsReadable /\ CountIsOfPoints
  /\ ~ok => append \/ lidar.type \notin Spheres
=============================================================================
