---------------------------- MODULE PacketAngles ----------------------------
(***************************************************************************)
(* The arithmetic of points (InnoDataPacketUtils): angles out of the table *)
(* of a compact packet, the entries of the correction tables that belong   *)
(* to an angle, the number of a scan line, the axes of the IMU, and the    *)
(* bit of a fault.  One computation at a time, its input chosen before.    *)
(***************************************************************************)
EXTENDS Integers, FiniteSets

CONSTANTS
  EncoderShift,        (* bound: kEncoderTableShift, 8 in the code           *)
  PolygonTableSize,    (* bound: 65 in the code                              *)
  MaxAngle,            (* bound: entries of the table of angles              *)
  Beyond               (* bound: how far an angle is outside the table       *)

ConstantAssumption ==
  /\ EncoderShift \in Nat /\ MaxAngle \in Nat /\ Beyond \in Nat
  /\ PolygonTableSize \in Nat \ {0, 1}

EncoderTableStep == 2^EncoderShift
kPolygonMinAngle == -(((PolygonTableSize - 1) * EncoderTableStep) \div 2)
kPolygonMaxAngle == ((PolygonTableSize - 1) * EncoderTableStep) \div 2

(* The constants of the correction tables and of the scan lines.           *)
kTableStep_  == 512
kHTableSize_ == 64
kVTableSize_ == 16
kVTableEffeHalfSize_      == 6
kHTableEffeHalfSize_      == 22
kHRobinTableEffeHalfSize_ == 27
kInnoRobinELiteMaxSetNumber == 12
kMaxReceiverInSet           == 8
FacetLines                  == 48

VARIABLES input, output, angles_done

anglesVars == <<input, output, angles_done>>

(* Tables of angles grow from entry to entry, as the polygon turns.        *)
Tables == {t \in [0..(PolygonTableSize - 1) -> 0..MaxAngle] :
             \A i \in 1..(PolygonTableSize - 1) : t[i - 1] <= t[i]}

(* Units of an angle per degree, rounded down, and the field of view.      *)
UnitsPerDegree == 182
Samples(n) == UNION {{k * 256 - 1, k * 256, k * 256 + 1} : k \in (-n)..n}

(* 0 without a field, as inputs of all kinds are in one set.               *)
Input(what, p, a, b) == [what |-> what, table |-> [i \in {} |-> 0], p |-> p, a |-> a, b |-> b]

Inputs ==
  [what : {"interpolate"}, table : Tables, p : (kPolygonMinAngle - Beyond)..(kPolygonMaxAngle + Beyond),
   a : {0}, b : {0}]
    \cup {Input("robin", p, 0, 0) : p \in Samples(42)}
    \cup {Input("falcon", p, v, 0) : p \in {-11264, -511, 0, 1, 11775}, v \in Samples(13)}
    \cup {Input("robinw line", s, ch, f) : s \in 0..5, ch \in 0..7, f \in 0..3}
    \cup {Input("elite line", s, ch, 0) : s \in 0..23, ch \in 0..7}
    \cup {Input("imu", 0, 0, w) : w \in {0, 1}}
    \cup {Input("fault", fid, bit, 0) : fid \in 0..127, bit \in {0, 63, 64, 95, 96, 126, 127}}

Init == input \in Inputs /\ output = {} /\ angles_done = FALSE

-----------------------------------------------------------------------------
ClampedTo(i, most) == IF i > most THEN most ELSE i

HIndex(offset) == ClampedTo(offset \div EncoderTableStep, PolygonTableSize - 2)

(* get_block_full_angles_interpolate_impl: the entry before and the one    *)
(* after the angle of the polygon, each as much as the angle is close.     *)
Interpolated(t, p) ==
  LET offset == IF p < kPolygonMinAngle THEN 0 ELSE p - kPolygonMinAngle
      i      == HIndex(offset)
      part   == offset % EncoderTableStep
  IN  (t[i] * (EncoderTableStep - part) + t[i + 1] * part) \div EncoderTableStep

(* lookup_xyz_adjustment_: the entries are taken modulo the table.         *)
RobinIndex(h) ==
  ClampedTo(((h + kHRobinTableEffeHalfSize_ * kTableStep_) \div kTableStep_) % kHTableSize_,
            kHTableSize_ - 2)

(* A division of C drops what is behind the point.                         *)
Truncated(a, n) == IF a >= 0 THEN a \div n ELSE -((-a) \div n)

(* lookup_xz_adjustment_                                                   *)
FalconIndex(v, h) ==
  <<(Truncated(v, kTableStep_) + kVTableEffeHalfSize_) % kVTableSize_,
    (Truncated(h, kTableStep_) + kHTableEffeHalfSize_) % kHTableSize_>>

-----------------------------------------------------------------------------
(* robinw_channel_mapping and robinelite_channel_mapping                   *)
RobinWMapping(i) == 4 * (i % 12) + (i \div 12)

EliteMapping(i) ==
  IF i < 48 THEN 2 * (i \div 6) + 1 + <<0, 16, 32, 47, 63, 79>>[(i % 6) + 1]
  ELSE 6 * (i \div 6 - 8) + 2 * (i % 3) + (IF i % 6 < 3 THEN 0 ELSE 49)

(* get_xyz_point of a compact block: the line of the scan.  An inset line  *)
(* of the second takes the place of the line it is set in, plus all lines. *)
RobinWLine(scan_id, channel, facet) ==
  RobinWMapping(scan_id * kMaxReceiverInSet + channel) + facet * FacetLines

EliteLine(scan_id, channel) ==
  EliteMapping((scan_id % kInnoRobinELiteMaxSetNumber) * kMaxReceiverInSet + channel)
    + (scan_id \div kInnoRobinELiteMaxSetNumber) * 96

-----------------------------------------------------------------------------
(* fix_imu_status: x, y and z of the lidar as axes of the IMU, with sign,  *)
(* before it is turned by 13 degrees about y.                              *)
Axes(is_wgs) ==
  IF is_wgs = 1 THEN <<[axis |-> 3, sign |-> 1], [axis |-> 2, sign |-> -1], [axis |-> 1, sign |-> 1]>>
  ELSE <<[axis |-> 3, sign |-> 1], [axis |-> 1, sign |-> -1], [axis |-> 2, sign |-> -1]>>

(* check_status_packet_fault_id, for a packet with one fault: that of      *)
(* bit.  The third group goes to 126.                                      *)
FaultTold(fid, bit) == fid < 127 /\ fid = bit

-----------------------------------------------------------------------------
Result(i) ==
  CASE i.what = "interpolate" -> {Interpolated(i.table, i.p)}
    [] i.what = "robin" -> {RobinIndex(i.p)}
    [] i.what = "falcon" -> {FalconIndex(i.a, i.p)}
    [] i.what = "robinw line" -> {RobinWLine(i.p, i.a, i.b)}
    [] i.what = "elite line" -> {EliteLine(i.p, i.a)}
    [] i.what = "imu" -> {Axes(i.b)}
    [] i.what = "fault" -> {FaultTold(i.p, i.a)}

Compute == ~angles_done /\ output' = Result(input) /\ angles_done' = TRUE /\ UNCHANGED input

Next == Compute

Spec == Init /\ [][Next]_anglesVars

-----------------------------------------------------------------------------
Out == CHOOSE x \in output : TRUE
Of(what) == angles_done /\ input.what = what

(* An angle of the polygon inside the table gives an angle between the     *)
(* entries next to it, that of the entry when it stands on it, and never   *)
(* less than the angle before.  At kPolygonMaxAngle itself the entry       *)
(* before the last is taken, and from there on the last part is repeated.  *)
InterpolationIsSound ==
  Of("interpolate") =>
    LET t      == input.table
        p      == input.p
        offset == p - kPolygonMinAngle
        i      == offset \div EncoderTableStep
    IN  IF p < kPolygonMinAngle THEN Out = t[0]
        ELSE p < kPolygonMaxAngle =>
               /\ t[i] <= Out /\ Out <= t[i + 1]
               /\ offset % EncoderTableStep = 0 => Out = t[i]
               /\ p > kPolygonMinAngle => Interpolated(t, p - 1) <= Out

(* The corrections of an angle in the field of view (60 degrees for the    *)
(* one, 22 by 64 for the other) are those of its place in the table, and   *)
(* never the ones that a wrapped or a cut index would take.                *)
CorrectionsAreOfTheAngle ==
  /\ Of("robin") /\ input.p >= -60 * UnitsPerDegree /\ input.p <= 60 * UnitsPerDegree =>
       /\ Out * kTableStep_ <= input.p + kHRobinTableEffeHalfSize_ * kTableStep_
       /\ input.p + kHRobinTableEffeHalfSize_ * kTableStep_ < (Out + 1) * kTableStep_
       /\ Out + 1 <= 2 * kHRobinTableEffeHalfSize_
  /\ Of("falcon") => Out[1] \in 0..(2 * kVTableEffeHalfSize_) /\ Out[2] \in 0..(2 * kHTableEffeHalfSize_)

(* No two receivers have one scan line.                                    *)
LinesAreDistinct ==
  /\ Of("robinw line") =>
       /\ Out \in 0..(4 * FacetLines - 1)
       /\ \A s \in 0..5, ch \in 0..7, f \in 0..3 :
            RobinWLine(s, ch, f) = Out => s = input.p /\ ch = input.a /\ f = input.b
  /\ Of("elite line") =>
       \A s \in 0..23, ch \in 0..7 : EliteLine(s, ch) = Out => s = input.p /\ ch = input.a

(* The axes of the IMU are turned, never mirrored.                         *)
RightHanded ==
  Of("imu") =>
    LET even == <<Out[1].axis, Out[2].axis, Out[3].axis>> \in {<<1, 2, 3>>, <<2, 3, 1>>, <<3, 1, 2>>}
    IN  /\ {Out[k].axis : k \in 1..3} = 1..3
        /\ Out[1].sign * Out[2].sign * Out[3].sign = IF even THEN 1 ELSE -1

(* A fault is told under its number and under no other; the last number    *)
(* of the last group is told under none.                                   *)
FaultsAreTold == Of("fault") /\ input.p # 127 => (Out <=> input.p = input.a)

PointsAreRight ==
  InterpolationIsSound /\ CorrectionsAreOfTheAngle /\ LinesAreDistinct /\ RightHanded /\ FaultsAreTold
=============================================================================
