----------------------------- MODULE DriverNode -----------------------------
(***************************************************************************)
(* What the ROS node does with a lidar besides its frames                  *)
(* (ros2_driver_adapter.hpp, driver_lidar.cc, yaml_tools.hpp): the         *)
(* transform of the points, from the configuration and from parameters     *)
(* that are set while it runs; the points that are kept of a packet, in    *)
(* the axes of the ROS frame; the IMU messages, and the regions of         *)
(* interest.                                                               *)
(*                                                                         *)
(* Angles are whole numbers.  One beyond TwoPi is taken for degrees, of    *)
(* which a radian has PerRadian.  Two threads: the executor, which runs    *)
(* the callbacks of the node and, in packet mode, publishes the clouds;    *)
(* without packet mode the clouds are published by the SDK's thread.       *)
(***************************************************************************)
EXTENDS Integers, Sequences

CONSTANTS
  TwoPi, PerRadian,  \* a full turn in radians, and the degrees of one radian
  Angles,            \* what pitch, yaw and roll may be configured or set to
  MaxParameterSets   \* bound: sets of parameters

FullTurn == TwoPi * PerRadian
HalfTurn == FullTurn \div 2

NodeAssumption ==
  /\ TwoPi \in Nat \ {0} /\ PerRadian \in Nat \ {0} /\ FullTurn % 2 = 0 /\ TwoPi < HalfTurn
  /\ Angles \subseteq Nat /\ MaxParameterSets \in Nat

VARIABLES
  config,       \* what the node was configured with
  x_, angle_,   \* driver: the position and the angles
  transform_degree_flag_,
  T_2_0_,       \* driver: rotation and translation
  parameters,   \* the node's parameters of the lidar; declared once its name is free
  executor,     \* "new", "idle", "rotation", "translation" or "ended" by an exception
  changes,      \* the parameters that are being set
  parameter_sets,
  node_output   \* what came out last: the matrix of a cloud and the one shown by the
                \* parameters, the axes of an IMU message, or the points kept of a packet

nodeVars == <<config, x_, angle_, transform_degree_flag_, T_2_0_, parameters, executor, changes,
              parameter_sets, node_output>>

Axes == {"pitch", "yaw"}
Undeclared == [declared |-> FALSE, x |-> 0, angle |-> [a \in Axes |-> 0]]

-----------------------------------------------------------------------------
(* YamlTools::RadianToDegree folds into half a turn each way, as do the    *)
(* angles of a matrix.                                                     *)
Folded(d) == IF d % FullTurn > HalfTurn THEN (d % FullTurn) - FullTurn ELSE d % FullTurn
RadianToDegree(a) == IF a > TwoPi THEN a ELSE Folded(a * PerRadian)

(* init_transform_matrix: all angles are degrees if one of them must be,   *)
(* or once a parameter was set.                                            *)
InDegrees(angle, degrees) == degrees \/ \E a \in Axes : angle[a] > TwoPi
Rotation(angle, degrees) ==
  [a \in Axes |-> Folded(IF InDegrees(angle, degrees) THEN angle[a] ELSE angle[a] * PerRadian)]

(* The matrix of a configuration: the one it spells out, if it does.       *)
SpeltOut == [rotation |-> [a \in Axes |-> 1], translation |-> 1]
Configured(c) == IF c.matrix THEN SpeltOut ELSE [rotation |-> Rotation(c.angle, FALSE), translation |-> 0]

(* The matrix the parameters of the node stand for, which are degrees.     *)
Shown == IF parameters.declared
         THEN [rotation |-> [a \in Axes |-> Folded(parameters.angle[a])], translation |-> parameters.x]
         ELSE Configured(config)

(* coordinate_transfer: up, right and forward, or what the mode makes of   *)
(* them; a negative axis points the other way.                             *)
CoordinateTransfer(mode, p) ==
  CASE mode = 1 -> <<p[2], p[3], p[1]>>
    [] mode = 2 -> <<p[2], p[1], p[3]>>
    [] mode = 3 -> <<p[3], -p[2], p[1]>>
    [] mode = 4 -> <<p[3], p[1], p[2]>>
    [] OTHER    -> p

(* coordinate_imu does the same in place, one assignment after the other.  *)
Assign(d, i, value) == [d EXCEPT ![i] = value]
CoordinateImu(mode, d) ==
  CASE mode = 1 -> Assign(Assign(Assign(d, 1, d[2]), 2, d[3]), 3, d[1])
    [] mode = 2 -> Assign(Assign(d, 1, d[2]), 2, d[1])
    [] mode = 3 -> Assign(Assign(Assign(d, 1, d[3]), 2, -d[2]), 3, d[1])
    [] mode = 4 -> LET e == Assign(d, 1, d[3]) IN Assign(Assign(e, 3, e[2]), 2, d[1])
    [] OTHER    -> d
CoordinateModes == 0..5

-----------------------------------------------------------------------------
(* The constructor of the driver; packet mode is turned on for a replay    *)
(* (input_parameter_check).                                                *)
InPacketMode(c) == c.packet_mode \/ c.replay_rosbag

Configurations ==
  [transform_enable : BOOLEAN, matrix : BOOLEAN, packet_mode : BOOLEAN, replay_rosbag : BOOLEAN,
   unique : BOOLEAN, angle : [Axes -> Angles], range : {<<1, 3>>}]

PlainConfiguration ==
  [transform_enable |-> FALSE, matrix |-> FALSE, packet_mode |-> FALSE, replay_rosbag |-> FALSE,
   unique |-> TRUE, angle |-> [a \in Axes |-> 0], range |-> <<1, 3>>]

NodeInit ==
  /\ config \in Configurations
  /\ x_ = 0 /\ angle_ = config.angle /\ transform_degree_flag_ = FALSE
  /\ T_2_0_ = Configured(config)
  /\ parameters = Undeclared /\ executor = "new" /\ changes = Undeclared /\ parameter_sets = 0
  /\ node_output = [kind |-> "none"]

(* initDynamicParams: no parameters without the transform, if another      *)
(* lidar has the name, or if the configuration spells the matrix out; a    *)
(* value out of their range throws.                                        *)
InitDynamicParams ==
  LET degrees == [a \in Axes |-> RadianToDegree(config.angle[a])] IN
  /\ executor = "new"
  /\ IF ~config.transform_enable \/ ~config.unique \/ config.matrix
       THEN executor' = "idle" /\ UNCHANGED parameters
     ELSE IF \E a \in Axes : degrees[a] > HalfTurn
       THEN executor' = "ended" /\ UNCHANGED parameters
     ELSE executor' = "idle" /\ parameters' = [declared |-> TRUE, x |-> x_, angle |-> degrees]
  /\ UNCHANGED <<config, x_, angle_, transform_degree_flag_, T_2_0_, changes, parameter_sets,
                 node_output>>

(* transformCallback: the driver takes over what was set, degrees from now *)
(* on, and computes the matrix; then the node keeps what was set.          *)
SetParameters(names, x, value) ==
  /\ names # {} \/ x # parameters.x
  /\ executor = "idle" /\ parameters.declared /\ parameter_sets < MaxParameterSets
  /\ parameter_sets' = parameter_sets + 1
  /\ value <= HalfTurn
  /\ changes' = [parameters EXCEPT !.x = x, !.angle = [a \in Axes |-> IF a \in names THEN value ELSE @[a]]]
  /\ x_' = x
  /\ angle_' = [a \in Axes |-> IF a \in names THEN value ELSE angle_[a]]
  /\ transform_degree_flag_' = TRUE
  /\ executor' = "rotation"
  /\ UNCHANGED <<config, T_2_0_, parameters, node_output>>

SetRotation ==
  /\ executor = "rotation" /\ executor' = "translation"
  /\ T_2_0_' = [T_2_0_ EXCEPT !.rotation = Rotation(angle_, transform_degree_flag_)]
  /\ UNCHANGED <<config, x_, angle_, transform_degree_flag_, parameters, changes, parameter_sets,
                 node_output>>

SetTranslation ==
  /\ executor = "translation" /\ executor' = "idle"
  /\ T_2_0_' = [T_2_0_ EXCEPT !.translation = x_]
  /\ parameters' = changes
  /\ UNCHANGED <<config, x_, angle_, transform_degree_flag_, changes, parameter_sets,
                 node_output>>

(* transform_pointcloud, at the end of a frame: by the executor in packet  *)
(* mode, else at any time.                                                 *)
TransformPointcloud ==
  /\ IF InPacketMode(config) THEN executor = "idle" ELSE executor # "ended"
  /\ node_output' = IF config.transform_enable
                      THEN [kind |-> "cloud", matrix |-> T_2_0_, due |-> Shown]
                    ELSE [kind |-> "unturned"]
  /\ UNCHANGED <<config, x_, angle_, transform_degree_flag_, T_2_0_, parameters, executor, changes,
                 parameter_sets>>

-----------------------------------------------------------------------------
(* lidar_status_callback: a corrupted packet is left out.                  *)
StatusCallback(mode) ==
  /\ executor # "ended"
  /\ node_output' = [kind |-> "imu", mode |-> mode, axes |-> CoordinateImu(mode, <<1, 2, 3>>)]
  /\ UNCHANGED <<config, x_, angle_, transform_degree_flag_, T_2_0_, parameters, executor, changes,
                 parameter_sets>>

(* point_xyz_data_parse: the points of a packet within the range, with     *)
(* channel, region of interest and facet in one byte.                      *)
Flags(p) == p.channel + (IF p.in_roi = 3 THEN 4 ELSE 0) + p.facet * 8
Points == [radius : {1, 4}, channel : {0, 3}, in_roi : {0, 3}, facet : {0, 4}]
InRange(p) == p.radius <= config.range[2] /\ p.radius >= config.range[1]

DataPacketParse(packet) ==
  /\ executor # "ended"
  /\ node_output' = [kind |-> "points", packet |-> packet,
                     kept |-> [p \in {q \in packet : InRange(q)} |-> Flags(p)]]
  /\ UNCHANGED <<config, x_, angle_, transform_degree_flag_, T_2_0_, parameters, executor, changes,
                 parameter_sets>>

NodeNext ==
  \/ InitDynamicParams \/ SetRotation \/ SetTranslation \/ TransformPointcloud
  \/ \E names \in SUBSET Axes, value \in Angles, x \in {parameters.x, parameters.x + 1} :
         SetParameters(names, x, value)
  \/ \E mode \in CoordinateModes : StatusCallback(mode)
  \/ \E packet \in {Points, {}} : DataPacketParse(packet)

NodeSpec == NodeInit /\ [][NodeNext]_nodeVars

-----------------------------------------------------------------------------
(* In packet mode a cloud is transformed by the matrix of the parameters   *)
(* the node shows, or the configured one if it shows none, if all angles   *)
(* are degrees or zero; if all are radians, until a parameter is set.      *)
(* (Then the others are taken for degrees; and without packet mode the     *)
(* thread of the SDK may see half of a new matrix.)                        *)
AllDegrees == \A a \in Axes : config.angle[a] = 0 \/ config.angle[a] > TwoPi
AllRadians == \A a \in Axes : config.angle[a] <= TwoPi

TransformIsShown ==
  /\ node_output.kind = "cloud" /\ InPacketMode(config)
  /\ AllDegrees \/ (AllRadians /\ parameter_sets = 0)
  => node_output.matrix = node_output.due

(* IMU messages and points have the same axes in every mode.               *)
ImuFollowsPoints ==
  node_output.kind = "imu" => node_output.axes = CoordinateTransfer(node_output.mode, <<1, 2, 3>>)

(* No point in the range is left out, and its byte tells its channel, its  *)
(* region and its facet apart.                                             *)
FlagsTellApart ==
  node_output.kind = "points" =>
    \A p \in node_output.packet : InRange(p) <=>
      /\ p \in DOMAIN node_output.kept
      /\ \A q \in DOMAIN node_output.kept :
           node_output.kept[p] = node_output.kept[q] =>
             p.channel = q.channel /\ p.in_roi = q.in_roi /\ p.facet = q.facet

NodeIsSound == TransformIsShown /\ ImuFollowsPoints /\ FlagsTellApart
=============================================================================
