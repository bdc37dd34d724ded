------------------------------ MODULE GridNodes ------------------------------
(***************************************************************************)
(* The perception nodes from the clouds of the lidars to what is computed  *)
(* from the map: get_lidar_data crops each cloud, cloud_grid gathers them  *)
(* in one map and publishes it every second, and picking_area, vol_cal and *)
(* las_exporter keep the last map they got.  The callbacks of a node       *)
(* exclude each other (one group per node), so each is one step; nodes,    *)
(* topics and timers interleave.                                           *)
(*                                                                         *)
(* A cloud is a set of points.  The transformation of a lidar is a shift   *)
(* along x, its crop box an interval of x.  Those who read the clouds and  *)
(* the maps do not affect each other: a behaviour has one, its reader.     *)
(***************************************************************************)
EXTENDS GridMap

CONSTANTS
  Lidars, Shift,       \* who is subscribed to, and where each lidar is
  scan_min_, scan_max_,
  Clouds,              \* what a lidar may send
  MaxClouds,           \* bound: how many clouds come
  QueueDepth,          \* KeepLast of the cloud topics
  base_height_         \* of vol_cal

VARIABLES
  reader,              \* who reads: one of Readers
  clouds_sent,                \* how many clouds have come
  cloud_topic,               \* lidar -> the clouds cloud_grid has not taken yet
  last_cloud_,         \* lidar -> its last cloud
  saved_cloud,         \* the answer of save_pcd and what it saved
  accumulated_,        \* the map of cloud_grid
  snapshot,            \* the cells of the last snapshot
  gridmap,             \* the map that waits for the reader
  last_grid_,          \* the last map it got
  picks, pick_map,     \* the published points, and the map they are from
  volume, las_file,        \* of vol_cal and las_exporter
  measured, heights,   \* history: cell -> its last measured height; all heights
  age                  \* history: cell -> the clouds since its first

lidarVars == <<reader, clouds_sent, cloud_topic, last_cloud_, saved_cloud>>
cloudGridVars == <<accumulated_, snapshot, measured, heights, age>>
resultVars == <<picks, pick_map, volume, las_file>>
gridVars == <<lidarVars, cloudGridVars, gridmap, last_grid_, resultVars>>

Points == [x : Int, y : Int, z : Nat]

MapAssumption ==
  /\ GridAssumption /\ IsFiniteSet(Lidars) /\ MaxClouds \in Nat /\ QueueDepth \in Nat \ {0}
  /\ Shift \in [Lidars -> Int] /\ scan_min_ \in Int /\ scan_max_ \in Int /\ base_height_ \in Int
  /\ \A cloud \in Clouds : IsFiniteSet(cloud) /\ cloud \subseteq Points

(* The nodes that subscribe to the map, and the callers of the services.   *)
Readers == {"picking", "volume", "las", "save_pcd", "save_snapshot"}

BlankMap == [c \in Cells |-> NoPoints]
NoMap == [c \in {} |-> NoPoints]
NoHeight == -1

MapInit ==
  /\ reader \in Readers
  /\ clouds_sent = 0 /\ cloud_topic = [l \in Lidars |-> <<>>] /\ last_cloud_ = [l \in Lidars |-> {}]
  /\ saved_cloud = [success |-> FALSE, cloud |-> {}]
  /\ accumulated_ = BlankMap /\ snapshot = NoMap
  /\ gridmap = <<>> /\ last_grid_ = NoMap
  /\ picks = <<>> /\ pick_map = NoMap /\ volume = 0 /\ las_file = NoMap
  /\ measured = [c \in Cells |-> NoHeight] /\ age = [c \in Cells |-> 0]
  /\ heights = {}

DroppingOldest(queue, depth, m) ==
  IF Len(queue) < depth THEN Append(queue, m) ELSE Append(Tail(queue), m)

-----------------------------------------------------------------------------
(* get_lidar_data.                                                         *)
Cropped(l, cloud) ==
  {p \in {[q EXCEPT !.x = @ + Shift[l]] : q \in cloud} : p.x \in scan_min_ .. scan_max_}

LidarCallback(l) ==
  \E cloud \in Clouds :
    /\ clouds_sent < MaxClouds /\ clouds_sent' = clouds_sent + 1
    /\ last_cloud_' = [last_cloud_ EXCEPT ![l] = Cropped(l, cloud)]
    /\ cloud_topic' = [cloud_topic EXCEPT ![l] = DroppingOldest(@, QueueDepth, Cropped(l, cloud))]
    /\ UNCHANGED <<reader, saved_cloud, cloudGridVars, gridmap, last_grid_, resultVars>>

(* A cloud that was cropped to nothing counts as no data.                  *)
HandleSavePCD(l) ==
  /\ reader = "save_pcd"
  /\ saved_cloud' = IF last_cloud_[l] = {} THEN [saved_cloud EXCEPT !.success = FALSE]
                    ELSE [success |-> TRUE, cloud |-> last_cloud_[l]]
  /\ UNCHANGED <<reader, clouds_sent, cloud_topic, last_cloud_, cloudGridVars, gridmap, last_grid_, resultVars>>

-----------------------------------------------------------------------------
(* cloud_grid.                                                             *)
CloudCallback(l) ==
  /\ cloud_topic[l] # <<>>
  /\ LET new_map == pcd2Grid(Head(cloud_topic[l]))
     IN  /\ accumulated_' = fillBlankCells(updateArea(accumulated_, new_map))
         /\ measured' = [c \in Cells |-> IF new_map[c].surface THEN new_map[c].z ELSE measured[c]]
  /\ heights' = heights \cup {measured'[c] : c \in {d \in Cells : measured'[d] # NoHeight}}
  /\ age' = [c \in Cells |-> IF measured'[c] = NoHeight THEN 0 ELSE age[c] + 1]
  /\ cloud_topic' = [cloud_topic EXCEPT ![l] = Tail(@)]
  /\ UNCHANGED <<reader, clouds_sent, last_cloud_, saved_cloud, snapshot, gridmap, last_grid_, resultVars>>

Published == [c \in Surface(accumulated_) |-> accumulated_[c]]

PublishGridMap ==
  /\ Surface(accumulated_) # {}
  /\ gridmap' = DroppingOldest(gridmap, 1, Published)
  /\ UNCHANGED <<lidarVars, cloudGridVars, last_grid_, resultVars>>

SaveGridSnapshot ==
  /\ reader = "save_snapshot"
  /\ Surface(accumulated_) # {}
  /\ snapshot' = Published
  /\ UNCHANGED <<lidarVars, accumulated_, measured, heights, age, gridmap, last_grid_, resultVars>>

-----------------------------------------------------------------------------
(* A reader takes the map that waits for it.                               *)
TakesMap ==
  /\ gridmap # <<>> /\ gridmap' = Tail(gridmap) /\ last_grid_' = Head(gridmap)
  /\ UNCHANGED <<lidarVars, cloudGridVars, picks, pick_map, volume>>

GridCallback == reader \in {"picking", "volume"} /\ TakesMap /\ UNCHANGED las_file

(* las_exporter writes it at once, over the file of the map before.        *)
SaveAsPCD == reader = "las" /\ TakesMap /\ las_file' = Head(gridmap)

(* vol_cal counts what is above the base.                                  *)
VolumeOf(grid) ==
  SumFunction([c \in {d \in DOMAIN grid : grid[d].z > base_height_} |->
                 (grid[c].z - base_height_) * Res * Res])

PublishVolume ==
  /\ reader = "volume" /\ DOMAIN last_grid_ # {}
  /\ volume' = VolumeOf(last_grid_)
  /\ UNCHANGED <<lidarVars, cloudGridVars, gridmap, last_grid_, picks, pick_map, las_file>>

-----------------------------------------------------------------------------
(* picking_area.  A candidate is a cell inside the map with at least five  *)
(* neighbours of surface; what is high and flat scores best.               *)
Around(grid, c) == Block3(c) \cap DOMAIN grid

Candidates(grid) ==
  {c \in DOMAIN grid : /\ c[1] \in 1 .. Rows - 2 /\ c[2] \in 1 .. Cols - 2
                       /\ Cardinality(Around(grid, c)) >= 6}

Heights(grid) == {grid[c].z : c \in DOMAIN grid}
Lowest(zs) == CHOOSE z \in zs : \A y \in zs : z <= y
Highest(zs) == CHOOSE z \in zs : \A y \in zs : y <= z

(* 0.3 times the height in the span of heights, and 0.7 times one over one *)
(* plus the mean square of the steps around: ten times that, as a quotient *)
(* <<p, q>>.                                                               *)
Score(grid, c) ==
  LET steps == [d \in Around(grid, c) |-> (grid[d].z - grid[c].z) * (grid[d].z - grid[c].z)]
      count == Cardinality(Around(grid, c))
      flat  == count + SumFunction(steps)
      low   == Lowest(Heights(grid))
      span  == IF Highest(Heights(grid)) = low THEN 1 ELSE Highest(Heights(grid)) - low
  IN  <<3 * (grid[c].z - low) * flat + 7 * count * span, span * flat>>

Better(a, b) == a[1] * b[2] > b[1] * a[2]

TooClose(a, b) == a[1] - b[1] \in -2 .. 2 /\ a[2] - b[2] \in -2 .. 2

(* Up to three points, each the best that is not too close to those before *)
(* it; std::sort leaves open which of two equal scores comes first.        *)
MaxPicks == 3

Remaining(grid, selected) ==
  {c \in Candidates(grid) : \A i \in DOMAIN selected : ~TooClose(c, selected[i])}

BestOf(grid, cells) ==
  LET score == [c \in cells |-> Score(grid, c)]
  IN  {c \in cells : \A d \in cells : ~Better(score[d], score[c])}

SelectOne(grid, selected) ==
  IF Remaining(grid, selected) = {} THEN {selected}
  ELSE {Append(selected, c) : c \in BestOf(grid, Remaining(grid, selected))}

Selections(grid) ==
  LET after[n \in 0 .. MaxPicks] ==
        IF n = 0 THEN {<<>>} ELSE UNION {SelectOne(grid, s) : s \in after[n - 1]}
  IN  after[MaxPicks]

ComputePickPoints ==
  /\ reader = "picking" /\ Candidates(last_grid_) # {}
  /\ picks' \in Selections(last_grid_)
  /\ pick_map' = last_grid_
  /\ UNCHANGED <<lidarVars, cloudGridVars, gridmap, last_grid_, volume, las_file>>

-----------------------------------------------------------------------------
MapNext ==
  \/ \E l \in Lidars : LidarCallback(l) \/ HandleSavePCD(l) \/ CloudCallback(l)
  \/ PublishGridMap \/ SaveGridSnapshot
  \/ GridCallback \/ SaveAsPCD \/ PublishVolume \/ ComputePickPoints

MapSpec == MapInit /\ [][MapNext]_gridVars

-----------------------------------------------------------------------------
Distance(a, b) ==
  LET d(i) == IF a[i] < b[i] THEN b[i] - a[i] ELSE a[i] - b[i]
  IN  IF d(1) < d(2) THEN d(2) ELSE d(1)

(* The map keeps the last height that was measured of a cell; what it has  *)
(* filled in is not beyond the heights that were ever measured (gridmap.cpp *)
(* 76), and grows by a cell in each direction with every cloud (78).       *)
MapKeepsMeasurements ==
  \A c \in Cells :
    /\ measured[c] # NoHeight =>
         /\ accumulated_[c].surface /\ accumulated_[c].z = measured[c] /\ accumulated_[c].placed
         /\ \A d \in Cells : Distance(c, d) <= age[c] => accumulated_[d].surface
    /\ accumulated_[c].surface => \E y, z \in heights : y <= accumulated_[c].z /\ accumulated_[c].z <= z

(* No reader goes back to an earlier map than it had: what waits for it    *)
(* has all cells of what it has, and cloud_grid all of what waits.         *)
ReadersFollow ==
  LET maps == <<last_grid_>> \o gridmap \o <<Published>>
  IN  \A i \in 1 .. Len(maps) - 1 : DOMAIN maps[i] \subseteq DOMAIN maps[i + 1]

(* The volume of vol_cal is the one of calcVolume, unless a cell is below  *)
(* the base: then only calcVolume counts it, as less than nothing.         *)
VolumesAgree ==
  LET grid   == last_grid_
      engine == calcVolume([c \in Cells |-> IF c \in DOMAIN grid THEN grid[c] ELSE NoPoints],
                           [c \in Cells |-> base_height_])
  IN  /\ engine <= VolumeOf(grid)
      /\ (\A c \in DOMAIN grid : grid[c].z >= base_height_) => engine = VolumeOf(grid)

(* The loops that change the map they read do what a simultaneous change   *)
(* would: an isolated cell keeps no other from being isolated, and a block *)
(* of the sparse map is surface if one of its cells is.                    *)
ScansAreFiltered ==
  \A l \in Lidars : cloud_topic[l] # <<>> =>
    LET scan == pcd2Grid(Head(cloud_topic[l]))
        sparse == sparseGrid(scan, 2)
    IN  /\ Surface(filterIsolated(scan)) = {c \in Surface(scan) : FilledFrom(scan, c) # {}}
        /\ {<<c[1] \div 2, c[2] \div 2>> : c \in Surface(scan)} = Surface(sparse)
        /\ \A s \in Surface(sparse) : \E c \in Block(s, 2) : scan[c] = sparse[s]

(* The points to pick are apart, the best first, and no better candidate   *)
(* is left out but for one that was chosen next to it.                     *)
PicksAreBest ==
  LET chosen == Range(picks)
      better(c, d) == Better(Score(pick_map, c), Score(pick_map, d))
  IN  /\ Len(picks) <= MaxPicks /\ chosen \subseteq Candidates(pick_map)
      /\ \A i, j \in DOMAIN picks : i < j => ~TooClose(picks[i], picks[j]) /\ ~better(picks[j], picks[i])
      /\ \A c \in Candidates(pick_map) \ chosen :
           \/ \E s \in chosen : TooClose(c, s) /\ ~better(c, s)
           \/ Len(picks) = MaxPicks /\ \A s \in chosen : ~better(c, s)

(* The map of the surface keeps what was measured and follows from it, its *)
(* readers follow it, what is computed from it agrees with what it is      *)
(* defined to be, and the points to pick are its best.                     *)
MapIsSound ==
  MapKeepsMeasurements /\ ReadersFollow /\ VolumesAgree /\ ScansAreFiltered /\ PicksAreBest
=============================================================================
