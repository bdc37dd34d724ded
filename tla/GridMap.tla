------------------------------- MODULE GridMap -------------------------------
(***************************************************************************)
(* GridMapEngine (perception_utils/src/gridmap.cpp): the operations on a   *)
(* map of cells over the workspace.  Coordinates and heights are integers, *)
(* the workspace begins at zero, and a quotient of heights is rounded down *)
(* where the code rounds to a double.  A cell has the heights of its       *)
(* points behind it no longer than until their mean is known.              *)
(***************************************************************************)
EXTENDS Integers, SequencesExt

CONSTANTS
  Res,           \* res_x_ and res_y_
  MaxX, MaxY     \* the far corner of the workspace

GridAssumption == Res \in Nat \ {0} /\ MaxX \in Nat /\ MaxY \in Nat

Cols == MaxX \div Res + 1
Rows == MaxY \div Res + 1

Cells == (0 .. Rows - 1) \X (0 .. Cols - 1)

(* A cell without points; placed: its center has been computed.            *)
NoPoints == [surface |-> FALSE, pts_num |-> 0, z |-> 0, placed |-> FALSE]

Surface(grid) == {c \in DOMAIN grid : grid[c].surface}

-----------------------------------------------------------------------------
(* The conversion to int cuts the fraction off, so what lies less than a   *)
(* cell before the workspace falls into its first row or column.           *)
Truncated(x) == IF x < 0 THEN -((-x) \div Res) ELSE x \div Res
CellOf(p) == <<Truncated(p.y), Truncated(p.x)>>

PointsIn(cloud, c) == {p \in cloud : CellOf(p) = c}

MeanHeight(points) == SumFunction([p \in points |-> p.z]) \div Cardinality(points)

pcd2Grid(cloud) ==
  [c \in Cells |-> LET points == PointsIn(cloud, c) IN
     IF points = {} THEN [NoPoints EXCEPT !.placed = TRUE]
     ELSE [surface |-> TRUE, pts_num |-> Cardinality(points), z |-> MeanHeight(points), placed |-> TRUE]]

OldStays(base, scan) == [c \in Cells |-> IF base[c].surface THEN base[c] ELSE scan[c]]

(* What the scan has seen replaces what the map has.                       *)
updateArea(base, scan) == [c \in Cells |-> IF scan[c].surface THEN scan[c] ELSE base[c]]

-----------------------------------------------------------------------------
(* A cell and the eight around it.                                         *)
Block3(c) == {<<c[1] + d[1], c[2] + d[2]>> : d \in (-1 .. 1) \X (-1 .. 1)}

Neighbours(c) == (Block3(c) \ {c}) \cap Cells

(* The loops go through the map row by row and change it as they go.       *)
InRasterOrder == [i \in 1 .. Rows * Cols |-> <<(i - 1) \div Cols, (i - 1) % Cols>>]

FilledFrom(grid, c) == {n \in Neighbours(c) : grid[n].surface}

FillCell(grid, c) ==
  LET from == FilledFrom(grid, c)
  IN  IF grid[c].surface \/ from = {} THEN grid
      ELSE [grid EXCEPT ![c].surface = TRUE, ![c].pts_num = 1,
                        ![c].z = SumFunction([n \in from |-> grid[n].z]) \div Cardinality(from)]

fillBlankCells(grid) == FoldLeft(FillCell, grid, InRasterOrder)

FilterCell(grid, c) ==
  IF grid[c].surface /\ FilledFrom(grid, c) = {}
  THEN [grid EXCEPT ![c].surface = FALSE] ELSE grid

filterIsolated(grid) == FoldLeft(FilterCell, grid, InRasterOrder)

-----------------------------------------------------------------------------
(* One cell for a block of step times step cells: the last of the block    *)
(* that is surface.                                                        *)
Block(sparse, step) == {c \in Cells : c[1] \div step = sparse[1] /\ c[2] \div step = sparse[2]}

LastOf(cells) == CHOOSE c \in cells : \A d \in cells : d[1] < c[1] \/ (d[1] = c[1] /\ d[2] <= c[2])

sparseGrid(grid, step) ==
  [s \in (0 .. (Rows + step - 1) \div step - 1) \X (0 .. (Cols + step - 1) \div step - 1) |->
     LET seen == Block(s, step) \cap Surface(grid)
     IN  IF seen = {} THEN NoPoints ELSE grid[LastOf(seen)]]

(* The volume between a map and its base; a negative sum counts as none.   *)
calcVolume(grid, base) ==
  LET sum == SumFunction([c \in Surface(grid) |-> (grid[c].z - base[c]) * Res * Res])
  IN  IF sum < 0 THEN 0 ELSE sum
=============================================================================
