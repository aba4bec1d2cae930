-------------------------------- MODULE Maze --------------------------------
(***************************************************************************)
(* umouse/map.c and compass.h: the walls of a maze.  A wall is one bit,    *)
(* whichever of its two sides it is seen from; those around the maze are   *)
(* implied.  A coordinate below zero stands for what it wraps to, which is *)
(* out of bounds too.                                                      *)
(*                                                                         *)
(* The walls are kept in bitmaps (utils/bitmap.c): flags in the bits of an *)
(* array of words.  An array is the set of the bits that are on, numbered  *)
(* through its words; a bitmap begins at a word of it.                     *)
(***************************************************************************)
EXTENDS Integers, FiniteSetsExt

CONSTANT WordSize     \* BitmapWordSize

(* The words needed for so many flags.                                     *)
BitmapSize(n) == n \div WordSize + (IF n % WordSize # 0 THEN 1 ELSE 0)

BitmapBit(word, index) == word * WordSize + index

BitmapGet(bits, word, index) == BitmapBit(word, index) \in bits

BitmapOn(bits, word, index) == bits \cup {BitmapBit(word, index)}

BitmapOff(bits, word, index) == bits \ {BitmapBit(word, index)}

(* All bits of the words the flags are in.                                 *)
BitmapClear(bits, n) == {b \in bits : b >= BitmapSize(n) * WordSize}

(* The first flag that is on in the words of so many flags, or -1.         *)
BitmapGetFirstFlag(bits, n) ==
  LET on == {b \in bits : b < BitmapSize(n) * WordSize} IN IF on = {} THEN -1 ELSE Min(on)

-----------------------------------------------------------------------------

NORTH == 0
EAST == 1
SOUTH == 2
WEST == 3
Directions == {NORTH, EAST, SOUTH, WEST}

TURN(dir, angle) == (dir + angle) % 4

MapBitsNeeded(major, minor) == major * (minor - 1)

MapDimensionSizeNeeded(major, minor) == BitmapSize(MapBitsNeeded(major, minor))

MapSizeNeeded(width, height) ==
  MapDimensionSizeNeeded(width, height) + MapDimensionSizeNeeded(height, width)

(* A map nobody has initialised: maps are static, so all of it is zero.    *)
ZeroMap == [VWalls |-> 0, HWalls |-> 0, Width |-> 0, Height |-> 0, bits |-> {}]

(* The vertical walls begin at word 0, the horizontal ones after as many   *)
(* words as they themselves need; no wall is set.  A buffer that is too    *)
(* short is refused, and the map stays as it was.                          *)
MapInit(buffLen, width, height) ==
  IF buffLen < MapSizeNeeded(width, height) THEN ZeroMap
  ELSE [VWalls |-> 0, HWalls |-> MapDimensionSizeNeeded(width, height),
        Width |-> width, Height |-> height, bits |-> {}]

(* The map of a program that has as many words as it should.               *)
NewMap(width, height) == MapInit(MapSizeNeeded(width, height), width, height)

(* In which bitmap a wall is, and where: horizontal walls by column, those *)
(* of a column by row, vertical walls by row.                              *)
Axes(x, y, dir, map) ==
  IF dir \in {NORTH, SOUTH}
  THEN [major |-> x, majorSize |-> map.Width, minor |-> IF dir = NORTH THEN y + 1 ELSE y,
        minorSize |-> map.Height, walls |-> map.HWalls]
  ELSE [major |-> y, majorSize |-> map.Height, minor |-> IF dir = EAST THEN x + 1 ELSE x,
        minorSize |-> map.Width, walls |-> map.VWalls]

InBounds(a) == a.minor \in 1 .. a.minorSize - 1 /\ a.major \in 0 .. a.majorSize - 1

(* Bug: the rows are as long as the columns.                               *)
BugMapGetIndex(a) == a.major * (a.majorSize - 1) + a.minor - 1

MapGetIndex(a) == a.major * (a.minorSize - 1) + a.minor - 1

(* Out of bounds everything is wall, and nothing can be set.               *)
MapGetFlag(a, bits) == InBounds(a) => BitmapGet(bits, a.walls, MapGetIndex(a))

MapSetFlag(a, bits, state) ==
  IF ~ InBounds(a) THEN bits
  ELSE IF state THEN BitmapOn(bits, a.walls, MapGetIndex(a))
  ELSE BitmapOff(bits, a.walls, MapGetIndex(a))

MapGetWall(x, y, dir, map) == MapGetFlag(Axes(x, y, dir, map), map.bits)

MapSetWall(x, y, dir, state, map) ==
  [map EXCEPT !.bits = MapSetFlag(Axes(x, y, dir, map), @, state)]

(* umouse/positionlog.c: which cells have been seen.  ScanLogInit clears   *)
(* the words it has in a bitmap of as many flags as the log has words.     *)
ScanLogInit(width, height, bits) ==
  [Width |-> width, Height |-> height, bits |-> BitmapClear(bits, BitmapSize(width * height))]

ScanLogSet(x, y, log) == [log EXCEPT !.bits = BitmapOn(@, 0, y * log.Width + x)]

ScanLogGet(x, y, log) ==
  /\ x \in 0 .. log.Width - 1 /\ y \in 0 .. log.Height - 1
  /\ BitmapGet(log.bits, 0, y * log.Width + x)

-----------------------------------------------------------------------------

CONSTANTS
  Widths, Heights,   \* of the maps under test
  MaxWalls           \* bound on the walls in a map

VARIABLES
  map,           \* a map under test
  walls          \* the cell and direction of the walls set in it

mapVars == <<map, walls>>

(* With as many words as the map needs, or one less.                       *)
MapStart ==
  /\ \E width \in Widths, height \in Heights, missing \in {0, 1} :
       map = MapInit(MapSizeNeeded(width, height) - missing, width, height)
  /\ walls = {}

(* The two names of a wall.                                                *)
Sides(x, y, dir) ==
  {<<x, y, dir>>,
   CASE dir = NORTH -> <<x, y + 1, SOUTH>> [] dir = EAST -> <<x + 1, y, WEST>>
     [] dir = SOUTH -> <<x, y - 1, NORTH>> [] dir = WEST -> <<x - 1, y, EAST>>}

Cells(m) == (0 .. m.Width - 1) \X (0 .. m.Height - 1)

(* A wall is set, from outside of the maze also, or one that was set is    *)
(* removed.                                                                *)
SetWall(x, y, dir) ==
  /\ Cardinality(walls) < 2 * MaxWalls
  /\ map' = MapSetWall(x, y, dir, TRUE, map)
  /\ walls' = IF {<<s[1], s[2]>> : s \in Sides(x, y, dir)} \subseteq Cells(map)
              THEN walls \cup Sides(x, y, dir) ELSE walls

ClearWall(x, y, dir) ==
  /\ map' = MapSetWall(x, y, dir, FALSE, map)
  /\ walls' = walls \ Sides(x, y, dir)

MapNext ==
  \/ \E x \in -1 .. map.Width, y \in -1 .. map.Height, dir \in Directions : SetWall(x, y, dir)
  \/ \E side \in walls : ClearWall(side[1], side[2], side[3])

MapSpec == MapStart /\ [][MapNext]_mapVars

(* The vertical walls have as many words as they need before the first of  *)
(* the horizontal ones, which MapInit does not see to.                     *)
WallsFit == MapDimensionSizeNeeded(map.Height, map.Width) <= map.HWalls - map.VWalls

(* Whatever is set, the words of the buffer hold it: no bit outside of     *)
(* them is written, not even on a map that MapInit refused to make.        *)
MapInBuffer ==
  \A bit \in map.bits : bit \in 0 .. MapSizeNeeded(map.Width, map.Height) * WordSize - 1

(* "Each possible wall in bounds is assigned to a bit in the bitmap": a    *)
(* map holds the walls that were set and were not cleared, seen from       *)
(* either side, and no other.  No two walls share a bit, and out of bounds *)
(* everything is wall whatever was set there.                              *)
MapSound ==
  \A cell \in Cells(map), dir \in Directions :
    MapGetWall(cell[1], cell[2], dir, map) <=>
      \/ <<cell[1], cell[2], dir>> \in walls
      \/ \E s \in Sides(cell[1], cell[2], dir) : <<s[1], s[2]>> \notin Cells(map)
=============================================================================
