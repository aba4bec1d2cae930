------------------------------- MODULE Mouse -------------------------------
(***************************************************************************)
(* umouse/movetest.c: the mouse explores a maze it cannot see, from cell   *)
(* (0,0) to the middle and back.  It scans the cell ahead when it is in    *)
(* the middle of a cell, recomputes the distances when it has seen a new   *)
(* wall, and takes the best move.                                          *)
(***************************************************************************)
EXTENDS SubMove

CONSTANT Side    \* the side of the mazes that are all tried

VARIABLES
  WorldMap,
  MouseMap,
  FloodMap,
  ScanLog,
  mouse,         \* x, y, dir and moving
  dest,          \* where the leg ends
  status,        \* "explore", "return", or how the program ended
  turns          \* the turns of the loop this leg has taken so far

mouseVars == <<WorldMap, MouseMap, FloodMap, ScanLog, mouse, dest, status, turns>>

WIDTH == WorldMap.Width
HEIGHT == WorldMap.Height

StartingCell(m) == MapSetWall(0, 0, EAST, TRUE, m)

RECURSIVE MakeLines(_, _, _, _, _)
MakeLines(cell, dist, moveDir, wallDir, m) ==
  IF dist = 0 THEN m
  ELSE MakeLines(SubMoveTranslate(cell, moveDir, 1), dist - 1, moveDir, wallDir,
                 MapSetWall(cell.x, cell.y, wallDir, TRUE, m))

(* main's sample maze.                                                     *)
SampleMaze ==
  LET Line(m, l) == MakeLines([x |-> l[1], y |-> l[2]], l[3], l[4], l[5], m)
  IN FoldLeft(Line, StartingCell(NewMap(8, 8)),
       << <<0, 2, 6, EAST, SOUTH>>, <<6, 3, 4, NORTH, WEST>>, <<1, 5, 6, EAST, NORTH>>,
          <<4, 3, 2, NORTH, WEST>>, <<4, 2, 2, EAST, NORTH>>, <<0, 5, 4, EAST, SOUTH>>,
          <<1, 6, 1, EAST, EAST>>, <<3, 3, 2, NORTH, WEST>> >>)

(* Every maze of that side in which the mouse can leave its first cell.    *)
Worlds ==
  LET empty == NewMap(Side, Side)
      Inner == {<<c[1], c[2], dir>> : c \in Cells(empty), dir \in {NORTH, EAST}}
      Set(w, m) == MapSetWall(w[1], w[2], w[3], TRUE, m)
  IN {FoldSet(Set, StartingCell(empty), ws) :
        ws \in SUBSET {w \in Inner \ {<<0, 0, NORTH>>} : InBounds(Axes(w[1], w[2], w[3], empty))}}

(* The distances to a destination on a map.                                *)
Flooded(x, y, m, f) == FloodFillCalculate(m, FloodFillSetDestination(x, y, FloodFillClear(f)))

(* RunMoves up to its loop.                                                *)
RunMoves(x, y, dir, destX, destY, f) ==
  /\ mouse' = [x |-> x * 2 + 1, y |-> y * 2 + 1, dir |-> dir, moving |-> FALSE]
  /\ dest' = [x |-> destX, y |-> destY]
  /\ FloodMap' = Flooded(destX, destY, MouseMap, f)

(* main up to the first loop, with every destination on the diagonal in    *)
(* the small mazes.                                                        *)
MouseStart(world, destination) ==
  /\ WorldMap = world
  /\ MouseMap = StartingCell(NewMap(WIDTH, HEIGHT))
  /\ ScanLog = ScanLogSet(0, 0, ScanLogInit(WIDTH, HEIGHT, {}))
  /\ dest = destination
  /\ FloodMap = Flooded(dest.x, dest.y, MouseMap, FloodFillInit(WIDTH, HEIGHT))
  /\ mouse = [x |-> 1, y |-> 1, dir |-> NORTH, moving |-> FALSE]
  /\ status = "explore"
  /\ turns = 0

MouseInit ==
  \/ MouseStart(SampleMaze, [x |-> 4, y |-> 4])
  \/ \E world \in Worlds, d \in 1 .. Side - 1 : MouseStart(world, [x |-> d, y |-> d])

(* The walls of the cell ahead, which the mouse sees from the middle of a  *)
(* cell if there is no wall between.                                       *)
CanScan == IS_CENTERED(mouse) /\ ~ MapGetWall(mouse.x \div 2, mouse.y \div 2, mouse.dir, WorldMap)

(* Bug: what was seen is not put on the map.                               *)
BugSeen(scan) == MouseMap

Seen(scan) ==
  LET See(m, dir) ==
        IF MapGetWall(scan.x, scan.y, dir, WorldMap)
        THEN MapSetWall(scan.x, scan.y, dir, TRUE, m) ELSE m
  IN FoldLeft(See, MouseMap, <<NORTH, EAST, SOUTH, WEST>>)

UpdateMap ==
  LET scan == Halved(SubMoveTranslate(mouse, mouse.dir, 2))
  IN IF CanScan
     THEN /\ MouseMap' = Seen(scan)
          /\ ScanLog' = ScanLogSet(scan.x, scan.y, ScanLog)
          /\ FloodMap' = IF MouseMap' # MouseMap
                         THEN Flooded(dest.x, dest.y, MouseMap', FloodMap) ELSE FloodMap
     ELSE UNCHANGED <<MouseMap, ScanLog, FloodMap>>

(* One turn of the loop of RunMoves, which goes on.                        *)
MakeMove(move) ==
  /\ mouse' = SubMoveApply(mouse, move)
  /\ Fill(Halved(mouse'), FloodMap') # 0
  /\ UNCHANGED <<dest, status>>

(* The turn that ends the leg: in the middle of a cell, or the program     *)
(* gives up.                                                               *)
EndLeg(move) ==
  /\ mouse' = SubMoveApply(mouse, move)
  /\ Fill(Halved(mouse'), FloodMap') = 0
  /\ status' = CASE ~ IS_CENTERED(mouse') -> "not in center"
                 [] status = "explore" -> "explore done"
                 [] OTHER -> "return done"
  /\ UNCHANGED dest

NotPossible(move) == move = "done" /\ status' = "not possible" /\ UNCHANGED <<mouse, dest>>

OutOfBounds == mouse.x > 2 * WIDTH \/ mouse.y > 2 * HEIGHT

Turn ==
  /\ status \in {"explore", "return"}
  /\ UpdateMap
  /\ LET move == SubMoveFindBest(mouse, FloodMap', MouseMap', ScanLog')
     IN turns' = turns + 1 /\
        IF OutOfBounds THEN status' = "out of bounds" /\ UNCHANGED <<mouse, dest>>
        ELSE \/ NotPossible(move)
             \/ move # "done" /\ MakeMove(move)
             \/ move # "done" /\ EndLeg(move)
  /\ UNCHANGED WorldMap

(* main's second call of RunMoves.                                         *)
RunBack ==
  /\ status = "explore done"
  /\ status' = "return"
  /\ turns' = 0
  /\ RunMoves(mouse.x \div 2, mouse.y \div 2, mouse.dir, 0, 0, FloodMap)
  /\ UNCHANGED <<WorldMap, MouseMap, ScanLog>>

MouseNext == Turn \/ RunBack

-----------------------------------------------------------------------------

(* What the mouse knows of the maze is true, and complete for the cells it *)
(* has scanned; the distances it steers by are those of its own map.       *)
MapTrue ==
  /\ MouseMap.bits \subseteq WorldMap.bits
  /\ \A cell \in Cells(WorldMap), dir \in Directions :
       ScanLogGet(cell[1], cell[2], ScanLog) /\ cell # <<0, 0>> =>
         (MapGetWall(cell[1], cell[2], dir, MouseMap) <=> MapGetWall(cell[1], cell[2], dir, WorldMap))
  /\ Distances(MouseMap, FloodMap, dest.x, dest.y)

(* The mouse stays in the maze, runs into no wall, stands on no peg, and   *)
(* heads over the edge it is on, as SubMoveFindBest asserts.               *)
NoCrash ==
  /\ mouse.x \in 1 .. 2 * WIDTH - 1 /\ mouse.y \in 1 .. 2 * HEIGHT - 1
  /\ HeadsOver(mouse) /\ MoveEndOnPeg(mouse)
  /\ LET cell == CellIn(mouse)
     IN IS_EDGED(mouse) => ~ MapGetWall(cell.x, cell.y, TURN(mouse.dir, 2), WorldMap)

(* The distance of the destination from where the mouse set out, in the    *)
(* world.                                                                  *)
WayThere == FloodFillGet(0, 0, Flooded(dest.x, dest.y, WorldMap, FloodMap))

(* A leg ends within three turns for every cell, and it ends where it      *)
(* should: in its destination, or at the edge of it which RunMoves takes   *)
(* for the cell behind.  The mouse finds no move only where there is no    *)
(* way.                                                                    *)
MouseArrives ==
  /\ turns <= 3 * WIDTH * HEIGHT
  /\ status \in {"explore done", "return done", "not in center"} =>
       CellIn(mouse) = dest /\ (IS_CENTERED(mouse) \/ mouse.dir \in {NORTH, EAST})
  /\ status = "not possible" => WayThere = 255
=============================================================================
