------------------------------ MODULE SubMove ------------------------------
(***************************************************************************)
(* umouse/submove.c: the moves of the mouse and how the next is chosen.    *)
(* A position is a record of x and y, which count half cells so that odd   *)
(* ones are the middles of cells and even ones the walls between, the      *)
(* direction dir and whether the mouse is moving.                          *)
(***************************************************************************)
EXTENDS FloodFill, Sequences, SequencesExt

Moves == <<"start", "forward", "stop", "turn right", "turn left", "turn around",
           "integrate right", "integrate left">>

Straight == {"start", "forward", "stop"}
Turns == {"turn right", "turn left", "turn around"}
Integrates == {"integrate right", "integrate left"}

SubMoveMovingEndState(move) == move \in {"start", "forward"} \cup Integrates

SubMovesRotates(move) == move \in Turns \cup Integrates

Angle(move) ==
  CASE move \in {"turn right", "integrate right"} -> 1
    [] move \in {"turn left", "integrate left"} -> 3
    [] move = "turn around" -> 2

(* Works on positions and on cells.                                        *)
SubMoveTranslate(p, dir, dist) ==
  CASE dir = NORTH -> [p EXCEPT !.y = @ + dist] [] dir = SOUTH -> [p EXCEPT !.y = @ - dist]
    [] dir = EAST -> [p EXCEPT !.x = @ + dist] [] dir = WEST -> [p EXCEPT !.x = @ - dist]

SubMoveRotate(p, angle) == [p EXCEPT !.dir = TURN(@, angle)]

SubMoveApply(p, move) ==
  LET q == [p EXCEPT !.moving = SubMoveMovingEndState(move)]
      ahead == SubMoveTranslate(q, q.dir, 1)
      turned == SubMoveRotate(ahead, Angle(move))
  IN CASE move \in Straight -> ahead
       [] move \in Turns -> SubMoveRotate(q, Angle(move))
       [] move \in Integrates -> SubMoveTranslate(turned, turned.dir, 1)

IS_CENTERED(p) == p.x % 2 = 1 /\ p.y % 2 = 1
IS_EDGED(p) == p.x % 2 = 0 \/ p.y % 2 = 0

Halved(p) == [x |-> p.x \div 2, y |-> p.y \div 2]

(* The cell of a centred mouse, the cell ahead of one on an edge.          *)
GetCell(p) == Halved(IF IS_CENTERED(p) THEN p ELSE SubMoveTranslate(p, p.dir, 1))

Fill(cell, f) == FloodFillGet(cell.x, cell.y, f)
Scanned(cell, scan) == ScanLogGet(cell.x, cell.y, scan)

MoveStartCentered(p, move) == move \in {"start"} \cup Turns => IS_CENTERED(p)

MoveStartEdge(p, move) == move \in {"stop"} \cup Integrates => IS_EDGED(p)

MoveStartMoving(p, move) == p.moving <=> move \notin {"start"} \cup Turns

MoveStartStraightAway(p, move, f) ==
  LET cell == GetCell(p)
  IN move = "forward" => Fill(SubMoveTranslate(cell, p.dir, 1), f) < Fill(cell, f)

(* Bug: the walls are not looked at.                                       *)
BugMoveEndOnWall(p, m, move) == TRUE

(* Not on a wall that is on the map; of the two walls that meet on the     *)
(* edge of a cell it is the southern or the western one of the next.       *)
MoveEndOnWall(p, m, move) ==
  move \in Straight \cup Integrates =>
    \/ IS_CENTERED(p)
    \/ p.x % 2 = 1 /\ ~ MapGetWall(p.x \div 2, p.y \div 2, SOUTH, m)
    \/ p.x % 2 = 0 /\ p.y % 2 = 1 /\ ~ MapGetWall(p.x \div 2, p.y \div 2, WEST, m)

MoveEndOnPeg(p) == p.x % 2 = 1 \/ p.y % 2 = 1

MoveEndInScanned(p, scan) == Scanned(GetCell(p), scan)

MoveNextScanned(p, move, scan) ==
  move \in {"forward"} \cup Integrates => Scanned(GetCell(SubMoveTranslate(p, p.dir, 1)), scan)

MoveNextLessFloodFill(p, move, f) ==
  move \in Turns => Fill(Halved(SubMoveTranslate(p, p.dir, 2)), f) < Fill(Halved(p), f)

MoveEndFacingWall(p, m, move) ==
  move \in {"forward"} \cup Turns \cup Integrates /\ IS_CENTERED(p) =>
    ~ MapGetWall(p.x \div 2, p.y \div 2, p.dir, m)

SubMoveLegal(p, move, m, scan, f) ==
  LET q == SubMoveApply(p, move)
  IN /\ MoveStartCentered(p, move)
     /\ MoveStartEdge(p, move)
     /\ MoveStartMoving(p, move)
     /\ MoveStartStraightAway(p, move, f)
     /\ MoveEndOnWall(q, m, move)
     /\ MoveEndOnPeg(q)
     /\ MoveEndInScanned(q, scan)
     /\ MoveEndFacingWall(q, m, move)
     /\ MoveNextScanned(q, move, scan)
     /\ MoveNextLessFloodFill(q, move, f)

(* On an edge the mouse heads over it; the ASSERTs are that it does.       *)
HeadsOver(p) ==
  (p.x % 2 = 0 => p.dir \in {EAST, WEST}) /\ (p.y % 2 = 0 => p.dir \in {NORTH, SOUTH})

(* The cell the mouse is in or heads into.                                 *)
CellIn(p) ==
  [x |-> CASE p.x % 2 = 1 \/ p.dir = EAST -> p.x \div 2 [] p.dir = WEST -> p.x \div 2 - 1 [] OTHER -> p.x,
   y |-> CASE p.y % 2 = 1 \/ p.dir = NORTH -> p.y \div 2 [] p.dir = SOUTH -> p.y \div 2 - 1 [] OTHER -> p.y]

(* What a move is judged by.                                               *)
Outcome(p, move, f, m) ==
  LET q == SubMoveApply(p, move)
      cell == CellIn(q)
  IN [move |-> move, flood |-> Fill(cell, f),
      facingFlood |-> Fill(SubMoveTranslate(cell, q.dir, 1), f),
      facingWall |-> MapGetWall(cell.x, cell.y, q.dir, m), rotated |-> SubMovesRotates(move)]

Improves(cur, best) ==
  \/ cur.flood < best.flood
  \/ /\ cur.flood = best.flood
     /\ \/ cur.facingFlood < best.facingFlood
        \/ /\ cur.facingFlood = best.facingFlood
           /\ \/ ~ cur.facingWall /\ best.facingWall
              \/ cur.facingWall = best.facingWall /\ cur.rotated /\ ~ best.rotated

SubMoveFindBest(p, f, m, scan) ==
  LET Better(best, move) ==
        IF SubMoveLegal(p, move, m, scan, f) /\ Improves(Outcome(p, move, f, m), best)
        THEN Outcome(p, move, f, m) ELSE best
      done == [move |-> "done", flood |-> 255, facingFlood |-> 255,
               facingWall |-> TRUE, rotated |-> TRUE]
  IN FoldLeft(Better, done, Moves).move
=============================================================================
