----------------------------- MODULE FloodFill -----------------------------
(***************************************************************************)
(* umouse/floodfill.c: how many cells each cell is away from the           *)
(* destination.  Cells whose value has changed wait as events; the first   *)
(* one is taken and its neighbours are looked at.                          *)
(***************************************************************************)
EXTENDS Maze

FloodFillGetIndex(x, y, f) == y * f.Width + x

FloodFillGetX(index, f) == index % f.Height

FloodFillGetY(index, f) == index \div f.Width

InFlood(x, y, f) == x \in 0 .. f.Width - 1 /\ y \in 0 .. f.Height - 1

FloodFillSet(x, y, value, f) ==
  IF InFlood(x, y, f) THEN [f EXCEPT !.FloodMap[FloodFillGetIndex(x, y, f)] = value] ELSE f

FloodNewEvent(x, y, f) ==
  IF InFlood(x, y, f) THEN [f EXCEPT !.EventMap = BitmapOn(@, 0, FloodFillGetIndex(x, y, f))] ELSE f

FloodFillGet(x, y, f) == IF InFlood(x, y, f) THEN f.FloodMap[FloodFillGetIndex(x, y, f)] ELSE 255

FloodFillInit(width, height) ==
  [Width |-> width, Height |-> height,
   FloodMap |-> [i \in 0 .. width * height - 1 |-> 0], EventMap |-> {}]

FloodFillClear(f) ==
  [f EXCEPT !.FloodMap = [i \in DOMAIN @ |-> 255],
            !.EventMap = BitmapClear(@, f.Width * f.Height)]

FloodFillSetDestination(x, y, f) == FloodNewEvent(x, y, FloodFillSet(x, y, 0, f))

(* A neighbour that is further away is one further.                        *)
Look(x, y, dir, nx, ny, m, f) ==
  LET curValue == FloodFillGet(x, y, f)
  IN IF ~ MapGetWall(x, y, dir, m) /\ FloodFillGet(nx, ny, f) > curValue
     THEN FloodNewEvent(nx, ny, FloodFillSet(nx, ny, curValue + 1, f))
     ELSE f

(* Bug: the neighbour to the south is not looked at.                       *)
BugLookAround(x, y, m, f) ==
  Look(x, y, NORTH, x, y + 1, m,
    Look(x, y, WEST, x - 1, y, m, Look(x, y, EAST, x + 1, y, m, f)))

LookAround(x, y, m, f) ==
  Look(x, y, SOUTH, x, y - 1, m,
    Look(x, y, NORTH, x, y + 1, m,
      Look(x, y, WEST, x - 1, y, m, Look(x, y, EAST, x + 1, y, m, f))))

(* One turn of the loop, for the first event.                              *)
NextEvent(m, f) ==
  LET index == BitmapGetFirstFlag(f.EventMap, f.Width * f.Height)
  IN LookAround(FloodFillGetX(index, f), FloodFillGetY(index, f), m,
                [f EXCEPT !.EventMap = BitmapOff(@, 0, index)])

(* Up to 2^n turns of the loop, until there is no event.                   *)
RECURSIVE TurnsOfLoop(_, _, _)
TurnsOfLoop(n, m, f) ==
  IF BitmapGetFirstFlag(f.EventMap, f.Width * f.Height) = -1 THEN f
  ELSE IF n = 0 THEN NextEvent(m, f)
  ELSE TurnsOfLoop(n - 1, m, TurnsOfLoop(n - 1, m, f))

(* More turns than any map of the checked sizes takes.                     *)
FloodFillCalculate(m, f) == TurnsOfLoop(12, m, f)

(* Every cell's value is one more than the least of those it is open to,   *)
(* 0 at the destination and 255 where there is no way to it: there is only *)
(* one such map, the distances.                                            *)
Distances(m, f, destX, destY) ==
  f.EventMap = {} /\ \A cell \in Cells(m) :
    LET Open == {s \in UNION {Sides(cell[1], cell[2], dir) :
                                dir \in {d \in Directions : ~ MapGetWall(cell[1], cell[2], d, m)}} :
                   <<s[1], s[2]>> # cell}
        nearest == Min({254} \cup {FloodFillGet(s[1], s[2], f) : s \in Open})
    IN FloodFillGet(cell[1], cell[2], f) =
         IF cell = <<destX, destY>> THEN 0 ELSE nearest + 1
=============================================================================
