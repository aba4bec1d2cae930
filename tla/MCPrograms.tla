---------------------------- MODULE MCPrograms ----------------------------
(***************************************************************************)
(* The code that uses the kernel or lies under it, one piece of it in each *)
(* behaviour: the worker; the containers of utils/, which are the linked   *)
(* list, the list of the SOFT handlers, the heap and the tree; the map and *)
(* the mouse of umouse/; and the interpreter of kernel/minilisp.c.  The    *)
(* SOFT list is drained at level 2 and its handlers, the timers, are all   *)
(* queued by the timer interrupt, at level 5.                              *)
(***************************************************************************)
EXTENDS MCWorker, AtomicList, LinkedList, Heap, Tree, Mouse, Lisp

VARIABLE kind      \* the piece of code in use

SoftLevel == [n \in Node |-> 5]

None == [idle |-> TRUE]

NoMouse ==
  /\ WorldMap = None /\ MouseMap = None /\ FloodMap = None /\ ScanLog = None
  /\ mouse = None /\ dest = None /\ status = "" /\ turns = 0

NoMap == map = None /\ walls = {}

NoLisp == lisp = None /\ ample = None

ProgramsInit ==
  /\ kind \in {"worker", "list", "soft", "heap", "tree", "mouse", "map", "lisp"}
  /\ LinkedListInit /\ AtomicListInit /\ HeapStart /\ TreeStart /\ WorkerCreateWorker
  /\ kind # "worker" => use = AsTest6
  /\ IF kind = "mouse" THEN MouseInit ELSE NoMouse
  /\ IF kind = "map" THEN MapStart ELSE NoMap
  /\ IF kind = "lisp" THEN LispInit ELSE NoLisp

containerVars == <<listVars, atomicVars, heapVars, treeVars>>

ProgramsNext ==
  /\ \/ kind = "list" /\ LinkedListNext /\ UNCHANGED <<atomicVars, heapVars, treeVars>>
     \/ kind = "soft" /\ AtomicNext /\ UNCHANGED <<listVars, heapVars, treeVars>>
     \/ kind = "heap" /\ HeapNext /\ UNCHANGED <<listVars, atomicVars, treeVars>>
     \/ kind = "tree" /\ TreeNext /\ UNCHANGED <<listVars, atomicVars, heapVars>>
     \/ kind = "mouse" /\ MouseNext /\ UNCHANGED containerVars
     \/ kind = "map" /\ MapNext /\ UNCHANGED containerVars
     \/ kind = "lisp" /\ LispNext /\ UNCHANGED containerVars
     \/ kind = "worker" /\ WorkerNext /\ UNCHANGED containerVars
  /\ kind # "worker" => UNCHANGED workerVars
  /\ kind # "mouse" => UNCHANGED mouseVars
  /\ kind # "map" => UNCHANGED mapVars
  /\ kind # "lisp" => UNCHANGED lispVars
  /\ UNCHANGED kind

programVars == <<containerVars, workerVars, mouseVars, mapVars, lispVars, kind>>

(* A step of the worker's part, for its fairness: the scheduler runs the   *)
(* worker and the threads that add items.                                  *)
Works(A) ==
  kind = "worker" /\ A /\ UNCHANGED <<use, containerVars, mouseVars, mapVars, lispVars, kind>>

ProgramsSpec ==
  /\ ProgramsInit /\ [][ProgramsNext]_programVars
  /\ WF_programVars(Works(WorkerThreadMain))
  /\ \A i \in Items : WF_programVars(Works(AddEnqueue(i)))

(* What the mouse knows of the maze and steers by is true of it: MapTrue.  *)
MouseMapTrue == kind = "mouse" => MapTrue

(* The mouse never runs into a wall: NoCrash.                              *)
MouseNoCrash == kind = "mouse" => NoCrash

(* A leg of the mouse ends where it should: MouseArrives.                  *)
MouseLegEnds == kind = "mouse" => MouseArrives

(* A map stays in its buffer, and where there is room for the vertical     *)
(* walls it holds the walls that were set: MapInBuffer, MapSound.          *)
MapHoldsWalls == kind = "map" => MapInBuffer /\ (WallsFit => MapSound)

(* The interpreter's collector is not noticed: GcTransparent.              *)
LispGcTransparent == kind = "lisp" => GcTransparent

(* The interpreter's objects are in their place: MemorySound.              *)
LispMemorySound == kind = "lisp" => MemorySound
=============================================================================
