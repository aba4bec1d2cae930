CONSTANTS
  p1 = p1
  p2 = p2
  c1 = c1
  c2 = c2
  Contexts = {p1, p2, c1, c2}
  Kind <- MCKind
  Producers = {p1, p2}
  Usages <- MCUsages
  NoItem = NoItem
  MaxCount = 2
  MaxQueued = 4
  Node = {n1, n2, n3, n4}
  NULL = NULL
  Drain = 2
  Level <- SoftLevel
  WeightedNode = {w1, w2, w3, w4, w5}
  Weights = {1, 2, 3}
  MaxWeight = 3
  WordSize = 32
  Side = 3
  Widths = {4, 8}
  Heights = {5, 7}
  MaxWalls = 2
  MemorySizes = {100, 160, 250}
  Ample = 400
SPECIFICATION ProgramsSpec
INVARIANTS
  WorkerSound
  ItemsKept
  ListSound
  SoftListSound
  HeapSound
  TreeSound
  MouseMapTrue
  MouseNoCrash
  MouseLegEnds
  MapHoldsWalls
  LispGcTransparent
  LispMemorySound
PROPERTIES
  QueuedIsRun
CHECK_DEADLOCK FALSE
