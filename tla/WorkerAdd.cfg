CONSTANTS
  p1 = p1
  p2 = p2
  c1 = c1
  c2 = c2
  Contexts = {p1, p2, c1, c2}
  Kind <- MCKind
  Producers = {p1, p2}
  Usages <- MCUsages
  NoItem = NoItem
  MaxCount = 2
  MaxQueued = 4
SPECIFICATION WorkerSpec
INVARIANTS
  PopFindsItem
CHECK_DEADLOCK FALSE
