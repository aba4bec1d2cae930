CONSTANTS
  h1 = h1
  h2 = h2
  h3 = h3
  Node = {h1, h2, h3}
  NULL = NULL
  Drain = 1
  Level <- CritLevel
SPECIFICATION AtomicSpec
INVARIANT OnlyQueuedRun
CHECK_DEADLOCK FALSE
