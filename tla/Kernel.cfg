CONSTANTS
  t1 = t1
  t2 = t2
  t3 = t3
  p1 = p1
  open = open
  closed = closed
  Contexts = {t1, t2, t3, p1}
  Semaphores = {open, closed}
  MaxPosts = 1
  MaxRounds = 2
  Kind <- MCKind
  InitialCount <- MCInitialCount
  Threads = {a, b, c}
  Sleepers = {a, b}
  IdleThread = IdleThread
  Switch = Switch
SPECIFICATION KernelSpec
INVARIANTS
  UseInv
  MeetInv
  ThreadsSound
  HandlersSound
  SleeperHasWaker
  ShutdownExact
PROPERTIES
  InOrder
  NoStarvation
  EverybodyMeets
  RoundRobin
  HandlersRun
