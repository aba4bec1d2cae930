CONSTANTS
  Threads = {boot, t1}
  Boot = boot
  MAX = 3
  MaxDepth = 3
  MaxHold = 2
  TimerSet = {a, b}
  M = 5
  MaxAlarm = 4
  Waits = {0, 2}
  Flags = {f1, f2, f3}
  Timeouts = {1, 2}
SPECIFICATION InterruptsSpec
SYMMETRY Alike
INVARIANTS
  SectionsAtomic
  MaskIsExact
  TimersKept
  TimersOnTime
  WatchdogExact
CHECK_DEADLOCK FALSE
