CONSTANTS
  Threads = {boot}
  Boot = boot
  MAX = 1
  MaxDepth = 1
  MaxHold = 1
  TimerSet = {a, b}
  M = 5
  MaxAlarm = 4
  Waits = {0, 2}
  Flags = {f1}
  Timeouts = {1}
SPECIFICATION InterruptsSpec
INVARIANT TimersServed
CHECK_DEADLOCK FALSE
