CONSTANTS
  Threads = {a, b}
  Sleepers = {a}
  IdleThread = IdleThread
  Switch = Switch
SPECIFICATION SchedulerSpec
INVARIANT EligibleQueued
