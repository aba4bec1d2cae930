---------------------------- MODULE MCInterrupts ----------------------------
(***************************************************************************)
(* What runs at interrupt level, one part in each behaviour: the interrupt *)
(* levels with two threads; two timers, registered by a thread and by      *)
(* themselves on a clock that overflows; a watchdog with three components. *)
(***************************************************************************)
EXTENDS Isr, Timer, Watchdog, TLC

VARIABLE part      \* "isr", "timer" or "watchdog"

Alike == Permutations(TimerSet)

InterruptsInit ==
  /\ IsrStartup /\ TimerStartup /\ WatchdogEnable
  /\ part \in {"isr", "timer", "watchdog"}
  /\ part # "watchdog" => Timeout = Min(Timeouts)

InterruptsNext ==
  /\ \/ part = "isr" /\ IsrNext /\ UNCHANGED <<timerVars, dogVars>>
     \/ part = "timer" /\ TimerNext /\ UNCHANGED <<isrVars, dogVars>>
     \/ part = "watchdog" /\ DogNext /\ UNCHANGED <<isrVars, timerVars>>
  /\ UNCHANGED part

InterruptsSpec == InterruptsInit /\ [][InterruptsNext]_<<isrVars, timerVars, dogVars, part>>
=============================================================================
