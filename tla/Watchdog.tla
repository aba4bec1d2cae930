------------------------------ MODULE Watchdog ------------------------------
(***************************************************************************)
(* kernel/watchdog.c.  Every component that has put its flag into the      *)
(* desired mask has to notify; the call that completes the set pets the    *)
(* dog, which otherwise ends the kernel when its time is over.  The        *)
(* hardware counts the time the process runs.  A call holds the interrupt  *)
(* back, but not the countdown.                                            *)
(***************************************************************************)
EXTENDS Integers, FiniteSetsExt

CONSTANTS
  Flags,         \* the components
  Timeouts       \* the timeouts WatchdogEnable is called with

(* A countdown of zero ticks would never end.                              *)
ASSUME DogAssumption == Timeouts \subseteq Nat \ {0} /\ "nobody" \notin Flags

VARIABLES
  WatchdogDesiredMask, WatchdogCurMask, Timeout,
  dog,           \* ticks left of the hardware's countdown
  barked,        \* the interrupt is pending
  notifier,      \* who is inside of WatchdogNotify
  panicked,
  silence,       \* ticks since a component's last call returned
  fresh          \* the components that have not called since they were added

dogVars == <<WatchdogDesiredMask, WatchdogCurMask, Timeout, dog, barked, notifier, panicked,
             silence, fresh>>

Nobody == "nobody"

(* The second the countdown is kept below: HalPetWatchdog puts all of it   *)
(* into the microseconds, and the call fails for more.                     *)
HalPetWatchdog(when) == dog' = when

WatchdogEnable ==
  /\ Timeout \in Timeouts
  /\ WatchdogDesiredMask = {} /\ WatchdogCurMask = {}
  /\ dog = Timeout
  /\ barked = FALSE
  /\ notifier = Nobody
  /\ panicked = FALSE
  /\ silence = [f \in Flags |-> 0]
  /\ fresh = {}

WatchdogAddFlag(f) ==
  /\ notifier = Nobody
  /\ f \notin WatchdogDesiredMask
  /\ WatchdogDesiredMask' = WatchdogDesiredMask \cup {f}
  /\ silence' = [silence EXCEPT ![f] = 0]
  /\ fresh' = fresh \cup {f}
  /\ UNCHANGED <<WatchdogCurMask, Timeout, dog, barked, notifier, panicked>>

(* The call of a component that is in the mask, up to FlagOn,              *)
NotifyFlag(f) ==
  /\ notifier = Nobody
  /\ f \in WatchdogDesiredMask
  /\ notifier' = f
  /\ WatchdogCurMask' = WatchdogCurMask \cup {f}
  /\ UNCHANGED <<WatchdogDesiredMask, Timeout, dog, barked, panicked, silence,
                 fresh>>

(* Bug: the mask is not cleared.                                           *)
BugNotifyPet ==
  IF WatchdogCurMask = WatchdogDesiredMask
  THEN HalPetWatchdog(Timeout) /\ UNCHANGED WatchdogCurMask
  ELSE UNCHANGED <<dog, WatchdogCurMask>>

(* All of the players have shown up: the dog is petted and the mask        *)
(* cleared.                                                                *)
NotifyPet ==
  IF WatchdogCurMask = WatchdogDesiredMask
  THEN HalPetWatchdog(Timeout) /\ WatchdogCurMask' = {}
  ELSE UNCHANGED <<dog, WatchdogCurMask>>

(* and the rest of it, up to IsrEnable: too late if the countdown has      *)
(* ended in between.                                                       *)
WatchdogNotify ==
  /\ notifier # Nobody
  /\ NotifyPet
  /\ notifier' = Nobody
  /\ IF barked
     THEN UNCHANGED <<silence, fresh>>
     ELSE silence' = [silence EXCEPT ![notifier] = 0] /\ fresh' = fresh \ {notifier}
  /\ UNCHANGED <<WatchdogDesiredMask, Timeout, barked, panicked>>

WatchdogInterrupt ==
  /\ barked /\ notifier = Nobody
  /\ panicked' = TRUE
  /\ UNCHANGED <<WatchdogDesiredMask, WatchdogCurMask, Timeout, dog, barked, notifier, silence,
                 fresh>>

(* The process runs for a tick.  The countdown ends once; nothing but the  *)
(* mask delays the interrupt.                                              *)
DogTick ==
  /\ ~ barked \/ notifier # Nobody
  /\ dog' = Max({dog - 1, 0})
  /\ barked' = (barked \/ dog = 1)
  /\ silence' = [f \in Flags |-> IF f \in WatchdogDesiredMask
                                  THEN Min({silence[f] + 1, 3 * Timeout}) ELSE 0]
  /\ UNCHANGED <<WatchdogDesiredMask, WatchdogCurMask, Timeout, notifier, panicked, fresh>>

DogNext ==
  /\ ~ panicked
  /\ \/ \E f \in Flags : WatchdogAddFlag(f) \/ NotifyFlag(f)
     \/ WatchdogNotify
     \/ WatchdogInterrupt
     \/ DogTick

DogSpec == WatchdogEnable /\ [][DogNext]_dogVars

-----------------------------------------------------------------------------

(* No stalled component goes unnoticed: whoever has not notified for twice *)
(* the timeout (once because its flag may still be set from a round that   *)
(* others complete later) has made the dog bark; a call that takes longer  *)
(* than that itself holds it back.  And the dog barks at nobody who is     *)
(* awake: when it does, there is a component that did not notify during    *)
(* the whole timeout or since it was added, or there is none to notify.    *)
WatchdogExact ==
  /\ \A f \in WatchdogDesiredMask : ~ barked => silence[f] < 2 * Timeout
  /\ panicked /\ WatchdogDesiredMask # {} =>
       \E f \in WatchdogDesiredMask : silence[f] >= Timeout \/ f \in fresh
=============================================================================
