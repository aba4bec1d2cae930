------------------------------- MODULE Timer -------------------------------
(***************************************************************************)
(* The timer unit of kernel/timer.c.  The clock counts modulo M (TIME is   *)
(* an unsigned integer); a timer whose time lies beyond the clock's        *)
(* overflow waits in a second heap, and the two change places when the     *)
(* interrupt notices the overflow.  The hardware counts down once, to the  *)
(* interrupt.  TimerRegister is called by a thread and, over it, by a      *)
(* handler at SOFT level; the interrupt may come between any two of its    *)
(* steps, but for those it takes under IsrDisable.  A heap is the set of   *)
(* its timers: Heap.tla shows that HeapPop takes one of least weight.      *)
(***************************************************************************)
EXTENDS Integers, FiniteSets, FiniteSetsExt

CONSTANTS
  TimerSet,     \* the handler objects
  M,            \* the number of times the clock tells apart
  MaxAlarm,     \* the longest countdown HalSetTimer sets
  Waits         \* the waits TimerRegister is called with

ASSUME TimerAssumption ==
  M \in Nat /\ M > 2 /\ MaxAlarm \in 1 .. M /\ Waits \subseteq 0 .. M - 1 /\ IsFiniteSet(TimerSet)

VARIABLES
  now,                       \* what TimeGet returns
  alarm,                     \* ticks left of the countdown; 0: it ends in this tick
  Timers, TimersOverflow,    \* the heaps
  Weight,                    \* the weight of a timer in a heap
  TimerLastTime,
  State,                     \* of the handler objects
  soft,                      \* those queued as soft interrupts
  call,                      \* what each caller of TimerRegister is doing
  crashed,                   \* the head of an empty heap was read
  left,                      \* ticks until a registered timer is due, or since, while not slow
  early,                     \* a timer was queued before it was due
  slow,                      \* a registration saw the clock tick, or an overflow unnoticed
  overdue                    \* one set the countdown for a timer due before, while not slow

timerVars == <<now, alarm, Timers, TimersOverflow, Weight, TimerLastTime, State, soft, call,
               crashed, left, early, slow, overdue>>

Callers == {"thread", "soft"}

Idle == [step |-> "idle"]

(* A countdown of zero is made one tick, a long one is cut.                *)
HalSetTimer(delta) == alarm' = IF delta = 0 THEN 1 ELSE Min({delta, MaxAlarm})

(* The least weight in a heap that is not empty.                           *)
HeapHeadWeight(heap, weight) == Min({weight[h] : h \in heap})

(* The countdown to the head of the heap or, if there is none, to the      *)
(* overflow; all arithmetic is modulo M.                                   *)
Countdown(time, heap) ==
  IF heap # {} THEN (HeapHeadWeight(heap, Weight) - time) % M ELSE ((M - 1 - time) + 1) % M

TimerStartup ==
  /\ now = 0 /\ TimerLastTime = now
  /\ Timers = {} /\ TimersOverflow = {}
  /\ alarm = 1
  /\ Weight = [h \in TimerSet |-> 0]
  /\ State = [h \in TimerSet |-> "READY"]
  /\ soft = {}
  /\ call = [c \in Callers |-> Idle]
  /\ crashed = FALSE
  /\ left = [h \in TimerSet |-> 0]
  /\ early = FALSE /\ slow = FALSE /\ overdue = FALSE

-----------------------------------------------------------------------------

(* TimerRegister reads the clock,                                          *)
Begin(c, h, wait) ==
  /\ call[c] = Idle
  /\ call' = [call EXCEPT ![c] = [step |-> "add", timer |-> h, time |-> now, wait |-> wait]]
  /\ left' = IF slow THEN left ELSE [left EXCEPT ![h] = wait]
  /\ UNCHANGED <<now, alarm, Timers, TimersOverflow, Weight, TimerLastTime, crashed, early, slow,
                 overdue>>

(* Bug: a timer due at once is left to the overflow.                       *)
BugTarget(time, timerTime) == timerTime > time

(* timerTime >= time: the clock does not overflow before the timer.        *)
Target(time, timerTime) == timerTime >= time

(* adds the timer to one of the heaps with interrupts disabled, by the     *)
(* time it has read,                                                       *)
AddTimer(c) ==
  LET h == call[c].timer
      time == call[c].time
      timerTime == (time + call[c].wait) % M
  IN /\ call[c].step = "add"
     /\ State[h] \in {"READY", "RUNNING"}
     /\ State' = [State EXCEPT ![h] = "QUEUED"]
     /\ Weight' = [Weight EXCEPT ![h] = timerTime]
     /\ IF Target(time, timerTime)
        THEN Timers' = Timers \cup {h} /\ UNCHANGED TimersOverflow
        ELSE TimersOverflow' = TimersOverflow \cup {h} /\ UNCHANGED Timers
     /\ call' = [call EXCEPT ![c] = [step |-> "look", time |-> time]]
     /\ slow' = (slow \/ now < TimerLastTime)
     /\ left' = IF slow' THEN [k \in TimerSet |-> 0] ELSE left
     /\ overdue' = (overdue /\ ~ slow')
     /\ UNCHANGED <<now, alarm, TimerLastTime, soft, crashed, early>>

(* and sets the countdown, with interrupts enabled: it looks whether there *)
(* are timers,                                                             *)
LookAtSize(c) ==
  /\ call[c].step = "look"
  /\ call' = [call EXCEPT ![c] = [step |-> IF Timers # {} THEN "head" ELSE "rollover",
                                  time |-> @.time]]
  /\ UNCHANGED <<now, alarm, Timers, TimersOverflow, Weight, TimerLastTime, State, soft, crashed,
                 left, early, slow, overdue>>

(* reads the head of the heap, which is gone if the interrupt has come in  *)
(* between and emptied it,                                                 *)
LookAtHead(c) ==
  /\ call[c].step \in {"head", "rollover"}
  /\ crashed' = (call[c].step = "head" /\ Timers = {})
  /\ call' = [call EXCEPT ![c] =
                IF crashed' THEN Idle
                ELSE [step |-> "set", time |-> @.time,
                      delta |-> Countdown(@.time, IF @.step = "head" THEN Timers ELSE {})]]
  /\ overdue' = (overdue \/ \E h \in Timers : left[h] < 0)
  /\ UNCHANGED <<now, alarm, Timers, TimersOverflow, Weight, TimerLastTime, State, soft, left,
                 early, slow>>

(* and calls HalSetTimer with what it has computed from the time it read.  *)
SetTimer(c) ==
  /\ call[c].step = "set"
  /\ HalSetTimer(call[c].delta)
  /\ call' = [call EXCEPT ![c] = Idle]
  /\ UNCHANGED <<now, Timers, TimersOverflow, Weight, TimerLastTime, State, soft, crashed, left,
                 early, slow, overdue>>

TimerSetNextTimer(c) == LookAtSize(c) \/ LookAtHead(c) \/ SetTimer(c)

-----------------------------------------------------------------------------

(* The timers of a heap that have expired.                                 *)
Expired(time, heap) == {h \in heap : Weight[h] <= time}

(* What is due, what stays in Timers, and whether the heaps change places: *)
(* after an overflow all of the old heap is due.                           *)
TimerInner ==
  IF now < TimerLastTime
  THEN LET due == Expired(M - 1, Timers) \cup Expired(now, TimersOverflow)
       IN [due |-> due, rest |-> TimersOverflow \ due, swap |-> TRUE]
  ELSE LET due == Expired(now, Timers)
       IN [due |-> due, rest |-> Timers \ due, swap |-> FALSE]

(* Bug: the timer is run and not queued again.                             *)
BugQueueTimers(due) ==
  /\ soft' = soft \cup due
  /\ early' = (early \/ \E h \in due : left[h] > 0)
  /\ State' = [h \in TimerSet |-> IF h \in due THEN "RUNNING" ELSE State[h]]

(* HandlerRun and HandlerRegister of SoftInterruptRegisterHandler leave    *)
(* the timer QUEUED.                                                       *)
QueueTimers(due) ==
  /\ soft' = soft \cup due
  /\ early' = (early \/ \E h \in due : left[h] > 0)
  /\ UNCHANGED State

(* What a timer that is in no heap has in its link, and how late it was,   *)
(* no longer matters.                                                      *)
Forget(due) ==
  /\ Weight' = [h \in TimerSet |-> IF h \in due THEN 0 ELSE Weight[h]]
  /\ left' = [h \in TimerSet |-> IF h \in due THEN 0 ELSE left[h]]

(* The countdown has ended.  It will not start by itself: the last call of *)
(* the handler starts it.                                                  *)
TimerInterrupt ==
  /\ alarm = 0
  /\ QueueTimers(TimerInner.due)
  /\ Timers' = TimerInner.rest
  /\ TimersOverflow' = IF TimerInner.swap THEN Timers \ TimerInner.due ELSE TimersOverflow
  /\ HalSetTimer(Countdown(now, TimerInner.rest))
  /\ TimerLastTime' = now
  /\ Forget(TimerInner.due)
  /\ UNCHANGED <<now, call, crashed, slow, overdue>>

(* A soft interrupt runs a timer's function, which finishes or registers   *)
(* its timer again.  Another timer may be run only when it has returned.   *)
SoftInterrupt(h) ==
  /\ h \in soft
  /\ soft' = soft \ {h}
  /\ \/ /\ call["soft"] = Idle
        /\ State' = [State EXCEPT ![h] = "READY"]
        /\ UNCHANGED <<now, alarm, Timers, TimersOverflow, Weight, TimerLastTime, call, crashed,
                       left, early, slow, overdue>>
     \/ /\ State' = [State EXCEPT ![h] = "RUNNING"]
        /\ \E wait \in Waits : Begin("soft", h, wait)

(* A thread registers a timer that is not in use.  It does not run while a *)
(* soft interrupt is to be served.                                         *)
TimerRegister(h) ==
  /\ State[h] = "READY" /\ soft = {} /\ call["soft"] = Idle
  /\ \E wait \in Waits : Begin("thread", h, wait)
  /\ UNCHANGED <<State, soft>>

(* The next step of a registration.                                        *)
Continue(c) ==
  /\ c = "thread" => soft = {} /\ call["soft"] = Idle
  /\ AddTimer(c) \/ TimerSetNextTimer(c)

(* The clock ticks; a countdown that ends in this tick has to end first.   *)
Tick ==
  /\ alarm > 0
  /\ alarm' = alarm - 1
  /\ now' = (now + 1) % M
  /\ slow' = (slow \/ \E c \in Callers : call[c] # Idle)
  /\ left' = [h \in TimerSet |->
                IF h \in Timers \cup TimersOverflow /\ ~ slow' THEN Max({left[h] - 1, -3}) ELSE 0]
  /\ overdue' = (overdue /\ ~ slow')
  /\ UNCHANGED <<Timers, TimersOverflow, Weight, TimerLastTime, State, soft, call, crashed, early>>

TimerNext ==
  /\ ~ crashed
  /\ \/ Tick
     \/ TimerInterrupt
     \/ \E h \in TimerSet : SoftInterrupt(h) \/ TimerRegister(h)
     \/ \E c \in Callers : Continue(c)

TimerSpec == TimerStartup /\ [][TimerNext]_timerVars

-----------------------------------------------------------------------------

(* A registered timer is in one heap or on the soft list, never in two     *)
(* places and never in none, and it is QUEUED there; nobody else is, and a *)
(* timer whose registration is on its way cannot become so before that, so *)
(* that no assertion of handler.c fails.                                   *)
TimersKept ==
  /\ Timers \cap TimersOverflow = {}
  /\ soft \cap (Timers \cup TimersOverflow) = {}
  /\ \A h \in TimerSet : State[h] = "QUEUED" <=> h \in Timers \cup TimersOverflow \cup soft
  /\ \A c \in Callers : call[c].step = "add" => State[call[c].timer] \in {"READY", "RUNNING"}

(* Nobody waits for almost a turn of the clock.  After a wait of M - 2 the *)
(* interrupt may come at time 0 in two turns running and not before the    *)
(* second, and now < TimerLastTime does not tell it that the clock has     *)
(* overflowed.                                                             *)
WaitsShort == Waits \subseteq 0 .. M - 3

(* While registrations are done in the tick they begin in, have not an     *)
(* overflow of the clock between them and the interrupt, and find no timer *)
(* that is overdue, no timer runs before its time and none waits more than *)
(* a tick longer, over any overflow of the clock.                          *)
TimersOnTime ==
  WaitsShort /\ ~ slow /\ ~ overdue =>
     ~ early /\ \A h \in Timers \cup TimersOverflow : left[h] >= -1

(* "Lets update the hardware countdown" (timer.c:155): a registration sets *)
(* it so that every timer is served, one that is due already included.     *)
(* While registrations are done in their tick and meet no overflow, no     *)
(* timer waits more than two ticks longer than it should.                  *)
TimersServed == ~ slow => \A h \in Timers \cup TimersOverflow : left[h] >= -2
=============================================================================
