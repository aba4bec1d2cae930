----------------------------- MODULE TimeProofs -----------------------------
(***************************************************************************)
(* The watchdog and the timers.  The watchdog is exact for any components  *)
(* and any timeout: WatchdogExact is an invariant of DogSpec.  No timer is *)
(* lost or doubled, for any number of timers, any clock and any waits:     *)
(* TimersKept is an invariant of TimerSpec.  None is early and, unless the *)
(* handlers are slow, none is late, as long as no wait is almost a turn of *)
(* the clock: TimersOnTime is an invariant of TimerSpec as well.           *)
(***************************************************************************)
EXTENDS Timer, Watchdog, WellFoundedInduction, TLAPS

(* The two operators of the library that pick one of two numbers.          *)
LEMMA LeastOfTwo ==
  ASSUME NEW a \in Int, NEW b \in Int
  PROVE  Min({a, b}) = IF a <= b THEN a ELSE b
  BY DEF Min

(* See LeastOfTwo.                                                         *)
LEMMA GreatestOfTwo ==
  ASSUME NEW a \in Int, NEW b \in Int
  PROVE  Max({a, b}) = IF a >= b THEN a ELSE b
  BY DEF Max

DogTypes ==
  /\ Timeout \in Nat \ {0}
  /\ dog \in 0 .. Timeout
  /\ WatchdogCurMask \subseteq WatchdogDesiredMask
  /\ WatchdogDesiredMask \subseteq Flags
  /\ barked \in BOOLEAN /\ panicked \in BOOLEAN
  /\ notifier \in WatchdogCurMask \cup {Nobody}
  /\ silence \in [Flags -> Nat]

(* A component that has not called since the dog was petted.               *)
Lags(f) == f \in fresh \/ silence[f] >= Timeout - dog

(* While the dog is quiet, silence is measured against the time since it   *)
(* was petted, Timeout - dog: those who have shown up were silent at most  *)
(* that long, those who have not at least that long, nobody for more than  *)
(* the round before and that; and somebody is missing still.               *)
Quiet ==
  /\ dog >= 1
  /\ \A f \in WatchdogDesiredMask :
       /\ f \in WatchdogCurMask /\ f # notifier => silence[f] <= Timeout - dog
       /\ f \notin WatchdogCurMask => Lags(f)
       /\ silence[f] <= (Timeout - 1) + (Timeout - dog)
  /\ WatchdogDesiredMask # {} =>
       \E f \in WatchdogDesiredMask : (f \notin WatchdogCurMask \/ f = notifier) /\ Lags(f)

(* Once it has barked there is somebody to blame.                          *)
Blamed ==
  WatchdogDesiredMask # {} =>
     \E f \in WatchdogDesiredMask : silence[f] >= Timeout \/ f \in fresh

DogInv ==
  /\ DogTypes
  /\ ~ barked => Quiet
  /\ barked => Blamed
  /\ panicked => barked

(* DogInv has WatchdogExact.                                               *)
LEMMA DogInvExact == DogInv => WatchdogExact
  BY DEF DogInv, DogTypes, Quiet, Blamed, WatchdogExact

(* WatchdogEnable starts the countdown, with nobody to wait for.           *)
LEMMA DogInvInit == WatchdogEnable => DogInv
<1> SUFFICES ASSUME WatchdogEnable PROVE DogInv
  OBVIOUS
<1> USE DEF WatchdogEnable
<1>1. Timeout \in Nat \ {0}
  BY DogAssumption
<1>2. DogTypes
  <2>1. dog \in 0 .. Timeout /\ silence \in [Flags -> Nat]
    BY <1>1
  <2>2. barked \in BOOLEAN /\ panicked \in BOOLEAN
    OBVIOUS
  <2> QED
    BY <1>1, <2>1, <2>2 DEF DogTypes
<1>3. Quiet
  BY <1>1 DEF Quiet
<1>4. ~ barked /\ ~ panicked
  OBVIOUS
<1> QED
  BY <1>2, <1>3, <1>4 DEF DogInv

(* Whoever is added has not called yet, and is missing.                    *)
LEMMA AddFlagInv ==
  ASSUME DogInv, NEW f \in Flags, WatchdogAddFlag(f)
  PROVE  DogInv'
<1> USE DEF DogInv, DogTypes, WatchdogAddFlag
<1>1. DogTypes'
  OBVIOUS
<1>2. ~ barked' => Quiet'
  <2> SUFFICES ASSUME ~ barked PROVE Quiet'
    OBVIOUS
  <2>1. f \in WatchdogDesiredMask' /\ f \notin WatchdogCurMask' /\ Lags(f)' /\ silence'[f] = 0
    BY DEF Lags
  <2>2. \A g \in WatchdogDesiredMask : g # f /\ silence'[g] = silence[g] /\ (Lags(g) => Lags(g)')
    BY DEF Lags
  <2> QED
    BY <2>1, <2>2 DEF Quiet
<1>3. barked' => Blamed'
  BY DEF Blamed
<1> QED
  BY <1>1, <1>2, <1>3

(* Somebody else is still missing, or the caller was the last.             *)
LEMMA NotifyFlagInv ==
  ASSUME DogInv, NEW f \in Flags, NotifyFlag(f)
  PROVE  DogInv'
<1> USE DEF DogInv, DogTypes, NotifyFlag
<1>1. DogTypes'
  OBVIOUS
<1>2. f # Nobody
  BY DogAssumption DEF Nobody
<1>3. ~ barked' => Quiet'
  <2> SUFFICES ASSUME ~ barked PROVE Quiet'
    OBVIOUS
  <2>1. \A g \in WatchdogDesiredMask : Lags(g)' <=> Lags(g)
    BY DEF Lags
  <2>2. PICK g \in WatchdogDesiredMask : g \notin WatchdogCurMask /\ Lags(g)
    BY DogAssumption DEF Quiet, Nobody
  <2>3. /\ WatchdogCurMask' = WatchdogCurMask \cup {f} /\ notifier' = f
        /\ notifier = Nobody /\ f # Nobody
    BY <1>2
  <2>4. g \notin WatchdogCurMask' \/ g = notifier'
    BY <2>2, <2>3
  <2>5. \A k \in WatchdogDesiredMask :
          /\ k \in WatchdogCurMask' /\ k # notifier' => silence[k] <= Timeout - dog
          /\ k \notin WatchdogCurMask' => Lags(k)
          /\ silence[k] <= (Timeout - 1) + (Timeout - dog)
    BY <2>3, DogAssumption DEF Quiet, Nobody
  <2> QED
    BY <2>1, <2>2, <2>4, <2>5 DEF Quiet
<1>4. barked' => Blamed'
  BY DEF Blamed
<1> QED
  BY <1>1, <1>3, <1>4

(* The call that completes the round begins the next one, in which all are *)
(* missing; any other leaves somebody who was missing.                     *)
LEMMA NotifyInv == DogInv /\ WatchdogNotify => DogInv'
<1> SUFFICES ASSUME DogInv, WatchdogNotify PROVE DogInv'
  OBVIOUS
<1> USE DEF DogInv, DogTypes, WatchdogNotify, NotifyPet, HalPetWatchdog
<1>1. notifier \in WatchdogCurMask /\ notifier' = Nobody
  OBVIOUS
<1>2. DogTypes'
  OBVIOUS
<1>3. ~ barked' => Quiet'
  <2> SUFFICES ASSUME ~ barked PROVE Quiet'
    OBVIOUS
  <2>1. silence' = [silence EXCEPT ![notifier] = 0] /\ fresh' = fresh \ {notifier}
    OBVIOUS
  <2>2. CASE WatchdogCurMask = WatchdogDesiredMask
    BY <1>1, <2>1, <2>2 DEF Quiet, Lags
  <2>3. CASE WatchdogCurMask # WatchdogDesiredMask
    <3>1. dog' = dog /\ WatchdogCurMask' = WatchdogCurMask
      BY <2>3
    <3>2. PICK g \in WatchdogDesiredMask : g \notin WatchdogCurMask
      BY <2>3
    <3>3. \A f \in WatchdogDesiredMask \ {notifier} :
            silence'[f] = silence[f] /\ (Lags(f) => Lags(f)')
      BY <2>1, <3>1 DEF Lags
    <3> QED
      BY <1>1, <2>1, <3>1, <3>2, <3>3 DEF Quiet
  <2> QED
    BY <2>2, <2>3
<1>4. barked' => Blamed'
  BY DEF Blamed
<1> QED
  BY <1>2, <1>3, <1>4

(* Silence and the time since the last pet grow together; when the         *)
(* countdown ends it has lasted for the whole timeout.                     *)
LEMMA DogTickInv == DogInv /\ DogTick => DogInv'
<1> SUFFICES ASSUME DogInv, DogTick PROVE DogInv'
  OBVIOUS
<1> USE DEF DogInv, DogTypes
<1>1. /\ WatchdogDesiredMask' = WatchdogDesiredMask /\ WatchdogCurMask' = WatchdogCurMask
      /\ Timeout' = Timeout /\ notifier' = notifier /\ panicked' = panicked /\ fresh' = fresh
      /\ barked' = (barked \/ dog = 1)
  BY DEF DogTick
<1>2. dog' = IF dog >= 1 THEN dog - 1 ELSE 0
  BY GreatestOfTwo DEF DogTick
<1>3. silence' \in [Flags -> Nat]
  BY LeastOfTwo DEF DogTick
<1>4. \A f \in WatchdogDesiredMask :
        silence'[f] = IF silence[f] + 1 <= 3 * Timeout THEN silence[f] + 1 ELSE 3 * Timeout
  BY LeastOfTwo DEF DogTick
<1>5. DogTypes'
  BY <1>1, <1>2, <1>3
<1>6. ~ barked' => Quiet'
  <2> SUFFICES ASSUME ~ barked' PROVE Quiet'
    OBVIOUS
  <2>1. ~ barked /\ Quiet /\ dog # 1
    BY <1>1
  <2>2. dog' = dog - 1 /\ dog' \in Nat /\ dog' >= 1
    BY <1>2, <2>1 DEF Quiet
  <2>3. \A f \in WatchdogDesiredMask : f \in Flags /\ silence[f] \in Nat
    OBVIOUS
  <2>4. \A f \in WatchdogDesiredMask :
          silence[f] <= (Timeout - 1) + (Timeout - dog) => silence'[f] = silence[f] + 1
    BY <1>4, <2>1, <2>2, <2>3
  <2>5. \A f \in WatchdogDesiredMask : silence'[f] = silence[f] + 1
    BY <2>1, <2>4 DEF Quiet
  <2>6. \A f \in WatchdogDesiredMask : Lags(f) => Lags(f)'
    BY <1>1, <2>2, <2>3, <2>5 DEF Lags
  <2>7. \A f \in WatchdogDesiredMask :
          /\ silence[f] <= Timeout - dog => silence'[f] <= Timeout - dog'
          /\ silence[f] <= (Timeout - 1) + (Timeout - dog)
                => silence'[f] <= (Timeout - 1) + (Timeout - dog')
    BY <2>2, <2>3, <2>5
  <2> QED
    BY <1>1, <2>1, <2>2, <2>6, <2>7 DEF Quiet
<1>7. barked' => Blamed'
  BY <1>1, <1>2, <1>4 DEF Quiet, Lags, Blamed
<1> QED
  BY <1>1, <1>5, <1>6, <1>7

(* Every step keeps the invariant.                                         *)
LEMMA DogInvStep == DogInv /\ [DogNext]_dogVars => DogInv'
<1> SUFFICES ASSUME DogInv, [DogNext]_dogVars PROVE DogInv'
  OBVIOUS
<1>1. CASE UNCHANGED dogVars
  BY <1>1 DEF dogVars, DogInv, DogTypes, Quiet, Lags, Blamed
<1>2. CASE WatchdogInterrupt
  BY <1>2 DEF WatchdogInterrupt, DogInv, DogTypes, Quiet, Lags, Blamed
<1> QED
  BY <1>1, <1>2, AddFlagInv, NotifyFlagInv, NotifyInv, DogTickInv DEF DogNext

(* Whatever components there are, whenever they are added and notify, and  *)
(* whatever the timeout: a component that stalls makes the dog bark within *)
(* twice the timeout, and it barks only when one has stalled for that long *)
(* or has never called.                                                    *)
THEOREM WatchdogAlwaysExact == DogSpec => []WatchdogExact
<1>1. DogSpec => []DogInv
  BY DogInvInit, DogInvStep, PTL DEF DogSpec
<1> QED
  BY <1>1, DogInvExact, PTL

-----------------------------------------------------------------------------

(* What a caller of TimerRegister knows before it adds its timer: the      *)
(* timer a thread registers is READY, the one that registers itself again  *)
(* is RUNNING, so the two are never the same.                              *)
CallsApart ==
  \A c \in Callers :
     call[c].step = "add" =>
        /\ call[c].timer \in TimerSet
        /\ call[c].time \in 0 .. M - 1
        /\ call[c].wait \in Waits
        /\ State[call[c].timer] = IF c = "thread" THEN "READY" ELSE "RUNNING"

(* Weights are times of the clock.                                         *)
TimerTypes ==
  /\ now \in 0 .. M - 1
  /\ Timers \subseteq TimerSet /\ TimersOverflow \subseteq TimerSet /\ soft \subseteq TimerSet
  /\ Weight \in [TimerSet -> 0 .. M - 1]
  /\ State \in [TimerSet -> {"READY", "QUEUED", "RUNNING"}]
  /\ DOMAIN call = Callers /\ call = [c \in Callers |-> call[c]]

(* Where timers are, without what follows from the types.                  *)
Placed ==
  /\ Timers \cap TimersOverflow = {}
  /\ soft \cap (Timers \cup TimersOverflow) = {}
  /\ \A h \in TimerSet : State[h] = "QUEUED" <=> h \in Timers \cup TimersOverflow \cup soft

TimerInv == TimerTypes /\ CallsApart /\ Placed

(* TimerInv has all of TimersKept.                                         *)
LEMMA TimerInvKept == TimerInv => TimersKept
  BY DEF TimerInv, CallsApart, Placed, TimersKept

(* TimerStartup leaves everything empty.                                   *)
LEMMA TimerInvInit == TimerStartup => TimerInv
  BY TimerAssumption DEF TimerStartup, TimerInv, TimerTypes, CallsApart, Placed, Callers, Idle

(* Times of the clock stay so under its arithmetic.                        *)
LEMMA ClockArithmetic ==
  ASSUME NEW a \in Int
  PROVE  a % M \in 0 .. M - 1
  BY TimerAssumption

(* The time a timer is due is one of the clock's.                          *)
LEMMA TimeOfTimer ==
  ASSUME NEW time \in 0 .. M - 1, NEW wait \in Waits
  PROVE  (time + wait) % M \in 0 .. M - 1
<1>1. wait \in 0 .. M - 1
  BY TimerAssumption
<1> QED
  BY <1>1, ClockArithmetic

(* The clock ticks: no timer moves.                                        *)
LEMMA TickInv == TimerInv /\ Tick => TimerInv'
<1> SUFFICES ASSUME TimerInv, Tick PROVE TimerInv'
  OBVIOUS
<1> USE DEF TimerInv, Tick
<1>1. now' \in 0 .. M - 1
  BY ClockArithmetic DEF TimerTypes
<1>2. TimerTypes'
  BY <1>1 DEF TimerTypes
<1>3. CallsApart' /\ Placed'
  BY DEF CallsApart, Placed
<1> QED
  BY <1>2, <1>3

(* The interrupt moves the expired timers to the soft list and leaves them *)
(* QUEUED, whether or not the heaps change places.                         *)
LEMMA InterruptInv == TimerInv /\ TimerInterrupt => TimerInv'
<1> SUFFICES ASSUME TimerInv, TimerInterrupt PROVE TimerInv'
  OBVIOUS
<1> DEFINE due == TimerInner.due
<1>1. /\ State' = State /\ soft' = soft \cup due /\ now' = now /\ call' = call
      /\ Timers' = TimerInner.rest
      /\ TimersOverflow' = IF TimerInner.swap THEN Timers \ due ELSE TimersOverflow
      /\ Weight' = [h \in TimerSet |-> IF h \in due THEN 0 ELSE Weight[h]]
  BY DEF TimerInterrupt, QueueTimers, Forget
<1>2. /\ due \subseteq Timers \cup TimersOverflow
      /\ Timers' \cup TimersOverflow' = (Timers \cup TimersOverflow) \ due
      /\ Timers' \cap TimersOverflow' = {}
  <2>1. CASE now < TimerLastTime
    <3>1. /\ due = Expired(M - 1, Timers) \cup Expired(now, TimersOverflow)
          /\ TimerInner.rest = TimersOverflow \ due /\ TimerInner.swap = TRUE
      BY <2>1 DEF TimerInner
    <3> QED
      BY <1>1, <3>1 DEF TimerInv, Placed, Expired
  <2>2. CASE ~ (now < TimerLastTime)
    <3>1. /\ due = Expired(now, Timers)
          /\ TimerInner.rest = Timers \ due /\ TimerInner.swap = FALSE
      BY <2>2 DEF TimerInner
    <3> QED
      BY <1>1, <3>1 DEF TimerInv, Placed, Expired
  <2> QED
    BY <2>1, <2>2
<1> HIDE DEF due
<1>3. TimerTypes'
  <2>1. Weight' \in [TimerSet -> 0 .. M - 1]
    BY <1>1, TimerAssumption DEF TimerInv, TimerTypes
  <2> QED
    BY <1>1, <1>2, <2>1 DEF TimerInv, TimerTypes
<1>4. CallsApart'
  BY <1>1 DEF TimerInv, CallsApart
<1>5. Placed'
  BY <1>1, <1>2 DEF TimerInv, TimerTypes, Placed
<1> QED
  BY <1>3, <1>4, <1>5 DEF TimerInv

(* A call of TimerRegister that begins records a timer that is in no heap. *)
LEMMA BeginInv ==
  ASSUME TimerInv, NEW c \in Callers, NEW h \in TimerSet, NEW wait \in Waits,
         Begin(c, h, wait),
         State' \in [TimerSet -> {"READY", "QUEUED", "RUNNING"}],
         State'[h] = IF c = "thread" THEN "READY" ELSE "RUNNING",
         soft' \subseteq soft,
         \A k \in TimerSet \ {h} : State'[k] = State[k] /\ (k \in soft' <=> k \in soft),
         h \notin soft' /\ h \notin Timers \cup TimersOverflow,
         \A d \in Callers \ {c} : call[d].step = "add" => call[d].timer # h
  PROVE  TimerInv'
<1>1. /\ call' = [call EXCEPT ![c] = [step |-> "add", timer |-> h, time |-> now, wait |-> wait]]
      /\ now' = now /\ Timers' = Timers /\ TimersOverflow' = TimersOverflow /\ Weight' = Weight
  BY DEF Begin
<1>2. TimerTypes'
  BY <1>1 DEF TimerInv, TimerTypes
<1>3. CallsApart'
  <2> SUFFICES ASSUME NEW d \in Callers, call'[d].step = "add"
               PROVE  /\ call'[d].timer \in TimerSet
                      /\ call'[d].time \in 0 .. M - 1
                      /\ call'[d].wait \in Waits
                      /\ State'[call'[d].timer] = IF d = "thread" THEN "READY" ELSE "RUNNING"
    BY DEF CallsApart
  <2>1. CASE d = c
    BY <1>1, <2>1 DEF TimerInv, TimerTypes
  <2>2. CASE d # c
    <3>1. call'[d] = call[d]
      BY <1>1, <2>2 DEF TimerInv, TimerTypes
    <3> QED
      BY <2>2, <3>1 DEF TimerInv, CallsApart
  <2> QED
    BY <2>1, <2>2
<1>4. Placed'
  BY <1>1 DEF TimerInv, TimerTypes, Placed
<1> QED
  BY <1>2, <1>3, <1>4 DEF TimerInv

(* A thread registers a READY timer, so one that is queued nowhere.        *)
LEMMA RegisterInv ==
  ASSUME TimerInv, NEW h \in TimerSet, TimerRegister(h)
  PROVE  TimerInv'
<1>1. PICK wait \in Waits : Begin("thread", h, wait)
  BY DEF TimerRegister
<1>2. State[h] = "READY" /\ call["soft"] = Idle /\ State' = State /\ soft' = soft
  BY DEF TimerRegister
<1>3. \A d \in Callers \ {"thread"} : call[d].step = "add" => call[d].timer # h
  BY <1>2 DEF Callers, Idle
<1>4. h \notin soft /\ h \notin Timers \cup TimersOverflow
  BY <1>2 DEF TimerInv, Placed
<1>5. State' \in [TimerSet -> {"READY", "QUEUED", "RUNNING"}] /\ "thread" \in Callers
  BY <1>2 DEF TimerInv, TimerTypes, Callers
<1> QED
  BY <1>1, <1>2, <1>3, <1>4, <1>5, BeginInv

(* The function of a timer runs: the timer leaves the soft list, and if it *)
(* registers itself again it is RUNNING until it is in a heap.             *)
LEMMA SoftInterruptInv ==
  ASSUME TimerInv, NEW h \in TimerSet, SoftInterrupt(h)
  PROVE  TimerInv'
<1>1. h \in soft /\ soft' = soft \ {h} /\ State[h] = "QUEUED"
      /\ h \notin Timers \cup TimersOverflow
  BY DEF SoftInterrupt, TimerInv, Placed
<1>2. \A d \in Callers : call[d].step = "add" => call[d].timer # h
  BY <1>1 DEF TimerInv, CallsApart
<1>3. CASE /\ State' = [State EXCEPT ![h] = "READY"]
           /\ UNCHANGED <<now, Timers, TimersOverflow, Weight, call>>
  <2>1. TimerTypes'
    BY <1>1, <1>3 DEF TimerInv, TimerTypes
  <2>2. CallsApart'
    BY <1>2, <1>3 DEF TimerInv, TimerTypes, CallsApart
  <2>3. Placed'
    BY <1>1, <1>3 DEF TimerInv, TimerTypes, Placed
  <2> QED
    BY <2>1, <2>2, <2>3 DEF TimerInv
<1>4. CASE /\ State' = [State EXCEPT ![h] = "RUNNING"]
           /\ \E wait \in Waits : Begin("soft", h, wait)
  <2>1. PICK wait \in Waits : Begin("soft", h, wait)
    BY <1>4
  <2>2. /\ State' \in [TimerSet -> {"READY", "QUEUED", "RUNNING"}] /\ State'[h] = "RUNNING"
        /\ \A k \in TimerSet \ {h} : State'[k] = State[k]
    BY <1>4 DEF TimerInv, TimerTypes
  <2>3. "soft" \in Callers
    BY DEF Callers
  <2> QED
    BY <1>1, <1>2, <2>1, <2>2, <2>3, BeginInv
<1> QED
  BY <1>3, <1>4 DEF SoftInterrupt

(* The timer goes into one of the heaps, in which it was not.              *)
LEMMA AddTimerInv ==
  ASSUME TimerInv, NEW c \in Callers, AddTimer(c)
  PROVE  TimerInv'
<1> DEFINE h == call[c].timer
           timerTime == (call[c].time + call[c].wait) % M
<1>1. /\ h \in TimerSet /\ call[c].step = "add"
      /\ State[h] = IF c = "thread" THEN "READY" ELSE "RUNNING"
  BY DEF AddTimer, TimerInv, CallsApart
<1>2. timerTime \in 0 .. M - 1
  <2>1. call[c].time \in 0 .. M - 1 /\ call[c].wait \in Waits
    BY <1>1 DEF TimerInv, CallsApart
  <2> QED
    BY <2>1, TimeOfTimer
<1>3. /\ State' = [State EXCEPT ![h] = "QUEUED"]
      /\ Weight' = [Weight EXCEPT ![h] = timerTime]
      /\ \/ Timers' = Timers \cup {h} /\ TimersOverflow' = TimersOverflow
         \/ TimersOverflow' = TimersOverflow \cup {h} /\ Timers' = Timers
      /\ call' = [call EXCEPT ![c] = [step |-> "look", time |-> call[c].time]]
      /\ now' = now /\ soft' = soft
  BY DEF AddTimer
<1> HIDE DEF timerTime
<1>4. TimerTypes'
  BY <1>1, <1>2, <1>3 DEF TimerInv, TimerTypes
<1>5. CallsApart'
  <2> SUFFICES ASSUME NEW d \in Callers, call'[d].step = "add"
               PROVE  /\ call'[d].timer \in TimerSet
                      /\ call'[d].time \in 0 .. M - 1
                      /\ call'[d].wait \in Waits
                      /\ State'[call'[d].timer] = IF d = "thread" THEN "READY" ELSE "RUNNING"
    BY DEF CallsApart
  <2>1. d # c /\ call'[d] = call[d]
    BY <1>3 DEF TimerInv, TimerTypes
  <2>2. /\ call[d].timer \in TimerSet /\ call[d].time \in 0 .. M - 1 /\ call[d].wait \in Waits
        /\ State[call[d].timer] = IF d = "thread" THEN "READY" ELSE "RUNNING"
    BY <2>1 DEF TimerInv, CallsApart
  <2>3. call[d].timer # h
    BY <1>1, <2>1, <2>2 DEF Callers
  <2> QED
    BY <1>3, <2>1, <2>2, <2>3 DEF TimerInv, TimerTypes
<1>6. Placed'
  BY <1>1, <1>3 DEF TimerInv, TimerTypes, Placed
<1> QED
  BY <1>4, <1>5, <1>6 DEF TimerInv

(* Setting the countdown moves no timer.                                   *)
LEMMA SetNextInv ==
  ASSUME TimerInv, NEW c \in Callers, TimerSetNextTimer(c)
  PROVE  TimerInv'
<1>1. PICK r : call' = [call EXCEPT ![c] = r] /\ r.step # "add"
  BY DEF TimerSetNextTimer, LookAtSize, LookAtHead, SetTimer, Idle
<1>2. UNCHANGED <<now, Timers, TimersOverflow, Weight, State, soft>>
  BY DEF TimerSetNextTimer, LookAtSize, LookAtHead, SetTimer
<1>3. TimerTypes' /\ Placed'
  BY <1>1, <1>2 DEF TimerInv, TimerTypes, Placed
<1>4. CallsApart'
  BY <1>1, <1>2 DEF TimerInv, TimerTypes, CallsApart
<1> QED
  BY <1>3, <1>4 DEF TimerInv

(* Every step keeps the invariant.                                         *)
LEMMA TimerInvStep == TimerInv /\ [TimerNext]_timerVars => TimerInv'
<1> SUFFICES ASSUME TimerInv, [TimerNext]_timerVars PROVE TimerInv'
  OBVIOUS
<1>1. CASE UNCHANGED timerVars
  BY <1>1 DEF timerVars, TimerInv, TimerTypes, CallsApart, Placed
<1>2. CASE Tick
  BY <1>2, TickInv
<1>3. CASE TimerInterrupt
  BY <1>3, InterruptInv
<1>4. CASE \E h \in TimerSet : SoftInterrupt(h)
  BY <1>4, SoftInterruptInv
<1>5. CASE \E h \in TimerSet : TimerRegister(h)
  BY <1>5, RegisterInv
<1>6. CASE \E c \in Callers : AddTimer(c) \/ TimerSetNextTimer(c)
  BY <1>6, AddTimerInv, SetNextInv
<1> QED
  BY <1>1, <1>2, <1>3, <1>4, <1>5, <1>6 DEF TimerNext, Continue

(* Whatever timers are registered, by threads or by themselves, and        *)
(* whenever the interrupt comes: none is lost, none is queued twice, and   *)
(* no assertion of handler.c or of TimerInner fails.                       *)
THEOREM TimersNeverLost == TimerSpec => []TimersKept
<1>1. TimerSpec => []TimerInv
  BY TimerInvInit, TimerInvStep, PTL DEF TimerSpec
<1> QED
  BY <1>1, TimerInvKept, PTL

-----------------------------------------------------------------------------

(* A time within a turn of the clock is itself, one in the next turn       *)
(* counts from the overflow.                                               *)
LEMMA TurnOfClock ==
  ASSUME NEW a \in 0 .. 2 * M - 1
  PROVE  a % M = IF a < M THEN a ELSE a - M
  BY TimerAssumption

(* The head of a heap that is not empty.                                   *)
LEMMA LeastWeight ==
  ASSUME NEW heap \in SUBSET TimerSet, heap # {}, Weight \in [TimerSet -> 0 .. M - 1]
  PROVE  \E k \in heap : /\ HeapHeadWeight(heap, Weight) = Weight[k]
                         /\ \A h \in heap : Weight[k] <= Weight[h]
<1> DEFINE S == {Weight[h] : h \in heap}
           R == OpToRel(<, Nat)
<1>1. S \subseteq Nat /\ S # {}
  BY TimerAssumption
<1>2. IsWellFoundedOn(R, Nat)
  BY NatLessThanWellFounded, Zenon
<1> HIDE DEF R, S
<1>3. PICK x \in S : \A y \in S : ~ (<<y, x>> \in R)
  BY <1>1, <1>2, WFMin
<1>4. \A y \in S : ~ (y < x)
  BY <1>1, <1>3, Zenon DEF R, OpToRel
<1>5. \A y \in S : x <= y
  BY <1>1, <1>4
<1>6. Min(S) \in S /\ \A y \in S : Min(S) <= y
  BY <1>5, Zenon DEF Min
<1> QED
  BY <1>6 DEF HeapHeadWeight, S

(* What TimerSetNextTimer computes when no timer of the heap is overdue.   *)
LEMMA CountdownExact ==
  ASSUME NEW time \in 0 .. M - 1, NEW heap \in SUBSET TimerSet,
         Weight \in [TimerSet -> 0 .. M - 1], \A h \in heap : Weight[h] >= time
  PROVE  /\ Countdown(time, heap) \in 0 .. M - 1
         /\ heap = {} => Countdown(time, heap) = IF time = 0 THEN 0 ELSE M - time
         /\ heap # {} => \E k \in heap : Countdown(time, heap) = Weight[k] - time
         /\ \A h \in heap : Countdown(time, heap) <= Weight[h] - time
<1>1. CASE heap = {}
  <2>1. Countdown(time, heap) = ((M - 1 - time) + 1) % M
    BY <1>1 DEF Countdown
  <2>2. (M - 1 - time) + 1 = M - time /\ M - time \in 0 .. 2 * M - 1
    BY TimerAssumption
  <2>3. Countdown(time, heap) = IF M - time < M THEN M - time ELSE (M - time) - M
    BY <2>1, <2>2, TurnOfClock
  <2> QED
    BY <1>1, <2>3, TimerAssumption
<1>2. CASE heap # {}
  <2>1. PICK k \in heap : /\ HeapHeadWeight(heap, Weight) = Weight[k]
                          /\ \A h \in heap : Weight[k] <= Weight[h]
    BY <1>2, LeastWeight
  <2>2. Countdown(time, heap) = (Weight[k] - time) % M
    BY <1>2, <2>1 DEF Countdown
  <2>3. Weight[k] \in 0 .. M - 1 /\ Weight[k] - time \in 0 .. M - 1
    BY TimerAssumption
  <2>4. Countdown(time, heap) = Weight[k] - time
    BY <2>2, <2>3, TurnOfClock, TimerAssumption
  <2>5. \A h \in heap : Weight[h] \in 0 .. M - 1
    OBVIOUS
  <2> QED
    BY <1>2, <2>1, <2>3, <2>4, <2>5, TimerAssumption
<1> QED
  BY <1>1, <1>2

(* The countdown HalSetTimer starts is no longer than it was told, but for *)
(* the one tick it waits at least.                                         *)
LEMMA CountdownStarts ==
  ASSUME NEW d \in 0 .. M - 1, HalSetTimer(d)
  PROVE  /\ alarm' \in 1 .. M
         /\ alarm' <= IF d = 0 THEN 1 ELSE d
<1>1. MaxAlarm \in Nat /\ MaxAlarm >= 1 /\ MaxAlarm <= M
  BY TimerAssumption
<1>2. Min({d, MaxAlarm}) = IF d <= MaxAlarm THEN d ELSE MaxAlarm
  BY <1>1, LeastOfTwo
<1> QED
  BY <1>1, <1>2, TimerAssumption DEF HalSetTimer

(* A registration that has added its timer and not set the countdown yet.  *)
Counting(c) == call[c].step \in {"look", "head", "rollover", "set"}

(* Nothing can run over caller c but the interrupt.                        *)
Alone(c) == c = "thread" => soft = {} /\ call["soft"] = Idle

Registered == Timers \cup TimersOverflow

(* Weights are read against the clock: a timer in Timers is due in this    *)
(* turn of the clock, one in TimersOverflow in the next.  The overflow is  *)
(* noticed by an interrupt in the same tick.                               *)
ClockRead ==
  /\ now < TimerLastTime =>
       /\ now = 0 /\ alarm = 0
       /\ \A h \in Timers : left[h] = Weight[h] - M
       /\ \A h \in TimersOverflow : left[h] = Weight[h]
  /\ now >= TimerLastTime =>
       /\ alarm <= M - now
       /\ \A h \in Timers : left[h] = Weight[h] - now
       /\ \A h \in TimersOverflow : left[h] = Weight[h] + M - now

(* The countdown ends with the first timer, or one tick later.             *)
CountdownSet ==
  ~ crashed /\ (\A c \in Callers : ~ Counting(c)) =>
     /\ \A h \in Registered : left[h] >= alarm - 1
     /\ now = 0 /\ TimerLastTime = 0 /\ Timers = {} => alarm <= 1

(* What caller c has read and computed still holds.                        *)
InTime(c) ==
  /\ call[c] # Idle => call[c].time = now
  /\ call[c].step = "add" => left[call[c].timer] = call[c].wait
  /\ Counting(c) => now >= TimerLastTime
  /\ call[c].step = "rollover" => Timers = {} /\ Alone(c)
  /\ call[c].step = "set" =>
       /\ call[c].delta \in 0 .. M - 1 /\ call[c].delta <= M - now
       /\ \A h \in Registered : left[h] >= call[c].delta
       /\ call[c].delta > 0 => Alone(c) /\ (Timers # {} \/ call[c].delta = M - now)

(* The clock does not come round from an interrupt at 0 to the next one:   *)
(* after it there is soon a timer that is due before the last tick.        *)
TurnNoticed ==
  /\ \A h \in TimersOverflow : Weight[h] <= M - 3
  /\ TimerLastTime = 0 /\ now = 0 => \A h \in Timers : Weight[h] <= M - 3
  /\ TimerLastTime = 0 /\ now > 0 =>
       \/ now = 1 /\ alarm = 0 /\ Timers = {} /\ \A c \in Callers : ~ Counting(c)
       \/ \E h \in Timers : Weight[h] <= M - 2

TimeTypes ==
  /\ alarm \in 0 .. M
  /\ TimerLastTime \in 0 .. M - 1
  /\ left \in [TimerSet -> Int]

Punctual ==
  /\ ~ early
  /\ \A h \in Registered : left[h] >= -1
  /\ ClockRead
  /\ CountdownSet
  /\ \A c \in Callers : InTime(c)
  /\ TurnNoticed

(* What the lemmas on the steps of the timers start from.                  *)
OnTimeBefore == TimerInv /\ TimeTypes /\ WaitsShort /\ Punctual /\ ~ crashed

(* The clock and the countdown go on together.  At the overflow the        *)
(* countdown has just ended, and TimerLastTime is not 0.                   *)
LEMMA PunctualTick ==
  ASSUME OnTimeBefore, Tick, ~ slow'
  PROVE  Punctual'
<1>0. TimerInv /\ TimeTypes /\ Punctual /\ ~ crashed
  BY DEF OnTimeBefore
<1>1. /\ now \in 0 .. M - 1 /\ alarm \in 1 .. M /\ TimerLastTime \in 0 .. M - 1
      /\ alarm' = alarm - 1 /\ now' = (now + 1) % M
      /\ Timers \subseteq TimerSet /\ TimersOverflow \subseteq TimerSet
      /\ Weight \in [TimerSet -> 0 .. M - 1] /\ left \in [TimerSet -> Int]
      /\ M \in Nat /\ M > 2
  BY <1>0, TimerAssumption DEF TimerInv, TimerTypes, TimeTypes, Tick
<1>2. /\ UNCHANGED <<Timers, TimersOverflow, Weight, TimerLastTime, call, crashed, early>>
      /\ \A c \in Callers : call[c] = Idle
  BY DEF Tick
<1>3. \A c \in Callers : ~ Counting(c) /\ InTime(c)'
  BY <1>2 DEF Counting, InTime, Idle
<1>4. \A h \in Registered : left[h] >= alarm - 1
  BY <1>0, <1>3 DEF Punctual, CountdownSet
<1>5. \A h \in Registered : left'[h] = left[h] - 1 /\ left[h] \in Int
  <2> SUFFICES ASSUME NEW h \in Registered PROVE left'[h] = left[h] - 1 /\ left[h] \in Int
    OBVIOUS
  <2>1. h \in TimerSet /\ left[h] \in Int /\ left[h] >= 0
    BY <1>1, <1>4 DEF Registered
  <2>2. left'[h] = Max({left[h] - 1, -3})
    BY <2>1 DEF Tick, Registered
  <2>3. Max({left[h] - 1, -3}) = IF left[h] - 1 >= -3 THEN left[h] - 1 ELSE -3
    BY <2>1, GreatestOfTwo
  <2> QED
    BY <2>1, <2>2, <2>3
<1>6. now >= TimerLastTime
  BY <1>0, <1>1 DEF Punctual, ClockRead
<1>7. /\ alarm <= M - now
      /\ \A h \in Timers : left[h] = Weight[h] - now
      /\ \A h \in TimersOverflow : left[h] = Weight[h] + M - now
  BY <1>0, <1>6 DEF Punctual, ClockRead
<1>8. Registered' = Registered
  BY <1>2 DEF Registered
<1>9. \A h \in Registered : left'[h] >= alarm' - 1 /\ left'[h] >= -1
  BY <1>1, <1>4, <1>5
<1>10. now + 1 = M => TimerLastTime # 0
  <2> SUFFICES ASSUME now + 1 = M, TimerLastTime = 0 PROVE FALSE
    OBVIOUS
  <2>1. now > 1
    BY <1>1
  <2>2. PICK h \in Timers : Weight[h] <= M - 2
    BY <1>0, <1>1, <2>1 DEF Punctual, TurnNoticed
  <2>3. left[h] = Weight[h] - now /\ left[h] >= alarm - 1 /\ Weight[h] \in Int
    BY <1>1, <1>4, <1>7 DEF Registered
  <2> QED
    BY <1>1, <2>2, <2>3
<1>11. now' = IF now + 1 < M THEN now + 1 ELSE 0
  BY <1>1, TurnOfClock
<1>12. ClockRead'
  <2>1. ASSUME NEW h \in Registered
        PROVE  /\ left'[h] = left[h] - 1 /\ left[h] \in Int /\ Weight[h] \in Int /\ Weight' = Weight
               /\ h \in Timers => left[h] = Weight[h] - now
               /\ h \in TimersOverflow => left[h] = Weight[h] + M - now
    BY <1>1, <1>2, <1>5, <1>7 DEF Registered
  <2>2. CASE now + 1 < M
    <3>1. now' = now + 1 /\ ~ (now' < TimerLastTime') /\ alarm' <= M - now'
      BY <1>1, <1>2, <1>6, <1>7, <1>11, <2>2
    <3>2. \A h \in Timers : left'[h] = Weight'[h] - now'
      BY <1>1, <2>1, <3>1 DEF Registered
    <3>3. \A h \in TimersOverflow : left'[h] = Weight'[h] + M - now'
      BY <1>1, <2>1, <3>1 DEF Registered
    <3> QED
      BY <1>2, <3>1, <3>2, <3>3 DEF ClockRead
  <2>3. CASE now + 1 = M
    <3>1. now' = 0 /\ now' < TimerLastTime' /\ alarm' = 0
      BY <1>1, <1>2, <1>7, <1>10, <1>11, <2>3
    <3>2. \A h \in Timers : left'[h] = Weight'[h] - M
      BY <1>1, <2>1, <2>3 DEF Registered
    <3>3. \A h \in TimersOverflow : left'[h] = Weight'[h]
      BY <1>1, <2>1, <2>3 DEF Registered
    <3>4. ~ (now' >= TimerLastTime')
      BY <1>1, <1>2, <3>1
    <3> QED
      BY <1>2, <3>1, <3>2, <3>3, <3>4 DEF ClockRead
  <2> QED
    BY <1>1, <2>2, <2>3
<1>13. CountdownSet'
  <2>1. ~ (now' = 0 /\ TimerLastTime' = 0)
    BY <1>1, <1>2, <1>10, <1>11
  <2> QED
    BY <1>8, <1>9, <2>1 DEF CountdownSet
<1>14. TurnNoticed'
  <2>1. \A h \in TimersOverflow : Weight[h] <= M - 3
    BY <1>0 DEF Punctual, TurnNoticed
  <2>2. ~ (TimerLastTime' = 0 /\ now' = 0)
    BY <1>1, <1>2, <1>10, <1>11
  <2>3. ASSUME TimerLastTime' = 0, now' > 0
        PROVE  \/ now' = 1 /\ alarm' = 0 /\ Timers' = {} /\ \A c \in Callers : ~ Counting(c)'
               \/ \E h \in Timers' : Weight'[h] <= M - 2
    <3>1. now' = now + 1 /\ TimerLastTime = 0 /\ Timers' = Timers /\ Weight' = Weight
      BY <1>1, <1>2, <1>11, <2>3
    <3>2. CASE now > 0
      BY <1>0, <1>1, <3>1, <3>2 DEF Punctual, TurnNoticed
    <3>3. CASE now = 0 /\ Timers = {}
      <4>1. alarm <= 1
        BY <1>0, <1>3, <3>1, <3>3 DEF Punctual, CountdownSet
      <4>2. \A c \in Callers : ~ Counting(c)'
        BY <1>2 DEF Counting, Idle
      <4>3. now' = 1 /\ alarm' = 0
        BY <1>1, <3>1, <3>3, <4>1
      <4> QED
        BY <3>1, <3>3, <4>2, <4>3
    <3>4. CASE now = 0 /\ Timers # {}
      <4>1. PICK h \in Timers : Weight[h] <= M - 3
        BY <1>0, <3>1, <3>4 DEF Punctual, TurnNoticed
      <4>2. Weight[h] \in Int
        BY <1>1
      <4>3. Weight[h] <= M - 2
        BY <1>1, <4>1, <4>2
      <4> QED
        BY <3>1, <4>3
    <3> QED
      BY <1>1, <3>2, <3>3, <3>4
  <2> QED
    BY <1>2, <2>1, <2>2, <2>3 DEF TurnNoticed
<1>15. ~ early'
  BY <1>0, <1>2 DEF Punctual
<1> QED
  BY <1>3, <1>8, <1>9, <1>12, <1>13, <1>14, <1>15 DEF Punctual

(* The interrupt queues what is due and no more, notices the overflow and  *)
(* starts the countdown to the next timer, or to the next overflow.        *)
LEMMA PunctualInterrupt ==
  ASSUME OnTimeBefore, TimerInterrupt
  PROVE  Punctual'
<1> DEFINE due == TimerInner.due
<1>0. TimerInv /\ TimeTypes /\ Punctual
  BY DEF OnTimeBefore
<1>1. /\ now \in 0 .. M - 1 /\ TimerLastTime \in 0 .. M - 1
      /\ Timers \subseteq TimerSet /\ TimersOverflow \subseteq TimerSet
      /\ Weight \in [TimerSet -> 0 .. M - 1] /\ left \in [TimerSet -> Int]
      /\ M \in Nat /\ M > 2
  BY <1>0, TimerAssumption DEF TimerInv, TimerTypes, TimeTypes
<1>2. /\ now' = now /\ call' = call /\ TimerLastTime' = now /\ crashed' = crashed
      /\ soft' = soft \cup due
      /\ early' = (early \/ \E h \in due : left[h] > 0)
      /\ Timers' = TimerInner.rest
      /\ TimersOverflow' = IF TimerInner.swap THEN Timers \ due ELSE TimersOverflow
      /\ HalSetTimer(Countdown(now, Timers'))
      /\ \A h \in TimerSet : h \notin due => left'[h] = left[h] /\ Weight'[h] = Weight[h]
  BY DEF TimerInterrupt, QueueTimers, Forget
<1>3. /\ \A h \in due : left[h] <= 0 /\ h \in Registered
      /\ \A h \in Timers' : h \notin due /\ Weight[h] > now /\ left[h] = Weight[h] - now
      /\ \A h \in TimersOverflow' : h \notin due /\ left[h] = Weight[h] + M - now
      /\ Registered' \subseteq Registered
      /\ \A h \in TimersOverflow' : Weight[h] <= M - 3
      /\ now = 0 => \A h \in Timers' : Weight[h] <= M - 3
  <2>0. \A h \in Registered : h \in TimerSet /\ Weight[h] \in 0 .. M - 1 /\ left[h] \in Int
    BY <1>1 DEF Registered
  <2>1. CASE now < TimerLastTime
    <3>1. /\ due = Expired(M - 1, Timers) \cup Expired(now, TimersOverflow)
          /\ TimerInner.rest = TimersOverflow \ due /\ TimerInner.swap = TRUE
      BY <2>1 DEF TimerInner
    <3>2. Expired(M - 1, Timers) = Timers
      BY <1>1, <2>0 DEF Expired, Registered
    <3>3. /\ due = Timers \cup Expired(now, TimersOverflow)
          /\ Timers' = TimersOverflow \ due /\ TimersOverflow' = {}
      BY <1>2, <3>1, <3>2
    <3>4. /\ now = 0
          /\ \A h \in Timers : left[h] = Weight[h] - M
          /\ \A h \in TimersOverflow : left[h] = Weight[h] /\ Weight[h] <= M - 3
      BY <1>0, <2>1 DEF Punctual, ClockRead, TurnNoticed
    <3> HIDE DEF due
    <3>5. \A h \in due : left[h] <= 0 /\ h \in Registered
      BY <1>1, <2>0, <3>3, <3>4 DEF Registered, Expired
    <3>6. \A h \in Timers' : h \notin due /\ h \in TimersOverflow /\ ~ (Weight[h] <= now)
      BY <3>3 DEF Expired
    <3>7. \A h \in Timers' : Weight[h] > now /\ left[h] = Weight[h] - now
      BY <1>1, <2>0, <3>4, <3>6 DEF Registered
    <3> QED
      BY <3>3, <3>4, <3>5, <3>6, <3>7 DEF Registered
  <2>2. CASE ~ (now < TimerLastTime)
    <3>1. /\ due = Expired(now, Timers)
          /\ TimerInner.rest = Timers \ due /\ TimerInner.swap = FALSE
      BY <2>2 DEF TimerInner
    <3>2. Timers' = Timers \ due /\ TimersOverflow' = TimersOverflow
      BY <1>2, <3>1
    <3>3. now >= TimerLastTime
      BY <1>1, <2>2
    <3>4. /\ \A h \in Timers : left[h] = Weight[h] - now
          /\ \A h \in TimersOverflow : left[h] = Weight[h] + M - now /\ Weight[h] <= M - 3
      BY <1>0, <3>3 DEF Punctual, ClockRead, TurnNoticed
    <3>5. now = 0 => \A h \in Timers : Weight[h] <= M - 3
      <4>1. now = 0 => TimerLastTime = 0
        BY <1>1, <3>3
      <4> QED
        BY <1>0, <4>1 DEF Punctual, TurnNoticed
    <3> HIDE DEF due
    <3>6. \A h \in due : left[h] <= 0 /\ h \in Registered /\ h \in Timers
      BY <1>1, <2>0, <3>1, <3>4 DEF Registered, Expired
    <3>7. \A h \in Timers' : h \notin due /\ h \in Timers /\ ~ (Weight[h] <= now)
      BY <3>1, <3>2 DEF Expired
    <3>8. \A h \in Timers' : Weight[h] > now /\ left[h] = Weight[h] - now
      BY <1>1, <2>0, <3>4, <3>7 DEF Registered
    <3>9. \A h \in TimersOverflow' : h \notin due
      BY <1>0, <3>2, <3>6 DEF TimerInv, Placed
    <3> QED
      BY <3>2, <3>4, <3>5, <3>6, <3>7, <3>8, <3>9 DEF Registered
  <2> QED
    BY <2>1, <2>2
<1> HIDE DEF due
<1>4. \A h \in Registered' : /\ h \in TimerSet /\ h \notin due
                             /\ left'[h] = left[h] /\ Weight'[h] = Weight[h]
                             /\ Weight[h] \in 0 .. M - 1 /\ left[h] \in Int
  BY <1>1, <1>2, <1>3 DEF Registered
<1>5. /\ alarm' \in 1 .. M /\ alarm' <= M - now
      /\ \A h \in Timers' : alarm' <= left[h]
      /\ now = 0 /\ Timers' = {} => alarm' <= 1
  <2>0. Timers' \in SUBSET TimerSet /\ \A h \in Timers' : Weight[h] >= now
    BY <1>1, <1>3, <1>4 DEF Registered
  <2> DEFINE d == Countdown(now, Timers')
  <2>1. /\ d \in 0 .. M - 1
        /\ Timers' = {} => d = IF now = 0 THEN 0 ELSE M - now
        /\ Timers' # {} => \E k \in Timers' : d = Weight[k] - now
        /\ \A h \in Timers' : d <= Weight[h] - now
    BY <1>1, <2>0, CountdownExact
  <2> HIDE DEF d
  <2>2. alarm' \in 1 .. M /\ alarm' <= IF d = 0 THEN 1 ELSE d
    BY <1>2, <2>1, CountdownStarts DEF d
  <2>3. CASE Timers' = {}
    BY <1>1, <2>1, <2>2, <2>3
  <2>4. CASE Timers' # {}
    <3>1. PICK k \in Timers' : d = Weight[k] - now
      BY <2>1, <2>4
    <3>2. Weight[k] \in 0 .. M - 1 /\ Weight[k] > now
      BY <1>3, <1>4 DEF Registered
    <3>3. d >= 1 /\ d <= M - now
      BY <1>1, <3>1, <3>2
    <3>4. alarm' <= d
      BY <2>1, <2>2, <3>3
    <3>5. \A h \in Timers' : d <= left[h] /\ left[h] \in Int
      BY <1>3, <1>4, <2>1 DEF Registered
    <3>6. d \in Int /\ alarm' \in Int /\ M - now \in Int
      BY <1>1, <2>1, <2>2
    <3> QED
      BY <2>2, <2>4, <3>3, <3>4, <3>5, <3>6
  <2> QED
    BY <2>3, <2>4
<1>6. ~ early'
  <2>1. \A h \in due : ~ (left[h] > 0)
    BY <1>1, <1>3 DEF Registered
  <2> QED
    BY <1>0, <1>2, <2>1 DEF Punctual
<1>7. \A h \in Registered' : left'[h] >= -1
  BY <1>0, <1>3, <1>4 DEF Punctual
<1>8. ClockRead'
  <2>1. ~ (now' < TimerLastTime')
    BY <1>1, <1>2
  <2>2. \A h \in Timers' : left'[h] = Weight'[h] - now'
    BY <1>2, <1>3, <1>4 DEF Registered
  <2>3. \A h \in TimersOverflow' : left'[h] = Weight'[h] + M - now'
    BY <1>2, <1>3, <1>4 DEF Registered
  <2> QED
    BY <1>2, <1>5, <2>1, <2>2, <2>3 DEF ClockRead
<1>9. CountdownSet'
  <2>1. ASSUME NEW h \in Timers' PROVE left'[h] >= alarm' - 1
    <3>1. left'[h] = left[h] /\ left[h] \in Int /\ alarm' <= left[h] /\ alarm' \in Int
      BY <1>4, <1>5 DEF Registered
    <3> QED
      BY <3>1
  <2>2. ASSUME NEW h \in TimersOverflow' PROVE left'[h] >= alarm' - 1
    <3>1. /\ left'[h] = Weight[h] + M - now /\ Weight[h] \in 0 .. M - 1
          /\ alarm' <= M - now /\ alarm' \in 1 .. M
      BY <1>3, <1>4, <1>5 DEF Registered
    <3> QED
      BY <1>1, <3>1
  <2> QED
    BY <1>2, <1>5, <2>1, <2>2 DEF CountdownSet, Registered
<1>10. TurnNoticed'
  <2>1. \A h \in TimersOverflow' : Weight'[h] <= M - 3
    BY <1>3, <1>4 DEF Registered
  <2>2. now = 0 => \A h \in Timers' : Weight'[h] <= M - 3
    BY <1>3, <1>4 DEF Registered
  <2>3. ~ (TimerLastTime' = 0 /\ now' > 0)
    BY <1>1, <1>2
  <2> QED
    BY <1>2, <2>1, <2>2, <2>3 DEF TurnNoticed
<1>11. ASSUME NEW c \in Callers PROVE InTime(c)'
  <2>0. InTime(c) /\ call'[c] = call[c] /\ (Counting(c)' <=> Counting(c))
    BY <1>0, <1>2 DEF Punctual, Counting
  <2>1. call'[c] # Idle => call'[c].time = now'
    BY <1>2, <2>0 DEF InTime
  <2>2. call'[c].step = "add" => left'[call'[c].timer] = call'[c].wait
    <3> SUFFICES ASSUME call[c].step = "add" PROVE left'[call[c].timer] = call[c].wait
      BY <2>0
    <3>1. call[c].timer \in TimerSet /\ call[c].timer \notin Registered
      BY <1>0 DEF TimerInv, CallsApart, Placed, Registered
    <3>2. call[c].timer \notin due
      BY <1>3, <3>1
    <3> QED
      BY <1>2, <2>0, <3>1, <3>2 DEF InTime
  <2>3. Counting(c)' => now' >= TimerLastTime'
    BY <1>1, <1>2
  <2>4. ASSUME Counting(c), \A h \in Timers : left[h] > 0
        PROVE  due = {} /\ Timers' = Timers
    <3>1. now >= TimerLastTime
      BY <2>0, <2>4 DEF InTime
    <3>2. \A h \in Timers : left[h] = Weight[h] - now
      BY <1>0, <3>1 DEF Punctual, ClockRead
    <3>3. due = Expired(now, Timers) /\ Timers' = Timers \ due
      <4>1. ~ (now < TimerLastTime)
        BY <1>1, <3>1
      <4>2. due = Expired(now, Timers) /\ TimerInner.rest = Timers \ due
        BY <4>1 DEF TimerInner, due
      <4> QED
        BY <1>2, <4>2
    <3>4. \A h \in Timers : ~ (Weight[h] <= now)
      BY <1>1, <2>4, <3>2
    <3> QED
      BY <3>3, <3>4 DEF Expired
  <2>5. call'[c].step = "rollover" => Timers' = {} /\ Alone(c)'
    <3> SUFFICES ASSUME call[c].step = "rollover" PROVE Timers' = {} /\ Alone(c)'
      BY <2>0
    <3>1. Timers = {} /\ Alone(c) /\ Counting(c)
      BY <2>0 DEF InTime, Counting
    <3>2. due = {} /\ Timers' = Timers
      BY <2>4, <3>1
    <3> QED
      BY <1>2, <3>1, <3>2 DEF Alone
  <2>6. ASSUME call[c].step = "set"
        PROVE  /\ call[c].delta \in 0 .. M - 1 /\ call[c].delta <= M - now
               /\ \A h \in Registered' : left'[h] >= call[c].delta
               /\ call[c].delta > 0 => Alone(c)' /\ (Timers' # {} \/ call[c].delta = M - now)
    <3>1. /\ call[c].delta \in 0 .. M - 1 /\ call[c].delta <= M - now
          /\ \A h \in Registered : left[h] >= call[c].delta
          /\ call[c].delta > 0 => Alone(c) /\ (Timers # {} \/ call[c].delta = M - now)
      BY <2>0, <2>6 DEF InTime
    <3>2. \A h \in Registered' : left'[h] >= call[c].delta
      BY <1>3, <1>4, <3>1
    <3>3. ASSUME call[c].delta > 0
          PROVE  Alone(c)' /\ (Timers' # {} \/ call[c].delta = M - now)
      <4>1. \A h \in Timers : left[h] > 0
        BY <1>1, <3>1, <3>3 DEF Registered
      <4>2. due = {} /\ Timers' = Timers
        BY <2>4, <2>6, <4>1 DEF Counting
      <4> QED
        BY <1>2, <3>1, <3>3, <4>2 DEF Alone
    <3> QED
      BY <3>1, <3>2, <3>3
  <2> QED
    BY <1>2, <2>0, <2>1, <2>2, <2>3, <2>5, <2>6 DEF InTime
<1> QED
  BY <1>6, <1>7, <1>8, <1>9, <1>10, <1>11 DEF Punctual

(* While caller d takes a step, nobody else has computed a countdown of    *)
(* more than one tick.                                                     *)
LEMMA OthersWait ==
  ASSUME OnTimeBefore, NEW c \in Callers, NEW d \in Callers, c # d,
         \/ c = "thread" /\ call["soft"] = Idle
         \/ c = "soft" /\ (soft # {} \/ call["soft"] # Idle)
  PROVE  /\ call[d].step # "rollover"
         /\ call[d].step = "set" => call[d].delta = 0
<1>1. InTime(d)
  BY DEF OnTimeBefore, Punctual
<1>2. CASE d = "soft"
  BY <1>2 DEF Idle, Callers
<1>3. CASE d = "thread"
  <2>1. ~ Alone(d)
    BY <1>3 DEF Alone, Callers
  <2> QED
    BY <1>1, <2>1, TimerAssumption DEF InTime
<1> QED
  BY <1>2, <1>3 DEF Callers

(* Whatever a step does to caller c, nothing changes for another one that  *)
(* is not alone, while the clock and the heaps stay as they are.           *)
LEMMA OtherInTime ==
  ASSUME OnTimeBefore, NEW d \in Callers, call'[d] = call[d],
         call[d].step # "rollover", call[d].step = "set" => call[d].delta = 0,
         UNCHANGED <<now, TimerLastTime>>,
         call[d].step = "add" => left'[call[d].timer] = left[call[d].timer],
         \A h \in Registered' : left'[h] >= 0 \/ (h \in Registered /\ left'[h] = left[h])
  PROVE  InTime(d)'
<1>1. InTime(d) /\ (Counting(d)' <=> Counting(d))
  BY DEF OnTimeBefore, Punctual, Counting
<1>2. ASSUME call[d].step = "set"
      PROVE  /\ call[d].delta = 0 /\ call[d].delta \in 0 .. M - 1 /\ call[d].delta <= M - now
             /\ \A h \in Registered' : left'[h] >= call[d].delta
             /\ ~ (call[d].delta > 0)
  <2>1. /\ call[d].delta = 0 /\ call[d].delta \in 0 .. M - 1 /\ call[d].delta <= M - now
        /\ \A h \in Registered : left[h] >= call[d].delta
    BY <1>1, <1>2 DEF InTime
  <2> QED
    BY <2>1
<1>3. (call[d] # Idle => call[d].time = now)' /\ (Counting(d) => now >= TimerLastTime)'
  BY <1>1 DEF InTime
<1>4. (call[d].step = "add" => left[call[d].timer] = call[d].wait)'
  BY <1>1 DEF InTime
<1>5. (call[d].step # "rollover")'
  OBVIOUS
<1>6. (call[d].step = "set" =>
        /\ call[d].delta \in 0 .. M - 1 /\ call[d].delta <= M - now
        /\ \A h \in Registered : left[h] >= call[d].delta
        /\ ~ (call[d].delta > 0))'
  BY <1>2
<1> QED
  BY <1>3, <1>4, <1>5, <1>6 DEF InTime

(* TimerRegister begins: its timer is in no heap yet.                      *)
LEMMA PunctualBegin ==
  ASSUME OnTimeBefore, ~ slow, NEW c \in Callers, NEW h \in TimerSet, NEW wait \in Waits,
         Begin(c, h, wait), h \notin Registered,
         \A d \in Callers \ {c} : call[d].step = "add" => call[d].timer # h,
         \/ c = "thread" /\ call["soft"] = Idle
         \/ c = "soft" /\ soft # {}
  PROVE  Punctual'
<1>0. TimerInv /\ TimeTypes /\ Punctual
  BY DEF OnTimeBefore
<1>1. /\ call' = [call EXCEPT ![c] = [step |-> "add", timer |-> h, time |-> now, wait |-> wait]]
      /\ call[c] = Idle
      /\ left' = [left EXCEPT ![h] = wait]
      /\ UNCHANGED <<now, alarm, Timers, TimersOverflow, Weight, TimerLastTime, crashed, early>>
  BY DEF Begin
<1>2. DOMAIN call = Callers /\ left \in [TimerSet -> Int] /\ Registered \subseteq TimerSet
  BY <1>0 DEF TimerInv, TimerTypes, TimeTypes, Registered
<1>3. /\ Registered' = Registered
      /\ \A k \in Registered : left'[k] = left[k]
      /\ \A d \in Callers : d # c => call'[d] = call[d]
      /\ call'[c] = [step |-> "add", timer |-> h, time |-> now, wait |-> wait]
      /\ left'[h] = wait
  BY <1>1, <1>2 DEF Registered
<1>4. \A d \in Callers : Counting(d)' <=> Counting(d)
  BY <1>1, <1>3 DEF Counting, Idle
<1>5. ~ early' /\ (\A k \in Registered' : left'[k] >= -1)
  BY <1>0, <1>1, <1>3 DEF Punctual
<1>6. ClockRead'
  <2>1. \A k \in Timers : left'[k] = left[k]
    BY <1>3 DEF Registered
  <2>2. \A k \in TimersOverflow : left'[k] = left[k]
    BY <1>3 DEF Registered
  <2> QED
    BY <1>0, <1>1, <2>1, <2>2 DEF Punctual, ClockRead
<1>7. CountdownSet'
  BY <1>0, <1>1, <1>3, <1>4 DEF Punctual, CountdownSet
<1>8. TurnNoticed'
  BY <1>0, <1>1, <1>4 DEF Punctual, TurnNoticed
<1>9. ASSUME NEW d \in Callers PROVE InTime(d)'
  <2>1. CASE d = c
    BY <1>1, <1>3, <2>1 DEF InTime, Counting
  <2>2. CASE d # c
    <3>1. call[d].step # "rollover" /\ (call[d].step = "set" => call[d].delta = 0)
      BY <2>2, OthersWait
    <3>2. call[d].step = "add" => left'[call[d].timer] = left[call[d].timer]
      BY <1>0, <1>1, <1>2, <2>2 DEF TimerInv, CallsApart
    <3> QED
      BY <1>1, <1>3, <2>2, <3>1, <3>2, OtherInTime
  <2> QED
    BY <2>1, <2>2
<1> QED
  BY <1>5, <1>6, <1>7, <1>8, <1>9 DEF Punctual

(* A timer's function that finishes leaves clock, heaps and calls alone.   *)
LEMMA PunctualFinish ==
  ASSUME OnTimeBefore, soft' \subseteq soft,
         UNCHANGED <<now, alarm, Timers, TimersOverflow, Weight, TimerLastTime, call, crashed,
                     left, early>>
  PROVE  Punctual'
<1>1. \A c \in Callers : (Counting(c)' <=> Counting(c)) /\ (Alone(c) => Alone(c)')
  BY DEF Counting, Alone
<1>2. Registered' = Registered
  BY DEF Registered
<1>3. ClockRead' /\ CountdownSet' /\ TurnNoticed'
  BY <1>1, <1>2 DEF OnTimeBefore, Punctual, ClockRead, CountdownSet, TurnNoticed
<1>4. ASSUME NEW c \in Callers PROVE InTime(c)'
  BY <1>1, <1>2 DEF OnTimeBefore, Punctual, InTime
<1> QED
  BY <1>2, <1>3, <1>4 DEF OnTimeBefore, Punctual

(* The timer goes into the heap in which its weight says when it is due.   *)
LEMMA PunctualAdd ==
  ASSUME OnTimeBefore, NEW c \in Callers, AddTimer(c), ~ slow',
         c = "thread" => soft = {} /\ call["soft"] = Idle
  PROVE  Punctual'
<1> DEFINE h == call[c].timer
           wait == call[c].wait
           timerTime == (call[c].time + call[c].wait) % M
<1>0. TimerInv /\ TimeTypes /\ Punctual /\ WaitsShort
  BY DEF OnTimeBefore
<1>1. /\ now \in 0 .. M - 1 /\ TimerLastTime \in 0 .. M - 1 /\ DOMAIN call = Callers
      /\ Timers \subseteq TimerSet /\ TimersOverflow \subseteq TimerSet
      /\ Weight \in [TimerSet -> 0 .. M - 1] /\ left \in [TimerSet -> Int]
      /\ M \in Nat /\ M > 2
  BY <1>0, TimerAssumption DEF TimerInv, TimerTypes, TimeTypes
<1>2. /\ h \in TimerSet /\ h \notin Registered /\ call[c].step = "add" /\ call[c] # Idle
      /\ call[c].time = now /\ left[h] = wait /\ wait \in 0 .. M - 3
  <2>1. call[c].step = "add" /\ call[c] # Idle
    BY DEF AddTimer, Idle
  <2>2. call[c].time = now /\ left[h] = wait
    BY <1>0, <2>1 DEF Punctual, InTime
  <2>3. h \in TimerSet /\ wait \in Waits /\ State[h] # "QUEUED"
    BY <1>0, <2>1 DEF TimerInv, CallsApart
  <2>4. h \notin Registered
    BY <1>0, <2>3 DEF TimerInv, Placed, Registered
  <2> QED
    BY <1>0, <2>1, <2>2, <2>3, <2>4 DEF WaitsShort
<1>3. /\ ~ (now < TimerLastTime) /\ left' = left
      /\ Weight' = [Weight EXCEPT ![h] = timerTime]
      /\ IF timerTime >= call[c].time
         THEN Timers' = Timers \cup {h} /\ TimersOverflow' = TimersOverflow
         ELSE TimersOverflow' = TimersOverflow \cup {h} /\ Timers' = Timers
      /\ call' = [call EXCEPT ![c] = [step |-> "look", time |-> call[c].time]]
      /\ UNCHANGED <<now, alarm, TimerLastTime, soft, crashed, early>>
  BY DEF AddTimer, Target
<1>4. timerTime = IF now + wait < M THEN now + wait ELSE now + wait - M
  <2>1. call[c].time + call[c].wait = now + wait /\ now + wait \in 0 .. 2 * M - 1
    BY <1>1, <1>2
  <2>2. PICK a \in 0 .. 2 * M - 1 : a = now + wait /\ timerTime = a % M
    BY <2>1
  <2>3. a % M = IF a < M THEN a ELSE a - M
    BY TurnOfClock
  <2> QED
    BY <1>1, <1>2, <2>2, <2>3
<1> HIDE DEF h, wait, timerTime
<1>5. /\ now + wait < M =>
            Weight'[h] = now + wait /\ Timers' = Timers \cup {h} /\ TimersOverflow' = TimersOverflow
      /\ ~ (now + wait < M) =>
            /\ Weight'[h] = now + wait - M
            /\ TimersOverflow' = TimersOverflow \cup {h} /\ Timers' = Timers
  <2>1. Weight'[h] = timerTime
    BY <1>1, <1>2, <1>3
  <2>2. timerTime >= call[c].time <=> now + wait < M
    BY <1>1, <1>2, <1>4
  <2> QED
    BY <1>3, <1>4, <2>1, <2>2
<1>6. /\ Registered' = Registered \cup {h}
      /\ \A k \in Registered : Weight'[k] = Weight[k] /\ k # h /\ k \in TimerSet
      /\ \A d \in Callers : d # c => call'[d] = call[d]
      /\ call'[c] = [step |-> "look", time |-> now]
  <2>1. Registered' = Registered \cup {h}
    BY <1>3 DEF Registered
  <2> QED
    BY <1>1, <1>2, <1>3, <2>1 DEF Registered
<1>7. now >= TimerLastTime
  BY <1>1, <1>3
<1>8. Counting(c)' /\ ~ (\A d \in Callers : ~ Counting(d)')
  BY <1>6 DEF Counting
<1>9. ~ early' /\ (\A k \in Registered' : left'[k] >= -1)
  BY <1>0, <1>2, <1>3, <1>6 DEF Punctual
<1>10. ClockRead'
  <2>1. /\ alarm <= M - now
        /\ \A k \in Timers : left[k] = Weight[k] - now
        /\ \A k \in TimersOverflow : left[k] = Weight[k] + M - now
    BY <1>0, <1>7 DEF Punctual, ClockRead
  <2>2. \A k \in Timers' : left'[k] = Weight'[k] - now'
    <3> SUFFICES ASSUME NEW k \in Timers' PROVE left'[k] = Weight'[k] - now'
      OBVIOUS
    <3>1. CASE k = h
      <4>1. now + wait < M
        BY <1>2, <1>5, <3>1 DEF Registered
      <4> QED
        BY <1>1, <1>2, <1>3, <1>5, <3>1, <4>1
    <3>2. CASE k # h
      BY <1>3, <1>5, <1>6, <2>1, <3>2 DEF Registered
    <3> QED
      BY <3>1, <3>2
  <2>3. \A k \in TimersOverflow' : left'[k] = Weight'[k] + M - now'
    <3> SUFFICES ASSUME NEW k \in TimersOverflow' PROVE left'[k] = Weight'[k] + M - now'
      OBVIOUS
    <3>1. CASE k = h
      <4>1. ~ (now + wait < M)
        BY <1>2, <1>5, <3>1 DEF Registered
      <4> QED
        BY <1>1, <1>2, <1>3, <1>5, <3>1, <4>1
    <3>2. CASE k # h
      BY <1>3, <1>5, <1>6, <2>1, <3>2 DEF Registered
    <3> QED
      BY <3>1, <3>2
  <2> QED
    BY <1>3, <2>1, <2>2, <2>3 DEF ClockRead
<1>11. CountdownSet'
  BY <1>8 DEF CountdownSet
<1>12. TurnNoticed'
  <2>0. TurnNoticed
    BY <1>0 DEF Punctual
  <2>1. \A k \in TimersOverflow' : Weight'[k] <= M - 3
    <3>1. ~ (now + wait < M) => Weight'[h] <= M - 3
      BY <1>1, <1>2, <1>5
    <3>2. \A k \in TimersOverflow : Weight'[k] <= M - 3
      BY <1>6, <2>0 DEF TurnNoticed, Registered
    <3> QED
      BY <1>5, <3>1, <3>2
  <2>2. TimerLastTime = 0 /\ now = 0 => \A k \in Timers' : Weight'[k] <= M - 3
    <3> SUFFICES ASSUME TimerLastTime = 0, now = 0, NEW k \in Timers' PROVE Weight'[k] <= M - 3
      OBVIOUS
    <3>1. now + wait < M /\ Weight'[h] <= M - 3
      BY <1>1, <1>2, <1>5
    <3>2. \A g \in Timers : Weight'[g] <= M - 3
      BY <1>6, <2>0 DEF TurnNoticed, Registered
    <3> QED
      BY <1>5, <3>1, <3>2
  <2>3. TimerLastTime = 0 /\ now > 0 => \E k \in Timers' : Weight'[k] <= M - 2
    <3> SUFFICES ASSUME TimerLastTime = 0, now > 0 PROVE \E k \in Timers' : Weight'[k] <= M - 2
      OBVIOUS
    <3>1. CASE now = 1
      <4>1. now + wait < M /\ Weight'[h] <= M - 2
        BY <1>1, <1>2, <1>5, <3>1
      <4> QED
        BY <1>5, <4>1
    <3>2. CASE \E k \in Timers : Weight[k] <= M - 2
      <4>1. PICK k \in Timers : Weight[k] <= M - 2
        BY <3>2
      <4> QED
        BY <1>5, <1>6, <4>1 DEF Registered
    <3> QED
      BY <2>0, <3>1, <3>2 DEF TurnNoticed
  <2> QED
    BY <1>3, <2>1, <2>2, <2>3 DEF TurnNoticed
<1>13. ASSUME NEW d \in Callers PROVE InTime(d)'
  <2>1. CASE d = c
    BY <1>3, <1>6, <1>7, <2>1 DEF InTime, Counting
  <2>2. CASE d # c
    <3>1. call[d].step # "rollover" /\ (call[d].step = "set" => call[d].delta = 0)
      BY <1>2, <2>2, OthersWait DEF Callers
    <3>2. \A k \in Registered' : left'[k] >= 0 \/ (k \in Registered /\ left'[k] = left[k])
      BY <1>2, <1>3, <1>6
    <3> QED
      BY <1>3, <1>6, <2>2, <3>1, <3>2, OtherInTime
  <2> QED
    BY <2>1, <2>2
<1> QED
  BY <1>9, <1>10, <1>11, <1>12, <1>13 DEF Punctual

(* A step of TimerSetNextTimer that moves nothing but call[c].             *)
Computes(c, r) ==
  /\ call' = [call EXCEPT ![c] = r]
  /\ UNCHANGED <<now, Timers, TimersOverflow, Weight, TimerLastTime, soft, left, early>>

(* Then only the countdown and what the caller itself has computed are to  *)
(* be looked at.                                                           *)
LEMMA PunctualComputes ==
  ASSUME OnTimeBefore, NEW c \in Callers, NEW r, Computes(c, r), Counting(c),
         c = "thread" => soft = {} /\ call["soft"] = Idle,
         InTime(c)', CountdownSet', alarm' <= M - now
  PROVE  Punctual'
<1>0. TimerInv /\ TimeTypes /\ Punctual
  BY DEF OnTimeBefore
<1>1. /\ now \in 0 .. M - 1 /\ TimerLastTime \in 0 .. M - 1 /\ DOMAIN call = Callers
      /\ M \in Nat /\ M > 2
  BY <1>0, TimerAssumption DEF TimerInv, TimerTypes, TimeTypes
<1>2. /\ \A d \in Callers : d # c => call'[d] = call[d]
      /\ Registered' = Registered
      /\ UNCHANGED <<now, Timers, TimersOverflow, Weight, TimerLastTime, soft, left, early>>
  BY <1>1 DEF Computes, Registered
<1>3. now >= TimerLastTime /\ ~ (now < TimerLastTime) /\ call[c] # Idle
  <2>1. InTime(c)
    BY <1>0, Zenon DEF Punctual
  <2>2. call[c] # Idle
    BY DEF Counting, Idle
  <2>3. now >= TimerLastTime
    BY <2>1, Zenon DEF InTime
  <2> QED
    BY <1>1, <2>2, <2>3
<1>4. ~ early' /\ (\A h \in Registered' : left'[h] >= -1)
  BY <1>0, <1>2 DEF Punctual
<1>5. ClockRead'
  BY <1>0, <1>2, <1>3 DEF Punctual, ClockRead
<1>6. TurnNoticed'
  BY <1>0, <1>2 DEF Punctual, TurnNoticed
<1>7. ASSUME NEW d \in Callers PROVE InTime(d)'
  <2>1. CASE d # c
    <3>1. call[d].step # "rollover" /\ (call[d].step = "set" => call[d].delta = 0)
      BY <1>3, <2>1, OthersWait DEF Callers
    <3> QED
      BY <1>2, <2>1, <3>1, OtherInTime
  <2> QED
    BY <2>1
<1> QED
  BY <1>4, <1>5, <1>6, <1>7 DEF Punctual

(* It looks whether there are timers.                                      *)
LEMMA PunctualLook ==
  ASSUME OnTimeBefore, NEW c \in Callers, LookAtSize(c),
         c = "thread" => soft = {} /\ call["soft"] = Idle
  PROVE  Punctual'
<1>0. TimerInv /\ Punctual /\ InTime(c) /\ Counting(c) /\ call[c] # Idle
  BY DEF OnTimeBefore, Punctual, LookAtSize, Counting, Idle
<1>1. PICK r : /\ r = [step |-> IF Timers # {} THEN "head" ELSE "rollover", time |-> call[c].time]
               /\ Computes(c, r)
  BY DEF LookAtSize, Computes
<1>2. alarm' = alarm /\ now' = now /\ TimerLastTime' = TimerLastTime /\ Timers' = Timers
      /\ soft' = soft
  BY DEF LookAtSize
<1>3. call'[c] = r /\ \A d \in Callers : d # c => call'[d] = call[d]
  BY <1>0, <1>1 DEF Computes, TimerInv, TimerTypes
<1>4. r.time = now /\ now >= TimerLastTime
  BY <1>0, <1>1 DEF InTime
<1>5. Counting(c)'
  <2>1. r.step \in {"head", "rollover"}
    BY <1>1
  <2> QED
    BY <1>3, <2>1 DEF Counting
<1>6. CountdownSet'
  BY <1>5 DEF CountdownSet
<1>7. InTime(c)'
  <2>1. r.step = "rollover" => Timers' = {}
    BY <1>1, <1>2
  <2>2. Alone(c)'
    BY <1>2, <1>3 DEF Alone, Callers
  <2>3. r.step # "add" /\ r.step # "set"
    BY <1>1
  <2> QED
    BY <1>2, <1>3, <1>4, <2>1, <2>2, <2>3 DEF InTime
<1>8. alarm' <= M - now
  BY <1>0, <1>2, <1>4 DEF Punctual, ClockRead
<1> QED
  BY <1>0, <1>1, <1>6, <1>7, <1>8, PunctualComputes

(* It computes the countdown from the head of the heap.                    *)
LEMMA PunctualHead ==
  ASSUME OnTimeBefore, NEW c \in Callers, LookAtHead(c), ~ overdue',
         c = "thread" => soft = {} /\ call["soft"] = Idle
  PROVE  Punctual'
<1>0. /\ TimerInv /\ TimeTypes /\ Punctual /\ InTime(c) /\ Counting(c) /\ call[c] # Idle
      /\ call[c].step \in {"head", "rollover"}
  <2>1. call[c].step \in {"head", "rollover"}
    BY DEF LookAtHead
  <2>2. Counting(c) /\ call[c] # Idle
    BY <2>1 DEF Counting, Idle
  <2>3. TimerInv /\ TimeTypes /\ Punctual /\ InTime(c)
    BY DEF OnTimeBefore, Punctual
  <2> QED
    BY <2>1, <2>2, <2>3
<1>1. /\ now \in 0 .. M - 1 /\ TimerLastTime \in 0 .. M - 1 /\ DOMAIN call = Callers
      /\ Timers \subseteq TimerSet /\ TimersOverflow \subseteq TimerSet
      /\ Weight \in [TimerSet -> 0 .. M - 1] /\ left \in [TimerSet -> Int]
      /\ M \in Nat /\ M > 2
  BY <1>0, TimerAssumption DEF TimerInv, TimerTypes, TimeTypes
<1>2. /\ alarm' = alarm /\ now' = now /\ TimerLastTime' = TimerLastTime /\ Timers' = Timers
      /\ soft' = soft /\ left' = left /\ TimersOverflow' = TimersOverflow
      /\ \A h \in Timers : ~ (left[h] < 0)
  BY DEF LookAtHead
<1>3. call[c].time = now /\ now >= TimerLastTime
  BY <1>0 DEF InTime
<1>4. alarm' <= M - now
  BY <1>0, <1>2, <1>3 DEF Punctual, ClockRead
<1>5. CASE crashed'
  <2>1. Computes(c, Idle)
    BY <1>5 DEF LookAtHead, Computes
  <2>2. call'[c] = Idle
    BY <1>1, <2>1 DEF Computes
  <2>3. InTime(c)'
    <3>1. call'[c].step = "idle" /\ ~ Counting(c)'
      BY <2>2 DEF Counting, Idle
    <3> QED
      BY <2>2, <3>1 DEF InTime
  <2>4. CountdownSet'
    BY <1>5 DEF CountdownSet
  <2> QED
    BY <1>0, <1>4, <2>1, <2>3, <2>4, PunctualComputes
<1>6. CASE ~ crashed'
  <2> DEFINE d == Countdown(now, Timers)
  <2>1. (IF call[c].step = "head" THEN Timers ELSE {}) = Timers
    BY <1>0 DEF InTime
  <2>2. PICK r : r = [step |-> "set", time |-> now, delta |-> d] /\ Computes(c, r)
    BY <1>3, <1>6, <2>1 DEF LookAtHead, Computes
  <2>3. \A h \in Timers : /\ left[h] = Weight[h] - now /\ Weight[h] >= now
                          /\ Weight[h] \in 0 .. M - 1 /\ left[h] \in Int
    <3>1. \A h \in Timers : left[h] = Weight[h] - now /\ Weight[h] \in 0 .. M - 1
      BY <1>0, <1>1, <1>3 DEF Punctual, ClockRead
    <3> QED
      BY <1>1, <1>2, <3>1
  <2>4. /\ d \in 0 .. M - 1
        /\ Timers = {} => d = IF now = 0 THEN 0 ELSE M - now
        /\ Timers # {} => \E k \in Timers : d = Weight[k] - now
        /\ \A h \in Timers : d <= Weight[h] - now
    BY <1>1, <2>3, CountdownExact
  <2> HIDE DEF d
  <2>5. d <= M - now
    BY <1>1, <2>3, <2>4
  <2>6. \A h \in Registered' : left'[h] >= d
    <3>1. \A h \in Timers : left[h] >= d
      BY <2>3, <2>4
    <3>2. \A h \in TimersOverflow : left[h] = Weight[h] + M - now /\ Weight[h] \in 0 .. M - 1
      BY <1>0, <1>1, <1>3 DEF Punctual, ClockRead
    <3>3. \A h \in TimersOverflow : left[h] >= d
      BY <1>1, <2>4, <2>5, <3>2
    <3> QED
      BY <1>2, <3>1, <3>3 DEF Registered
  <2>7. /\ call'[c] = r /\ \A e \in Callers : e # c => call'[e] = call[e]
        /\ r.step = "set" /\ r.time = now /\ r.delta = d
    BY <1>1, <2>2 DEF Computes
  <2>8. Counting(c)'
    BY <2>7 DEF Counting
  <2>9. CountdownSet'
    BY <2>8 DEF CountdownSet
  <2>10. Alone(c)'
    BY <1>2, <2>7 DEF Alone, Callers
  <2>11. d > 0 => Timers' # {} \/ d = M - now
    BY <1>2, <2>4
  <2>12. InTime(c)'
    BY <1>2, <1>3, <2>4, <2>5, <2>6, <2>7, <2>10, <2>11 DEF InTime
  <2> QED
    BY <1>0, <1>4, <2>2, <2>9, <2>12, PunctualComputes
<1> QED
  BY <1>5, <1>6

(* It starts the countdown, which then ends in time for every timer.       *)
LEMMA PunctualSet ==
  ASSUME OnTimeBefore, NEW c \in Callers, SetTimer(c),
         c = "thread" => soft = {} /\ call["soft"] = Idle
  PROVE  Punctual'
<1> DEFINE d == call[c].delta
<1>0. /\ TimerInv /\ TimeTypes /\ Punctual /\ InTime(c) /\ Counting(c) /\ call[c].step = "set"
  BY DEF OnTimeBefore, Punctual, SetTimer, Counting, Idle
<1>1. /\ now \in 0 .. M - 1 /\ DOMAIN call = Callers
      /\ Timers \subseteq TimerSet /\ TimersOverflow \subseteq TimerSet
      /\ left \in [TimerSet -> Int] /\ M \in Nat /\ M > 2
  BY <1>0, TimerAssumption DEF TimerInv, TimerTypes, TimeTypes
<1>2. /\ now' = now /\ TimerLastTime' = TimerLastTime /\ Timers' = Timers
      /\ left' = left /\ TimersOverflow' = TimersOverflow
      /\ HalSetTimer(d) /\ Computes(c, Idle)
  BY DEF SetTimer, Computes
<1>3. /\ d \in 0 .. M - 1 /\ d <= M - now
      /\ \A h \in Registered : left[h] >= d
      /\ d > 0 => Timers # {} \/ d = M - now
  BY <1>0 DEF InTime
<1> HIDE DEF d
<1>4. alarm' \in 1 .. M /\ alarm' <= IF d = 0 THEN 1 ELSE d
  BY <1>2, <1>3, CountdownStarts
<1>5. alarm' <= M - now
  BY <1>1, <1>3, <1>4
<1>6. \A h \in Registered' : left'[h] >= alarm' - 1
  <2>1. \A h \in Registered : left[h] \in Int
    BY <1>1 DEF Registered
  <2> QED
    BY <1>2, <1>3, <1>4, <2>1 DEF Registered
<1>7. now = 0 /\ Timers = {} => alarm' <= 1
  BY <1>1, <1>3, <1>4
<1>8. CountdownSet'
  BY <1>2, <1>6, <1>7 DEF CountdownSet
<1>9. call'[c] = Idle
  BY <1>1, <1>2 DEF Computes
<1>10. InTime(c)'
  BY <1>9 DEF InTime, Counting, Idle
<1> QED
  BY <1>0, <1>2, <1>5, <1>8, <1>10, PunctualComputes

(* What TimerSetNextTimer computes is a time of the clock.                 *)
LEMMA CountdownType ==
  ASSUME NEW time \in 0 .. M - 1, NEW heap \in SUBSET TimerSet,
         Weight \in [TimerSet -> 0 .. M - 1]
  PROVE  Countdown(time, heap) \in 0 .. M - 1
<1>1. CASE heap = {}
  BY <1>1, ClockArithmetic, TimerAssumption DEF Countdown
<1>2. CASE heap # {}
  <2>1. PICK k \in heap : HeapHeadWeight(heap, Weight) = Weight[k]
    BY <1>2, LeastWeight
  <2>2. Weight[k] - time \in Int
    BY TimerAssumption
  <2> QED
    BY <1>2, <2>1, <2>2, ClockArithmetic DEF Countdown
<1> QED
  BY <1>1, <1>2

(* Every step keeps the types.                                             *)
LEMMA TimeTypesStep ==
  ASSUME OnTimeBefore, TimerNext, ~ slow', TimerInv'
  PROVE  TimeTypes'
<1>0. /\ alarm \in 0 .. M /\ TimerLastTime \in 0 .. M - 1 /\ left \in [TimerSet -> Int]
      /\ now \in 0 .. M - 1 /\ Weight \in [TimerSet -> 0 .. M - 1]
      /\ M \in Nat /\ M > 2
  BY TimerAssumption DEF OnTimeBefore, TimeTypes, TimerInv, TimerTypes
<1>1. CASE Tick
  <2>1. alarm' \in 0 .. M /\ TimerLastTime' = TimerLastTime
    BY <1>0, <1>1 DEF Tick
  <2>2. \A h \in TimerSet : Max({left[h] - 1, -3}) \in Int
    BY <1>0, GreatestOfTwo
  <2>3. left' \in [TimerSet -> Int]
    BY <1>1, <2>2 DEF Tick
  <2> QED
    BY <1>0, <2>1, <2>3 DEF TimeTypes
<1>2. CASE TimerInterrupt
  <2>1. TimerLastTime' = now /\ left' \in [TimerSet -> Int]
    BY <1>0, <1>2 DEF TimerInterrupt, Forget
  <2>2. Timers' \in SUBSET TimerSet /\ HalSetTimer(Countdown(now, Timers'))
    BY <1>2 DEF TimerInterrupt, TimerInv, TimerTypes
  <2>3. Countdown(now, Timers') \in 0 .. M - 1
    BY <1>0, <2>2, CountdownType
  <2>4. alarm' \in 0 .. M
    BY <1>0, <2>2, <2>3, CountdownStarts
  <2> QED
    BY <1>0, <2>1, <2>4 DEF TimeTypes
<1>3. ASSUME NEW c \in Callers, NEW h \in TimerSet, NEW wait \in Waits, Begin(c, h, wait)
      PROVE  TimeTypes'
  <2>1. wait \in Int
    BY TimerAssumption
  <2>2. left' \in [TimerSet -> Int]
    BY <1>0, <1>3, <2>1 DEF Begin
  <2> QED
    BY <1>0, <1>3, <2>2 DEF Begin, TimeTypes
<1>4. ASSUME NEW h \in TimerSet, SoftInterrupt(h) \/ TimerRegister(h)
      PROVE  TimeTypes'
  BY <1>0, <1>3, <1>4 DEF SoftInterrupt, TimerRegister, TimeTypes, Callers
<1>5. ASSUME NEW c \in Callers, AddTimer(c) \/ LookAtSize(c) \/ LookAtHead(c)
      PROVE  TimeTypes'
  BY <1>0, <1>5 DEF AddTimer, LookAtSize, LookAtHead, TimeTypes
<1>6. ASSUME NEW c \in Callers, SetTimer(c)
      PROVE  TimeTypes'
  <2>1. call[c].delta \in 0 .. M - 1
    BY <1>6 DEF OnTimeBefore, Punctual, InTime, SetTimer
  <2>2. alarm' \in 0 .. M
    BY <1>0, <1>6, <2>1, CountdownStarts DEF SetTimer
  <2> QED
    BY <1>0, <1>6, <2>2 DEF SetTimer, TimeTypes
<1> QED
  BY <1>1, <1>2, <1>4, <1>5, <1>6 DEF TimerNext, Continue, TimerSetNextTimer

(* Every step keeps the timers on time.                                    *)
LEMMA PunctualStep ==
  ASSUME OnTimeBefore, TimerNext, ~ slow, ~ slow', ~ overdue'
  PROVE  Punctual'
<1>0. TimerInv
  BY DEF OnTimeBefore
<1>1. ASSUME NEW h \in TimerSet, SoftInterrupt(h)
      PROVE  Punctual'
  <2>1. h \in soft /\ soft' = soft \ {h} /\ h \notin Registered /\ State[h] = "QUEUED"
    BY <1>0, <1>1 DEF SoftInterrupt, TimerInv, Placed, Registered
  <2>2. \A d \in Callers : call[d].step = "add" => call[d].timer # h
    BY <1>0, <2>1 DEF TimerInv, CallsApart
  <2>3. CASE UNCHANGED <<now, alarm, Timers, TimersOverflow, Weight, TimerLastTime, call, crashed,
                         left, early>>
    BY <2>1, <2>3, PunctualFinish
  <2>4. CASE \E wait \in Waits : Begin("soft", h, wait)
    <3>1. PICK wait \in Waits : Begin("soft", h, wait)
      BY <2>4
    <3>2. "soft" \in Callers /\ soft # {}
      BY <2>1 DEF Callers
    <3> QED
      BY <2>1, <2>2, <3>1, <3>2, PunctualBegin
  <2> QED
    BY <1>1, <2>3, <2>4 DEF SoftInterrupt
<1>2. ASSUME NEW h \in TimerSet, TimerRegister(h)
      PROVE  Punctual'
  <2>1. PICK wait \in Waits : Begin("thread", h, wait)
    BY <1>2 DEF TimerRegister
  <2>2. State[h] = "READY" /\ call["soft"] = Idle /\ "thread" \in Callers
    BY <1>2 DEF TimerRegister, Callers
  <2>3. \A d \in Callers \ {"thread"} : call[d].step = "add" => call[d].timer # h
    BY <2>2 DEF Callers, Idle
  <2>4. h \notin Registered
    BY <1>0, <2>2 DEF TimerInv, Placed, Registered
  <2> QED
    BY <2>1, <2>2, <2>3, <2>4, PunctualBegin
<1>3. ASSUME NEW c \in Callers, Continue(c)
      PROVE  Punctual'
  <2>1. c = "thread" => soft = {} /\ call["soft"] = Idle
    BY <1>3 DEF Continue
  <2>2. CASE AddTimer(c)
    BY <2>1, <2>2, PunctualAdd
  <2>3. CASE LookAtSize(c)
    BY <2>1, <2>3, PunctualLook
  <2>4. CASE LookAtHead(c)
    BY <2>1, <2>4, PunctualHead
  <2>5. CASE SetTimer(c)
    BY <2>1, <2>5, PunctualSet
  <2> QED
    BY <1>3, <2>2, <2>3, <2>4, <2>5 DEF Continue, TimerSetNextTimer
<1> QED
  BY <1>1, <1>2, <1>3, PunctualTick, PunctualInterrupt DEF TimerNext

(* The inductive invariant.                                                *)
OnTimeInv == WaitsShort /\ ~ slow /\ ~ overdue => TimeTypes /\ Punctual

(* TimerStartup starts a countdown of one tick, with no timers.            *)
LEMMA OnTimeInvInit == TimerStartup => OnTimeInv
<1> SUFFICES ASSUME TimerStartup PROVE TimeTypes /\ Punctual
  BY DEF OnTimeInv
<1> USE TimerAssumption DEF TimerStartup
<1>1. TimeTypes
  BY DEF TimeTypes
<1>2. Registered = {} /\ \A c \in Callers : call[c] = Idle /\ ~ Counting(c)
  BY DEF Registered, Counting, Idle
<1>3. ClockRead /\ CountdownSet /\ TurnNoticed /\ ~ early
  BY <1>2 DEF ClockRead, CountdownSet, TurnNoticed
<1>4. \A c \in Callers : InTime(c)
  BY <1>2 DEF InTime, Idle
<1> QED
  BY <1>1, <1>2, <1>3, <1>4 DEF Punctual

(* It is kept by every step: slow stays, and overdue stays unless slow     *)
(* begins.                                                                 *)
LEMMA OnTimeInvStep == TimerInv /\ TimerInv' /\ OnTimeInv /\ [TimerNext]_timerVars => OnTimeInv'
<1> SUFFICES ASSUME TimerInv, TimerInv', OnTimeInv, [TimerNext]_timerVars,
                    WaitsShort, ~ slow', ~ overdue'
             PROVE  TimeTypes' /\ Punctual'
  BY DEF OnTimeInv, WaitsShort
<1>1. CASE TimerNext
  <2>1. ~ slow /\ ~ overdue
    <3>1. CASE Tick
      BY <3>1, Zenon DEF Tick
    <3>2. CASE TimerInterrupt
      BY <3>2 DEF TimerInterrupt
    <3>3. ASSUME NEW h \in TimerSet, SoftInterrupt(h) \/ TimerRegister(h)
          PROVE  ~ slow /\ ~ overdue
      BY <3>3 DEF SoftInterrupt, TimerRegister, Begin
    <3>4. ASSUME NEW c \in Callers, AddTimer(c)
          PROVE  ~ slow /\ ~ overdue
      BY <3>4, Zenon DEF AddTimer
    <3>5. ASSUME NEW c \in Callers, TimerSetNextTimer(c)
          PROVE  ~ slow /\ ~ overdue
      <4>1. slow' = slow /\ (overdue' = overdue \/ LookAtHead(c))
        BY <3>5 DEF TimerSetNextTimer, LookAtSize, LookAtHead, SetTimer
      <4>2. LookAtHead(c) => ~ overdue
        BY Zenon DEF LookAtHead
      <4> QED
        BY <4>1, <4>2
    <3> QED
      BY <1>1, <3>1, <3>2, <3>3, <3>4, <3>5 DEF TimerNext, Continue
  <2>2. OnTimeBefore
    BY <1>1, <2>1 DEF OnTimeInv, OnTimeBefore, TimerNext
  <2> QED
    BY <1>1, <2>1, <2>2, TimeTypesStep, PunctualStep
<1>2. CASE UNCHANGED timerVars
  <2>1. TimeTypes /\ Punctual
    BY <1>2 DEF OnTimeInv, timerVars
  <2>2. TimeTypes' /\ Registered' = Registered
    BY <1>2, <2>1 DEF TimeTypes, timerVars, Registered
  <2>3. \A c \in Callers : (Counting(c)' <=> Counting(c)) /\ (Alone(c)' <=> Alone(c))
    BY <1>2 DEF timerVars, Counting, Alone
  <2>4. ClockRead' /\ CountdownSet' /\ TurnNoticed'
    BY <1>2, <2>1, <2>2, <2>3 DEF Punctual, ClockRead, CountdownSet, TurnNoticed, timerVars
  <2>5. \A c \in Callers : InTime(c)'
    BY <1>2, <2>1, <2>2, <2>3 DEF Punctual, InTime, timerVars
  <2> QED
    BY <1>2, <2>1, <2>2, <2>4, <2>5 DEF Punctual, timerVars
<1> QED
  BY <1>1, <1>2

(* Whatever timers there are, whoever registers them, and over any number  *)
(* of overflows of the clock: while registrations are done in their tick,  *)
(* meet no overflow unnoticed and no overdue timer, none runs before its   *)
(* time and none waits more than a tick longer.                            *)
THEOREM TimersAlwaysOnTime == TimerSpec => []TimersOnTime
<1>1. OnTimeInv => TimersOnTime
  BY DEF OnTimeInv, Punctual, TimersOnTime, Registered
<1>2. TimerSpec => []TimerInv
  BY TimerInvInit, TimerInvStep, PTL DEF TimerSpec
<1> QED
  BY <1>1, <1>2, OnTimeInvInit, OnTimeInvStep, PTL DEF TimerSpec
=============================================================================
