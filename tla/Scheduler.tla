----------------------------- MODULE Scheduler -----------------------------
(***************************************************************************)
(* The scheduler (kernel/scheduler.c) with the two things that drive it:   *)
(* the CRIT interrupt and its list of deferred handlers                    *)
(* (kernel/critinterrupt.c, kernel/handler.c) and Sleep (kernel/sleep.c),  *)
(* whose timers wake threads from a deferred handler.                      *)
(*                                                                         *)
(* There is one CPU.  mode says what it is doing:                          *)
(*   BOOT    main() before KernelStart, every interrupt masked;            *)
(*   NONE    a thread runs and the CRIT interrupt is not masked;           *)
(*   OPEN    the thread has entered a critical section;                    *)
(*   CLOSE   the critical section is done and CRIT is about to be enabled; *)
(*   ISR     CritInterrupt() is between two handlers;                      *)
(*   FINISH  a context switch has just been made on behalf of              *)
(*           SchedulerCritObject, which is still RUNNING.                  *)
(* Software interrupts (the timers) are masked only in BOOT, so their      *)
(* actions are possible in every other mode.                               *)
(***************************************************************************)
EXTENDS Lists, FiniteSets

CONSTANTS
  Threads,     \* the THREAD structures of the program
  IdleThread,  \* the thread of KernelStart
  Sleepers,    \* the threads that call Sleep
  Switch       \* &SchedulerCritObject, as an entry of the handler list

ASSUME ThreadsAssumption ==
  /\ IdleThread \notin Threads
  /\ Switch \notin Threads
  /\ Sleepers \subseteq Threads
  /\ IsFiniteSet(Threads)

VARIABLES
  ActiveThread,
  State,            \* thread->State; NONE before SchedulerCreateThread
  RunQueue,
  SchedulerMutex,
  critObject,       \* SchedulerCritObject.State
  CritList,         \* CritInterruptHandlerList, top first
  critPending,      \* the CRIT signal is raised and not delivered
  mode,
  fresh,            \* threads that have never been switched to
  pc,               \* where a thread is in Sleep, or why it is blocked
  timer,            \* the HANDLER_OBJECT of a thread in Sleep
  sleepSignal,      \* the SIGNAL of a thread in Sleep
  RunningThreads,
  Shutdown,
  halted            \* HalShutdownNow() was called

critVars == <<SchedulerMutex, critObject, CritList, critPending>>
threadVars == <<ActiveThread, State, RunQueue, fresh>>
sleepVars == <<pc, timer, sleepSignal>>
exitVars == <<RunningThreads, Shutdown, halted>>
schedVars == <<critVars, threadVars, sleepVars, exitVars, mode>>

SchedulerTypeOK ==
  /\ ActiveThread \in Threads \cup {IdleThread}
  /\ State \in [Threads -> {"NONE", "RUNNING", "BLOCKED", "DONE"}]
  /\ RunQueue \in Seq(Threads)
  /\ SchedulerMutex \in BOOLEAN
  /\ critObject \in {"READY", "QUEUED", "RUNNING"}
  /\ CritList \in Seq(Sleepers \cup {Switch})
  /\ critPending \in BOOLEAN
  /\ mode \in {"BOOT", "NONE", "OPEN", "CLOSE", "ISR", "FINISH"}
  /\ fresh \subseteq Threads
  /\ pc \in [Threads -> {"main", "armed", "asleep", "stalled"}]
  /\ timer \in [Threads -> {"READY", "TIMER", "CRIT"}]
  /\ sleepSignal \in [Threads -> BOOLEAN]
  /\ RunningThreads \in Nat
  /\ Shutdown \in BOOLEAN
  /\ halted \in BOOLEAN

(* KernelInit and SchedulerStartup; the idle thread is counted too.        *)
SchedulerStartup ==
  /\ ActiveThread = IdleThread
  /\ State = [t \in Threads |-> "NONE"]
  /\ RunQueue = <<>>
  /\ SchedulerMutex = FALSE
  /\ critObject = "READY"
  /\ CritList = <<>>
  /\ critPending = FALSE
  /\ mode = "BOOT"
  /\ fresh = {}
  /\ pc = [t \in Threads |-> "main"]
  /\ timer = [t \in Threads |-> "READY"]
  /\ sleepSignal = [t \in Threads |-> FALSE]
  /\ RunningThreads = 1
  /\ Shutdown = FALSE
  /\ halted = FALSE

-----------------------------------------------------------------------------
(* Helpers that run inside the actions.                                    *)

(* Bug: the interrupt is not raised.                                       *)
BugCritInterruptRegisterHandler(h) ==
  /\ CritList' = LinkedListPush(h, CritList)
  /\ UNCHANGED critPending

CritInterruptRegisterHandler(h) ==
  /\ CritList' = LinkedListPush(h, CritList)
  /\ critPending' = TRUE

(* The mutex that keeps a second switch from being requested.              *)
MutexLock == ~ SchedulerMutex /\ SchedulerMutex' = TRUE

MutexUnlock == SchedulerMutex' = FALSE

HandlerRegister == critObject' = "QUEUED"

HandlerRun == critObject' = "RUNNING"

HandlerFinish == critObject' = "READY"

(* One switch is requested at a time; a second request is dropped.         *)
SchedulerNeedsSwitch ==
  \/ /\ MutexLock
     /\ HandlerRegister
     /\ CritInterruptRegisterHandler(Switch)
  \/ SchedulerMutex /\ UNCHANGED critVars

ResumeState(t) == [State EXCEPT ![t] = "RUNNING"]

SchedulerResumeThread(t) ==
  /\ State' = ResumeState(t)
  /\ RunQueue' = LinkedListEnqueue(t, RunQueue)

BlockState(t) == [State EXCEPT ![t] = "BLOCKED"]

(* Bug: no switch is requested.                                            *)
BugSchedulerBlockThread ==
  /\ State' = BlockState(ActiveThread)
  /\ UNCHANGED critVars

SchedulerBlockThread ==
  /\ State' = BlockState(ActiveThread)
  /\ SchedulerNeedsSwitch

(* Bug: the active thread is put back in front.                            *)
BugSavedQueueFront ==
  IF ActiveThread # IdleThread /\ State[ActiveThread] = "RUNNING"
  THEN LinkedListPush(ActiveThread, RunQueue)
  ELSE RunQueue

(* The queue once the active thread has been put back, unless it is        *)
(* blocked, done or the idle thread.                                       *)
SavedQueue ==
  IF ActiveThread # IdleThread /\ State[ActiveThread] = "RUNNING"
  THEN LinkedListEnqueue(ActiveThread, RunQueue)
  ELSE RunQueue

Schedule ==
  /\ RunQueue' = IF SavedQueue = <<>> THEN <<>> ELSE Tail(SavedQueue)
  /\ ActiveThread' = IF SavedQueue = <<>> THEN IdleThread ELSE Head(SavedQueue)

-----------------------------------------------------------------------------
(* What a thread does.  Each operation is the body of a critical section.  *)

(* The CPU executes the active thread's own code.                          *)
ThreadCode == ~ halted /\ mode = "NONE" /\ ~ critPending /\ ActiveThread # IdleThread

SchedulerStartCritical ==
  /\ ThreadCode
  /\ mode' = "OPEN"
  /\ UNCHANGED <<critVars, threadVars, sleepVars, exitVars>>

Body(where) == mode = "OPEN" /\ pc[ActiveThread] = where /\ mode' = "CLOSE"

(* Called by main() before KernelStart, or by a thread; a structure whose  *)
(* thread is done may be used again.                                       *)
SchedulerCreateThread(t, start) ==
  /\ mode = "BOOT" \/ (mode = "OPEN" /\ pc[ActiveThread] = "main")
  /\ mode' = IF mode = "BOOT" THEN "BOOT" ELSE "CLOSE"
  /\ State[t] \in {"NONE", "DONE"}
  /\ RunningThreads' = RunningThreads + 1
  /\ fresh' = fresh \cup {t}
  /\ IF start
     THEN SchedulerResumeThread(t) /\ UNCHANGED pc
     ELSE State' = BlockState(t) /\ pc' = [pc EXCEPT ![t] = "stalled"] /\ UNCHANGED RunQueue
  /\ UNCHANGED <<critVars, ActiveThread, timer, sleepSignal, Shutdown, halted>>

(* A thread gives up the CPU.                                              *)
SchedulerForceSwitch ==
  /\ Body("main")
  /\ SchedulerNeedsSwitch
  /\ UNCHANGED <<threadVars, sleepVars, exitVars>>

(* A thread blocks until another one resumes it, as every lock makes it    *)
(* do through SchedulerBlockOnLock.                                        *)
SchedulerBlockOnLock ==
  /\ Body("main")
  /\ SchedulerBlockThread
  /\ pc' = [pc EXCEPT ![ActiveThread] = "stalled"]
  /\ UNCHANGED <<ActiveThread, RunQueue, fresh, timer, sleepSignal, exitVars>>

SchedulerWakeOnLock(t) ==
  /\ Body("main")
  /\ State[t] = "BLOCKED" /\ pc[t] = "stalled"
  /\ SchedulerResumeThread(t)
  /\ pc' = [pc EXCEPT ![t] = "main"]
  /\ UNCHANGED <<critVars, ActiveThread, fresh, timer, sleepSignal, exitVars>>

(* Sleep, first part: the timer is registered.                             *)
SleepRegister ==
  /\ ThreadCode
  /\ ActiveThread \in Sleepers /\ pc[ActiveThread] = "main"
  /\ timer' = [timer EXCEPT ![ActiveThread] = "TIMER"]
  /\ sleepSignal' = [sleepSignal EXCEPT ![ActiveThread] = FALSE]
  /\ pc' = [pc EXCEPT ![ActiveThread] = "armed"]
  /\ UNCHANGED <<critVars, threadVars, exitVars, mode>>

(* Bug: the signal is not looked at.                                       *)
BugSleepWait ==
  /\ Body("armed")
  /\ pc' = [pc EXCEPT ![ActiveThread] = "asleep"]
  /\ SchedulerBlockThread
  /\ UNCHANGED <<ActiveThread, RunQueue, fresh, timer, sleepSignal, exitVars>>

(* Sleep, second part: SignalWaitForSignal.                                *)
SleepWait ==
  /\ Body("armed")
  /\ \/ /\ sleepSignal[ActiveThread]
        /\ pc' = [pc EXCEPT ![ActiveThread] = "main"]
        /\ UNCHANGED <<critVars, State>>
     \/ /\ ~ sleepSignal[ActiveThread]
        /\ pc' = [pc EXCEPT ![ActiveThread] = "asleep"]
        /\ SchedulerBlockThread
  /\ UNCHANGED <<ActiveThread, RunQueue, fresh, timer, sleepSignal, exitVars>>

(* Bug: the idle thread is forgotten.                                      *)
BugOnlyIdleLeft(count) == count = 0

OnlyIdleLeft(count) == count = 1

(* The thread's main returned.  The last thread of a system that is        *)
(* shutting down stops the machine.                                        *)
SchedulerThreadExit ==
  /\ Body("main")
  /\ State' = [State EXCEPT ![ActiveThread] = "DONE"]
  /\ RunningThreads' = RunningThreads - 1
  /\ halted' = (Shutdown /\ OnlyIdleLeft(RunningThreads'))
  /\ IF halted' THEN UNCHANGED critVars ELSE SchedulerNeedsSwitch
  /\ UNCHANGED <<ActiveThread, RunQueue, fresh, sleepVars, Shutdown>>

SchedulerShutdown ==
  /\ Body("main")
  /\ Shutdown' = TRUE
  /\ UNCHANGED <<critVars, threadVars, sleepVars, RunningThreads, halted>>

(* KernelStart, and the end of every critical section: when the CRIT       *)
(* signal is pending it is delivered at once.                              *)
KernelStart ==
  /\ mode = "BOOT"
  /\ mode' = "CLOSE"
  /\ UNCHANGED <<critVars, threadVars, sleepVars, exitVars>>

SchedulerEndCritical ==
  /\ ~ halted /\ mode = "CLOSE"
  /\ mode' = IF critPending THEN "ISR" ELSE "NONE"
  /\ critPending' = FALSE
  /\ UNCHANGED <<SchedulerMutex, critObject, CritList, threadVars, sleepVars, exitVars>>

-----------------------------------------------------------------------------
(* The CRIT interrupt.                                                     *)

DeliverCrit ==
  /\ ~ halted /\ mode = "NONE" /\ critPending
  /\ mode' = "ISR"
  /\ critPending' = FALSE
  /\ UNCHANGED <<SchedulerMutex, critObject, CritList, threadVars, sleepVars, exitVars>>

Popped(h) == ~ halted /\ mode = "ISR" /\ CritList # <<>> /\ Head(CritList) = h /\ CritList' = Tail(CritList)

(* SignalSet wakes the thread if it waits already, then HandlerFinish.     *)
SleepCritHandler(t) ==
  /\ Popped(t)
  /\ timer' = [timer EXCEPT ![t] = "READY"]
  /\ sleepSignal' = [sleepSignal EXCEPT ![t] = TRUE]
  /\ \/ /\ pc[t] = "asleep"
        /\ SchedulerResumeThread(t)
        /\ pc' = [pc EXCEPT ![t] = "main"]
     \/ pc[t] # "asleep" /\ UNCHANGED <<State, RunQueue, pc>>
  /\ UNCHANGED <<SchedulerMutex, critObject, critPending, ActiveThread, fresh, exitVars, mode>>

SchedulerCritHandler ==
  /\ Popped(Switch)
  /\ HandlerRun
  /\ Schedule
  /\ mode' = "FINISH"
  /\ UNCHANGED <<SchedulerMutex, critPending, State, fresh, sleepVars, exitVars>>

(* Bug: the rest of the list is left to the next interrupt.                *)
BugSwitchDone ==
  /\ ~ halted /\ mode = "FINISH"
  /\ HandlerFinish
  /\ MutexUnlock
  /\ mode' = "CLOSE"
  /\ fresh' = fresh \ {ActiveThread}
  /\ UNCHANGED <<CritList, critPending, ActiveThread, State, RunQueue, sleepVars, exitVars>>

(* The thread that was switched to releases the switch: an old one goes on *)
(* in its own CritInterrupt(), a new one in SchedulerThreadStartup.        *)
SwitchDone ==
  /\ ~ halted /\ mode = "FINISH"
  /\ HandlerFinish
  /\ MutexUnlock
  /\ mode' = IF ActiveThread \in fresh THEN "CLOSE" ELSE "ISR"
  /\ fresh' = fresh \ {ActiveThread}
  /\ UNCHANGED <<CritList, critPending, ActiveThread, State, RunQueue, sleepVars, exitVars>>

CritInterruptReturn ==
  /\ ~ halted /\ mode = "ISR" /\ CritList = <<>>
  /\ mode' = "CLOSE"
  /\ UNCHANGED <<critVars, threadVars, sleepVars, exitVars>>

-----------------------------------------------------------------------------
(* Software interrupts: the timers.                                        *)

SoftPossible == ~ halted /\ mode # "BOOT"

(* The quantum of the active thread is over.  When it is not, the handler  *)
(* only registers itself again.                                            *)
SchedulerTimerHandler ==
  /\ SoftPossible
  /\ SchedulerNeedsSwitch
  /\ UNCHANGED <<threadVars, sleepVars, exitVars, mode>>

SleepTimerHandler(t) ==
  /\ SoftPossible
  /\ timer[t] = "TIMER"
  /\ timer' = [timer EXCEPT ![t] = "CRIT"]
  /\ CritInterruptRegisterHandler(t)
  /\ UNCHANGED <<SchedulerMutex, critObject, threadVars, pc, sleepSignal, exitVars, mode>>

(* exit(0)                                                                 *)
HalShutdownNow == halted /\ UNCHANGED schedVars

-----------------------------------------------------------------------------

ThreadStep ==
  \/ SchedulerStartCritical
  \/ \E t \in Threads, start \in BOOLEAN : SchedulerCreateThread(t, start)
  \/ SchedulerForceSwitch
  \/ SchedulerBlockOnLock
  \/ \E t \in Threads : SchedulerWakeOnLock(t)
  \/ SleepRegister
  \/ SleepWait
  \/ SchedulerThreadExit
  \/ SchedulerShutdown
  \/ KernelStart
  \/ SchedulerEndCritical

CritStep ==
  \/ DeliverCrit
  \/ \E t \in Sleepers : SleepCritHandler(t)
  \/ SchedulerCritHandler
  \/ SwitchDone
  \/ CritInterruptReturn

SoftStep ==
  \/ SchedulerTimerHandler
  \/ \E t \in Sleepers : SleepTimerHandler(t)

SchedulerNext == ThreadStep \/ CritStep \/ SoftStep \/ HalShutdownNow

SchedulerSpec == SchedulerStartup /\ [][SchedulerNext]_schedVars

(* The CPU executes instructions, a critical section ends, and the         *)
(* scheduler's timer, which registers itself again every tick, finds the   *)
(* quantum over again and again.  Whether a thread ever calls a given      *)
(* operation is its own choice, except that it does not stay inside a      *)
(* critical section.                                                       *)
SchedulerFairness ==
  /\ WF_schedVars(SchedulerEndCritical)
  /\ WF_schedVars(mode = "OPEN" /\ ThreadStep)
  /\ WF_schedVars(CritStep)
  /\ WF_schedVars(SchedulerTimerHandler)
  /\ WF_schedVars(KernelStart)

FairSchedulerSpec == SchedulerSpec /\ SchedulerFairness

-----------------------------------------------------------------------------

Alive == {t \in Threads : State[t] \in {"RUNNING", "BLOCKED"}}

(* A thread that is blocked or done never executes another instruction of  *)
(* its own, though it asks for the switch itself and the switch is made    *)
(* later by an interrupt: between the two it only leaves its critical      *)
(* section.  And the run queue Schedule takes the next thread from holds   *)
(* running threads only, each once, and not the active one once a switch   *)
(* is complete.                                                            *)
ThreadsSound ==
  /\ SchedulerTypeOK
  /\ mode \in {"NONE", "OPEN"} /\ ~ critPending /\ ActiveThread # IdleThread
        => State[ActiveThread] = "RUNNING"
  /\ \A t \in Nodes(RunQueue) : State[t] = "RUNNING"
  /\ Distinct(RunQueue)
  /\ mode \in {"NONE", "OPEN", "FINISH"} => ActiveThread \notin Nodes(RunQueue)

(* The mutex is held exactly while SchedulerCritObject is queued or        *)
(* running, the object is in the handler list exactly while it is QUEUED,  *)
(* and a sleeper's handler exactly while it was handed over: no handler is *)
(* in the list twice, and the assertions of HandlerRun, HandlerRegister    *)
(* and PostCritHandler hold.  A switch that was requested cannot be        *)
(* forgotten: while it is queued the CRIT signal is pending or             *)
(* CritInterrupt() is draining the list.                                   *)
HandlersSound ==
  /\ SchedulerMutex <=> critObject # "READY"
  /\ critObject = "QUEUED" <=> Switch \in Nodes(CritList)
  /\ critObject = "RUNNING" <=> mode = "FINISH"
  /\ \A t \in Threads : timer[t] = "CRIT" <=> t \in Nodes(CritList)
  /\ Distinct(CritList)
  /\ critObject = "QUEUED" => critPending \/ mode = "ISR"

(* SchedulerResumeThread's assertion: a sleeping thread is blocked when    *)
(* its handler comes to wake it; and there always is such a handler.       *)
SleeperHasWaker ==
  \A t \in Threads :
     /\ pc[t] = "asleep" => State[t] = "BLOCKED" /\ timer[t] # "READY"
     /\ timer[t] # "READY" => pc[t] \in {"armed", "asleep"} /\ ~ sleepSignal[t]

(* RunningThreads counts the idle thread and every thread that has been    *)
(* created and is not done; the machine stops when, and only when, the     *)
(* last of them ends after SchedulerShutdown.                              *)
ShutdownExact ==
  /\ RunningThreads = 1 + Cardinality(Alive)
  /\ halted => Shutdown /\ Alive = {}
  /\ Shutdown /\ ~ halted => Alive # {}

(* "List of threads which are eligable to run": outside CritInterrupt() a  *)
(* running thread that is not the active one is in the run queue.          *)
EligibleQueued ==
  mode \in {"NONE", "OPEN", "FINISH"} =>
     \A t \in Threads :
        State[t] = "RUNNING" /\ t # ActiveThread => t \in Nodes(RunQueue)

(* Every running thread gets the CPU again and again, unless the machine   *)
(* stops or the thread blocks: none is lost from the run queue, as long as *)
(* nobody sleeps.                                                          *)
RoundRobin ==
  [](\A t \in Sleepers : timer[t] = "READY") =>
     \A t \in Threads :
        State[t] = "RUNNING" ~> (ActiveThread = t \/ State[t] # "RUNNING" \/ halted)

(* A deferred handler does not stay in the list for ever, although a new   *)
(* thread leaves CritInterrupt() without draining it, provided the CPU     *)
(* gets back to thread code now and again (a quantum is longer than a      *)
(* pass through CritInterrupt()) and new threads stop appearing.           *)
HandlersRun ==
  []<>(mode = "NONE") /\ <>[](fresh = {}) =>
     \A t \in Sleepers : timer[t] = "CRIT" ~> (timer[t] # "CRIT" \/ halted)
=============================================================================
