--------------------------- MODULE SchedulerProofs ---------------------------
(***************************************************************************)
(* Proofs about the scheduler, for any number of threads and sleepers: the *)
(* run queue and the active thread, the CRIT handler list, the sleeping    *)
(* threads and the shutdown are what Scheduler.tla says.                   *)
(***************************************************************************)
EXTENDS Scheduler, QueueTheorems

(* The active thread.  One that is not running any more has asked for a    *)
(* switch, and is inside or on its way to CritInterrupt(), unless it was   *)
(* the last.                                                               *)
ActiveSound ==
  /\ mode = "BOOT" => ActiveThread = IdleThread
  /\ mode = "OPEN" => ActiveThread # IdleThread
  /\ halted => mode = "CLOSE"
  /\ ActiveThread # IdleThread /\ State[ActiveThread] # "RUNNING"
        => mode \in {"CLOSE", "ISR"} /\ (critObject = "QUEUED" \/ halted)

(* The run queue.  The active thread is in it only when a handler has      *)
(* resumed it before the switch it had asked for.                          *)
QueueSound ==
  /\ \A t \in Nodes(RunQueue) : State[t] = "RUNNING"
  /\ Distinct(RunQueue)
  /\ ActiveThread \in Nodes(RunQueue) => mode = "ISR" /\ critObject = "QUEUED"

(* Where a thread is in Sleep agrees with its state, its timer and its     *)
(* signal.                                                                 *)
PlaceSound(t) ==
  /\ pc[t] = "armed" => State[t] = "RUNNING" /\ (sleepSignal[t] \/ timer[t] # "READY")
  /\ pc[t] = "asleep" => State[t] = "BLOCKED" /\ timer[t] # "READY"
  /\ pc[t] = "stalled" => State[t] = "BLOCKED"
  /\ timer[t] # "READY" => pc[t] \in {"armed", "asleep"} /\ ~ sleepSignal[t]

(* The inductive invariant.                                                *)
SchedulerInv ==
  /\ SchedulerTypeOK
  /\ ActiveSound
  /\ QueueSound
  /\ HandlersSound
  /\ \A t \in Threads : PlaceSound(t)
  /\ ShutdownExact

-----------------------------------------------------------------------------
(* The operators that the actions share.                                   *)

(* A thread that is pushed on the handler list, or a switch, is in it.     *)
LEMMA RegisterHandler ==
  ASSUME NEW h \in Sleepers \cup {Switch}, SchedulerTypeOK, Distinct(CritList),
         h \notin Nodes(CritList), CritInterruptRegisterHandler(h)
  PROVE  /\ CritList' \in Seq(Sleepers \cup {Switch})
         /\ Distinct(CritList)'
         /\ Nodes(CritList)' = Nodes(CritList) \cup {h}
         /\ critPending' = TRUE
<1>1. CritList \in Seq(Sleepers \cup {Switch})
  BY DEF SchedulerTypeOK
<1>2. CritList' = LinkedListPush(h, CritList) /\ critPending' = TRUE
  BY DEF CritInterruptRegisterHandler
<1>3. /\ LinkedListPush(h, CritList) \in Seq(Sleepers \cup {Switch})
      /\ Nodes(LinkedListPush(h, CritList)) = Nodes(CritList) \cup {h}
      /\ Distinct(LinkedListPush(h, CritList))
  BY <1>1, PushNode
<1> QED
  BY <1>2, <1>3

(* The handler on top is taken off the list.                               *)
LEMMA PoppedHandler ==
  ASSUME NEW h, SchedulerTypeOK, Distinct(CritList), Popped(h)
  PROVE  /\ CritList' \in Seq(Sleepers \cup {Switch})
         /\ Distinct(CritList)'
         /\ h \in Nodes(CritList)
         /\ Nodes(CritList)' = Nodes(CritList) \ {h}
         /\ mode = "ISR" /\ ~ halted
<1>1. CritList \in Seq(Sleepers \cup {Switch})
  BY DEF SchedulerTypeOK
<1>2. CritList # <<>> /\ Head(CritList) = h /\ CritList' = Tail(CritList) /\ mode = "ISR" /\ ~ halted
  BY DEF Popped
<1>3. h \in Nodes(CritList)
  BY <1>1, <1>2, FrontNode
<1>4. /\ Tail(CritList) \in Seq(Sleepers \cup {Switch})
      /\ Distinct(Tail(CritList))
      /\ Nodes(Tail(CritList)) = Nodes(CritList) \ {h}
  BY <1>1, <1>2, TailNodes
<1> QED
  BY <1>2, <1>3, <1>4

(* After SchedulerNeedsSwitch a switch is queued, by this call or an       *)
(* earlier one, unless one is being made.                                  *)
LEMMA NeedsSwitch ==
  ASSUME SchedulerTypeOK, HandlersSound, SchedulerNeedsSwitch
  PROVE  /\ SchedulerMutex' \in BOOLEAN /\ critPending' \in BOOLEAN
         /\ critObject' \in {"READY", "QUEUED", "RUNNING"}
         /\ CritList' \in Seq(Sleepers \cup {Switch})
         /\ SchedulerMutex'
         /\ critObject' = IF critObject = "READY" THEN "QUEUED" ELSE critObject
         /\ critObject' = "QUEUED" <=> Switch \in Nodes(CritList)'
         /\ Distinct(CritList)'
         /\ Nodes(CritList)' \in {Nodes(CritList), Nodes(CritList) \cup {Switch}}
         /\ critObject = "READY" => critPending'
         /\ critPending => critPending'
<1>1. CASE SchedulerMutex /\ UNCHANGED critVars
  BY <1>1 DEF critVars, SchedulerTypeOK, HandlersSound
<1>2. CASE MutexLock /\ HandlerRegister /\ CritInterruptRegisterHandler(Switch)
  <2>1. ~ SchedulerMutex /\ SchedulerMutex' = TRUE /\ critObject' = "QUEUED"
    BY <1>2 DEF MutexLock, HandlerRegister
  <2>2. critObject = "READY" /\ Switch \notin Nodes(CritList) /\ Distinct(CritList)
    BY <2>1 DEF HandlersSound
  <2>3. /\ CritList' \in Seq(Sleepers \cup {Switch})
        /\ Distinct(CritList)'
        /\ Nodes(CritList)' = Nodes(CritList) \cup {Switch}
        /\ critPending' = TRUE
    BY <1>2, <2>2, RegisterHandler
  <2> QED
    BY <2>1, <2>2, <2>3
<1> QED
  BY <1>1, <1>2 DEF SchedulerNeedsSwitch

(* SchedulerResumeThread queues a thread that was not running.             *)
LEMMA ResumeThread ==
  ASSUME NEW t \in Threads, SchedulerTypeOK, QueueSound, State[t] # "RUNNING",
         SchedulerResumeThread(t)
  PROVE  /\ State' = [State EXCEPT ![t] = "RUNNING"]
         /\ State' \in [Threads -> {"NONE", "RUNNING", "BLOCKED", "DONE"}]
         /\ RunQueue' \in Seq(Threads)
         /\ Distinct(RunQueue)'
         /\ Nodes(RunQueue)' = Nodes(RunQueue) \cup {t}
         /\ \A u \in Nodes(RunQueue)' : State'[u] = "RUNNING"
<1>1. RunQueue \in Seq(Threads) /\ State \in [Threads -> {"NONE", "RUNNING", "BLOCKED", "DONE"}]
  BY DEF SchedulerTypeOK
<1>2. Distinct(RunQueue) /\ t \notin Nodes(RunQueue) /\ Nodes(RunQueue) \subseteq Threads
  BY <1>1, FrontNode DEF QueueSound
<1>3. State' = [State EXCEPT ![t] = "RUNNING"] /\ RunQueue' = LinkedListEnqueue(t, RunQueue)
  BY DEF SchedulerResumeThread, ResumeState
<1>4. /\ LinkedListEnqueue(t, RunQueue) \in Seq(Threads)
      /\ Nodes(LinkedListEnqueue(t, RunQueue)) = Nodes(RunQueue) \cup {t}
      /\ Distinct(LinkedListEnqueue(t, RunQueue))
  BY <1>1, <1>2, EnqueueNode
<1>5. \A u \in Nodes(RunQueue) \cup {t} : State'[u] = "RUNNING"
  BY <1>1, <1>2, <1>3 DEF QueueSound
<1> QED
  BY <1>1, <1>3, <1>4, <1>5

(* Schedule takes a running thread off the queue, which is then not in it, *)
(* or else the idle thread.                                                *)
LEMMA ScheduleNext ==
  ASSUME SchedulerTypeOK, QueueSound, Schedule
  PROVE  /\ RunQueue' \in Seq(Threads)
         /\ ActiveThread' \in Threads \cup {IdleThread}
         /\ Distinct(RunQueue)'
         /\ \A t \in Nodes(RunQueue)' : State[t] = "RUNNING"
         /\ ActiveThread' \notin Nodes(RunQueue)'
         /\ ActiveThread' # IdleThread => State[ActiveThread'] = "RUNNING"
<1>1. /\ RunQueue \in Seq(Threads)
      /\ ActiveThread \in Threads \cup {IdleThread}
      /\ Distinct(RunQueue)
      /\ \A t \in Nodes(RunQueue) : State[t] = "RUNNING"
  BY DEF SchedulerTypeOK, QueueSound
<1>2. /\ SavedQueue \in Seq(Threads)
      /\ Distinct(SavedQueue)
      /\ \A t \in Nodes(SavedQueue) : State[t] = "RUNNING"
  <2>1. CASE ActiveThread # IdleThread /\ State[ActiveThread] = "RUNNING"
    <3>1. SavedQueue = LinkedListEnqueue(ActiveThread, RunQueue)
      BY <2>1 DEF SavedQueue
    <3>2. ActiveThread \in Threads
      BY <1>1, <2>1
    <3>3. /\ LinkedListEnqueue(ActiveThread, RunQueue) \in Seq(Threads)
          /\ Nodes(LinkedListEnqueue(ActiveThread, RunQueue)) \subseteq Nodes(RunQueue) \cup {ActiveThread}
          /\ Distinct(LinkedListEnqueue(ActiveThread, RunQueue))
      BY <1>1, <3>2, EnqueueNode
    <3> QED
      BY <1>1, <2>1, <3>1, <3>3
  <2>2. CASE ~ (ActiveThread # IdleThread /\ State[ActiveThread] = "RUNNING")
    BY <1>1, <2>2 DEF SavedQueue
  <2> QED
    BY <2>1, <2>2
<1>3. CASE SavedQueue = <<>>
  <2>1. RunQueue' = SavedQueue /\ ActiveThread' = IdleThread
    BY <1>3 DEF Schedule
  <2>2. Nodes(SavedQueue) = {}
    BY <1>2, <1>3, FrontNode
  <2> QED
    BY <1>2, <2>1, <2>2
<1>4. CASE SavedQueue # <<>>
  <2>1. RunQueue' = Tail(SavedQueue) /\ ActiveThread' = Head(SavedQueue)
    BY <1>4 DEF Schedule
  <2>2. Head(SavedQueue) \in Nodes(SavedQueue) /\ Nodes(SavedQueue) \subseteq Threads
    BY <1>2, <1>4, FrontNode
  <2>3. /\ Tail(SavedQueue) \in Seq(Threads)
        /\ Distinct(Tail(SavedQueue))
        /\ Nodes(Tail(SavedQueue)) = Nodes(SavedQueue) \ {Head(SavedQueue)}
    BY <1>2, <1>4, TailNodes
  <2> QED
    BY <1>2, <2>1, <2>2, <2>3
<1> QED
  BY <1>3, <1>4
(* The code of a thread runs only while the thread is running, and no      *)
(* switch is being made.                                                   *)
LEMMA ThreadRuns ==
  ASSUME SchedulerInv, mode \in {"NONE", "OPEN"}, ActiveThread # IdleThread
  PROVE  /\ ActiveThread \in Threads
         /\ State[ActiveThread] = "RUNNING"
         /\ ActiveThread \notin Nodes(RunQueue)
         /\ critObject # "RUNNING"
         /\ ~ halted
<1>1. ActiveThread \in Threads
  BY DEF SchedulerInv, SchedulerTypeOK
<1>2. State[ActiveThread] = "RUNNING" /\ ~ halted
  BY DEF SchedulerInv, ActiveSound
<1>3. ActiveThread \notin Nodes(RunQueue)
  BY DEF SchedulerInv, QueueSound
<1>4. critObject # "RUNNING"
  BY DEF SchedulerInv, HandlersSound
<1> QED
  BY <1>1, <1>2, <1>3, <1>4

(* The body of a critical section is executed by a running thread.         *)
LEMMA BodyRuns ==
  ASSUME SchedulerInv, NEW where, Body(where)
  PROVE  /\ mode = "OPEN" /\ mode' = "CLOSE" /\ pc[ActiveThread] = where
         /\ ActiveThread \in Threads /\ ActiveThread # IdleThread
         /\ State[ActiveThread] = "RUNNING"
         /\ ActiveThread \notin Nodes(RunQueue)
         /\ critObject # "RUNNING"
         /\ ~ halted
<1>1. mode = "OPEN" /\ mode' = "CLOSE" /\ pc[ActiveThread] = where
  BY DEF Body
<1>2. ActiveThread # IdleThread
  BY <1>1 DEF SchedulerInv, ActiveSound
<1> QED
  BY <1>1, <1>2, ThreadRuns

(* A new thread is not running, not in the queue and not the active one.   *)
LEMMA CreateNew ==
  ASSUME SchedulerInv, NEW t \in Threads, NEW start \in BOOLEAN, SchedulerCreateThread(t, start)
  PROVE  /\ State[t] \in {"NONE", "DONE"}
         /\ t \notin Nodes(RunQueue)
         /\ t # ActiveThread
         /\ pc[t] = "main"
         /\ ~ halted
         /\ mode \in {"BOOT", "OPEN"} /\ mode' \in {"BOOT", "CLOSE"}
         /\ mode' = "BOOT" <=> mode = "BOOT"
<1>1. /\ State[t] \in {"NONE", "DONE"} /\ mode \in {"BOOT", "OPEN"}
      /\ mode' = IF mode = "BOOT" THEN "BOOT" ELSE "CLOSE"
  BY DEF SchedulerCreateThread
<1>2. t \notin Nodes(RunQueue)
  BY <1>1 DEF SchedulerInv, QueueSound
<1>3. ~ halted
  BY <1>1 DEF SchedulerInv, ActiveSound
<1>4. t # ActiveThread
  BY <1>1, ThreadsAssumption DEF SchedulerInv, ActiveSound
<1>5. pc[t] = "main"
  <2>1. pc[t] \in {"main", "armed", "asleep", "stalled"} /\ PlaceSound(t)
    BY DEF SchedulerInv, SchedulerTypeOK
  <2> QED
    BY <1>1, <2>1 DEF PlaceSound
<1> QED
  BY <1>1, <1>2, <1>3, <1>4, <1>5

-----------------------------------------------------------------------------
(* Every step keeps each part of the invariant.                            *)

(* KernelInit and SchedulerStartup leave the invariant true.               *)
LEMMA SchedulerInit ==
  ASSUME SchedulerStartup
  PROVE  SchedulerInv
<1> USE DEF SchedulerStartup
<1>1. SchedulerTypeOK
  <2>1. <<>> \in Seq(Threads) /\ <<>> \in Seq(Sleepers \cup {Switch})
    BY EmptySeq
  <2>2. /\ State \in [Threads -> {"NONE", "RUNNING", "BLOCKED", "DONE"}]
        /\ pc \in [Threads -> {"main", "armed", "asleep", "stalled"}]
        /\ timer \in [Threads -> {"READY", "TIMER", "CRIT"}]
        /\ sleepSignal \in [Threads -> BOOLEAN]
    OBVIOUS
  <2> QED
    BY <2>1, <2>2 DEF SchedulerTypeOK
<1>2. Nodes(<<>>) = {} /\ Distinct(<<>>)
  BY DEF Nodes, Distinct
<1>3. ActiveSound
  BY DEF ActiveSound
<1>4. QueueSound
  BY <1>2 DEF QueueSound
<1>5. HandlersSound
  BY <1>2 DEF HandlersSound
<1>6. \A t \in Threads : PlaceSound(t)
  BY DEF PlaceSound
<1>7. ShutdownExact
  <2>1. Alive = {}
    BY DEF Alive
  <2>2. Cardinality(Alive) = 0
    BY <2>1, FS_EmptySet
  <2> QED
    BY <2>1, <2>2 DEF ShutdownExact
<1> QED
  BY <1>1, <1>3, <1>4, <1>5, <1>6, <1>7 DEF SchedulerInv

(* Every step keeps the types; RunningThreads does not go below zero.      *)
LEMMA TypeStep ==
  ASSUME SchedulerInv, SchedulerNext
  PROVE  SchedulerTypeOK'
<1> USE DEF SchedulerTypeOK
<1>0. SchedulerTypeOK /\ HandlersSound /\ QueueSound
  BY DEF SchedulerInv
<1>1. CASE SchedulerStartCritical \/ KernelStart \/ SchedulerEndCritical \/ DeliverCrit
             \/ CritInterruptReturn \/ HalShutdownNow
  BY <1>0, <1>1 DEF SchedulerStartCritical, KernelStart, SchedulerEndCritical, DeliverCrit,
       CritInterruptReturn, HalShutdownNow, schedVars, critVars, threadVars, sleepVars, exitVars
<1>2. ASSUME NEW t \in Threads, NEW start \in BOOLEAN, SchedulerCreateThread(t, start)
      PROVE  SchedulerTypeOK'
  <2>1. State[t] # "RUNNING" /\ mode' \in {"BOOT", "CLOSE"}
    BY <1>2, CreateNew
  <2>2. /\ State' \in [Threads -> {"NONE", "RUNNING", "BLOCKED", "DONE"}]
        /\ RunQueue' \in Seq(Threads)
        /\ pc' \in [Threads -> {"main", "armed", "asleep", "stalled"}]
    <3>1. CASE start
      BY <1>0, <1>2, <2>1, <3>1, ResumeThread DEF SchedulerCreateThread
    <3>2. CASE ~ start
      BY <1>0, <1>2, <3>2 DEF SchedulerCreateThread, BlockState
    <3> QED
      BY <3>1, <3>2
  <2>3. fresh' \subseteq Threads /\ RunningThreads' \in Nat
    BY <1>0, <1>2 DEF SchedulerCreateThread
  <2>4. UNCHANGED <<critVars, ActiveThread, timer, sleepSignal, Shutdown, halted>>
    BY <1>2 DEF SchedulerCreateThread
  <2> QED
    BY <1>0, <2>1, <2>2, <2>3, <2>4 DEF critVars
<1>3. CASE SchedulerForceSwitch \/ SchedulerTimerHandler
  <2>1. /\ SchedulerNeedsSwitch /\ UNCHANGED <<threadVars, sleepVars, exitVars>>
        /\ mode' \in {mode, "CLOSE"}
    BY <1>3 DEF SchedulerForceSwitch, SchedulerTimerHandler, Body
  <2> QED
    BY <1>0, <2>1, NeedsSwitch DEF threadVars, sleepVars, exitVars
<1>4. CASE SchedulerBlockOnLock
  <2>1. /\ SchedulerNeedsSwitch /\ mode' = "CLOSE"
        /\ State' = [State EXCEPT ![ActiveThread] = "BLOCKED"]
        /\ pc' = [pc EXCEPT ![ActiveThread] = "stalled"]
        /\ UNCHANGED <<ActiveThread, RunQueue, fresh, timer, sleepSignal, exitVars>>
    BY <1>4 DEF SchedulerBlockOnLock, SchedulerBlockThread, BlockState, Body
  <2> QED
    BY <1>0, <2>1, NeedsSwitch DEF exitVars
<1>5. ASSUME NEW t \in Threads, SchedulerWakeOnLock(t)
      PROVE  SchedulerTypeOK'
  <2>1. /\ State[t] = "BLOCKED" /\ SchedulerResumeThread(t) /\ mode' = "CLOSE"
        /\ pc' = [pc EXCEPT ![t] = "main"]
        /\ UNCHANGED <<critVars, ActiveThread, fresh, timer, sleepSignal, exitVars>>
    BY <1>5 DEF SchedulerWakeOnLock, Body
  <2> QED
    BY <1>0, <2>1, ResumeThread DEF critVars, exitVars
<1>6. CASE SleepRegister
  BY <1>0, <1>6 DEF SleepRegister, critVars, threadVars, exitVars
<1>7. CASE SleepWait
  <2>1. /\ mode' = "CLOSE"
        /\ UNCHANGED <<ActiveThread, RunQueue, fresh, timer, sleepSignal, exitVars>>
    BY <1>7 DEF SleepWait, Body
  <2>2. CASE pc' = [pc EXCEPT ![ActiveThread] = "main"] /\ UNCHANGED <<critVars, State>>
    BY <1>0, <2>1, <2>2 DEF critVars, exitVars
  <2>3. CASE pc' = [pc EXCEPT ![ActiveThread] = "asleep"] /\ SchedulerBlockThread
    <3>1. SchedulerNeedsSwitch /\ State' = [State EXCEPT ![ActiveThread] = "BLOCKED"]
      BY <2>3 DEF SchedulerBlockThread, BlockState
    <3> QED
      BY <1>0, <2>1, <2>3, <3>1, NeedsSwitch DEF exitVars
  <2> QED
    BY <1>7, <2>2, <2>3 DEF SleepWait
<1>8. CASE SchedulerThreadExit
  <2>1. /\ mode' = "CLOSE" /\ State' = [State EXCEPT ![ActiveThread] = "DONE"]
        /\ RunningThreads' = RunningThreads - 1
        /\ halted' = (Shutdown /\ OnlyIdleLeft(RunningThreads'))
        /\ IF halted' THEN UNCHANGED critVars ELSE SchedulerNeedsSwitch
        /\ UNCHANGED <<ActiveThread, RunQueue, fresh, sleepVars, Shutdown>>
    BY <1>8 DEF SchedulerThreadExit, Body
  <2>2. ActiveThread \in Alive
    <3>1. ActiveThread \in Threads /\ State[ActiveThread] = "RUNNING"
      BY <1>8, BodyRuns DEF SchedulerThreadExit
    <3> QED
      BY <3>1 DEF Alive
  <2>3. RunningThreads' \in Nat
    <3>1. IsFiniteSet(Alive)
      BY ThreadsAssumption, FS_Subset DEF Alive
    <3>2. Cardinality(Alive) \in Nat /\ Cardinality(Alive) # 0
      BY <2>2, <3>1, FS_CardinalityType, FS_EmptySet
    <3>3. RunningThreads = 1 + Cardinality(Alive)
      BY DEF SchedulerInv, ShutdownExact
    <3> QED
      BY <2>1, <3>2, <3>3
  <2>4. halted' \in BOOLEAN
    BY <1>0, <2>1 DEF OnlyIdleLeft
  <2>5. /\ SchedulerMutex' \in BOOLEAN /\ critPending' \in BOOLEAN
        /\ critObject' \in {"READY", "QUEUED", "RUNNING"}
        /\ CritList' \in Seq(Sleepers \cup {Switch})
    BY <1>0, <2>1, NeedsSwitch DEF critVars
  <2> QED
    BY <1>0, <2>1, <2>3, <2>4, <2>5 DEF sleepVars
<1>9. CASE SchedulerShutdown
  BY <1>0, <1>9 DEF SchedulerShutdown, Body, critVars, threadVars, sleepVars
<1>10. ASSUME NEW t \in Sleepers, SleepCritHandler(t)
       PROVE  SchedulerTypeOK'
  <2>1. /\ Popped(t)
        /\ timer' = [timer EXCEPT ![t] = "READY"]
        /\ sleepSignal' = [sleepSignal EXCEPT ![t] = TRUE]
        /\ UNCHANGED <<SchedulerMutex, critObject, critPending, ActiveThread, fresh, exitVars, mode>>
    BY <1>10 DEF SleepCritHandler
  <2>2. CritList' \in Seq(Sleepers \cup {Switch})
    BY <1>0, <2>1, PoppedHandler DEF HandlersSound
  <2>3. /\ State' \in [Threads -> {"NONE", "RUNNING", "BLOCKED", "DONE"}]
        /\ RunQueue' \in Seq(Threads)
        /\ pc' \in [Threads -> {"main", "armed", "asleep", "stalled"}]
    <3>1. CASE pc[t] = "asleep"
      <4>1. t \in Threads
        BY ThreadsAssumption
      <4>2. State[t] # "RUNNING"
        BY <3>1, <4>1 DEF SchedulerInv, PlaceSound
      <4>3. SchedulerResumeThread(t) /\ pc' = [pc EXCEPT ![t] = "main"]
        BY <1>10, <3>1 DEF SleepCritHandler
      <4> QED
        BY <1>0, <4>1, <4>2, <4>3, ResumeThread
    <3>2. CASE pc[t] # "asleep"
      BY <1>0, <1>10, <3>2 DEF SleepCritHandler
    <3> QED
      BY <3>1, <3>2
  <2> QED
    BY <1>0, <2>1, <2>2, <2>3 DEF exitVars
<1>11. CASE SchedulerCritHandler
  <2>1. /\ Popped(Switch) /\ critObject' = "RUNNING" /\ Schedule /\ mode' = "FINISH"
        /\ UNCHANGED <<SchedulerMutex, critPending, State, fresh, sleepVars, exitVars>>
    BY <1>11 DEF SchedulerCritHandler, HandlerRun
  <2>2. CritList' \in Seq(Sleepers \cup {Switch})
    BY <1>0, <2>1, PoppedHandler DEF HandlersSound
  <2>3. RunQueue' \in Seq(Threads) /\ ActiveThread' \in Threads \cup {IdleThread}
    BY <1>0, <2>1, ScheduleNext
  <2> QED
    BY <1>0, <2>1, <2>2, <2>3 DEF sleepVars, exitVars
<1>12. CASE SwitchDone
  BY <1>0, <1>12 DEF SwitchDone, HandlerFinish, MutexUnlock, sleepVars, exitVars
<1>13. ASSUME NEW t \in Sleepers, SleepTimerHandler(t)
       PROVE  SchedulerTypeOK'
  <2>1. /\ timer[t] = "TIMER" /\ timer' = [timer EXCEPT ![t] = "CRIT"]
        /\ CritInterruptRegisterHandler(t)
        /\ UNCHANGED <<SchedulerMutex, critObject, threadVars, pc, sleepSignal, exitVars, mode>>
    BY <1>13 DEF SleepTimerHandler
  <2>2. t \notin Nodes(CritList) /\ Distinct(CritList)
    BY <1>0, <2>1, ThreadsAssumption DEF HandlersSound
  <2> QED
    BY <1>0, <2>1, <2>2, RegisterHandler DEF threadVars, exitVars
<1> QED
  BY <1>1, <1>2, <1>3, <1>4, <1>5, <1>6, <1>7, <1>8, <1>9, <1>10, <1>11, <1>12, <1>13
     DEF SchedulerNext, ThreadStep, CritStep, SoftStep

(* Every step keeps ActiveSound: a thread that blocks or ends has a switch *)
(* queued.                                                                 *)
LEMMA ActiveStep ==
  ASSUME SchedulerInv, SchedulerNext
  PROVE  ActiveSound'
<1> USE DEF ActiveSound
<1>0. SchedulerTypeOK /\ HandlersSound /\ QueueSound /\ ActiveSound
  BY DEF SchedulerInv
<1>1. CASE SchedulerStartCritical
  BY <1>0, <1>1 DEF SchedulerStartCritical, ThreadCode, critVars, threadVars, exitVars
<1>2. ASSUME NEW t \in Threads, NEW start \in BOOLEAN, SchedulerCreateThread(t, start)
      PROVE  ActiveSound'
  <2>1. /\ t # ActiveThread /\ ~ halted /\ mode \in {"BOOT", "OPEN"}
        /\ mode' \in {"BOOT", "CLOSE"} /\ mode' = "BOOT" <=> mode = "BOOT"
    BY <1>2, CreateNew
  <2>2. ActiveThread' = ActiveThread /\ halted' = halted
    BY <1>2 DEF SchedulerCreateThread
  <2>3. ActiveThread # IdleThread => State'[ActiveThread] = State[ActiveThread]
    <3>1. \E v : State' = [State EXCEPT ![t] = v]
      BY <1>2 DEF SchedulerCreateThread, SchedulerResumeThread, ResumeState, BlockState
    <3> QED
      BY <1>0, <2>1, <3>1 DEF SchedulerTypeOK
  <2> QED
    BY <1>0, <2>1, <2>2, <2>3
<1>3. CASE SchedulerForceSwitch \/ SchedulerBlockOnLock \/ SleepWait \/ SchedulerThreadExit
             \/ SchedulerShutdown \/ \E t \in Threads : SchedulerWakeOnLock(t)
  <2>1. /\ ActiveThread' = ActiveThread /\ ActiveThread \in Threads /\ ActiveThread # IdleThread
        /\ mode' = "CLOSE" /\ State[ActiveThread] = "RUNNING" /\ critObject # "RUNNING"
    BY <1>3, BodyRuns DEF SchedulerForceSwitch, SchedulerBlockOnLock, SleepWait,
         SchedulerThreadExit, SchedulerShutdown, SchedulerWakeOnLock, threadVars
  <2>2. State'[ActiveThread] # "RUNNING" => critObject' = "QUEUED" \/ halted'
    <3>1. CASE SchedulerNeedsSwitch
      BY <1>0, <2>1, <3>1, NeedsSwitch DEF SchedulerTypeOK
    <3>2. CASE SchedulerShutdown \/ UNCHANGED State
      BY <2>1, <3>2 DEF SchedulerShutdown, threadVars
    <3>3. CASE SchedulerThreadExit /\ ~ SchedulerNeedsSwitch
      BY <3>3 DEF SchedulerThreadExit
    <3>4. ASSUME NEW t \in Threads, SchedulerWakeOnLock(t)
          PROVE  State'[ActiveThread] = "RUNNING"
      BY <1>0, <2>1, <3>4 DEF SchedulerWakeOnLock, SchedulerResumeThread, ResumeState, SchedulerTypeOK
    <3> QED
      BY <1>3, <3>1, <3>2, <3>3, <3>4 DEF SchedulerForceSwitch, SchedulerBlockOnLock,
           SleepWait, SchedulerBlockThread
  <2> QED
    BY <2>1, <2>2
<1>4. CASE SleepRegister
  BY <1>0, <1>4 DEF SleepRegister, critVars, threadVars, exitVars
<1>5. CASE KernelStart
  BY <1>0, <1>5 DEF KernelStart, critVars, threadVars, exitVars
<1>6. CASE SchedulerEndCritical
  <2>1. /\ ~ halted /\ mode = "CLOSE" /\ mode' = IF critPending THEN "ISR" ELSE "NONE"
        /\ UNCHANGED <<critObject, ActiveThread, State, halted>>
    BY <1>6 DEF SchedulerEndCritical, threadVars, exitVars
  <2>2. ActiveThread # IdleThread /\ State[ActiveThread] # "RUNNING" => critPending
    BY <1>0, <2>1 DEF HandlersSound
  <2> QED
    BY <1>0, <2>1, <2>2
<1>7. CASE DeliverCrit
  BY <1>0, <1>7 DEF DeliverCrit, threadVars, exitVars
<1>8. ASSUME NEW t \in Sleepers, SleepCritHandler(t)
      PROVE  ActiveSound'
  <2>1. /\ mode = "ISR" /\ ~ halted /\ UNCHANGED <<critObject, ActiveThread, halted, mode>>
        /\ State' \in {State, [State EXCEPT ![t] = "RUNNING"]}
    BY <1>8 DEF SleepCritHandler, Popped, exitVars, SchedulerResumeThread, ResumeState
  <2>2. ActiveThread # IdleThread /\ State'[ActiveThread] # "RUNNING" => State[ActiveThread] # "RUNNING"
    BY <1>0, <2>1 DEF SchedulerTypeOK
  <2> QED
    BY <1>0, <2>1, <2>2
<1>9. CASE SchedulerCritHandler
  <2>1. /\ Schedule /\ mode' = "FINISH" /\ ~ halted
        /\ UNCHANGED <<State, halted>>
    BY <1>9 DEF SchedulerCritHandler, Popped, exitVars
  <2>2. ActiveThread' # IdleThread => State[ActiveThread'] = "RUNNING"
    BY <1>0, <2>1, ScheduleNext
  <2> QED
    BY <2>1, <2>2
<1>10. CASE SwitchDone
  BY <1>0, <1>10 DEF SwitchDone, exitVars
<1>11. CASE CritInterruptReturn
  <2>1. /\ mode = "ISR" /\ CritList = <<>> /\ mode' = "CLOSE"
        /\ UNCHANGED <<critObject, ActiveThread, State, halted>>
    BY <1>11 DEF CritInterruptReturn, critVars, threadVars, exitVars
  <2>2. critObject # "QUEUED"
    <3>1. Nodes(<<>>) = {}
      BY DEF Nodes
    <3> QED
      BY <1>0, <2>1, <3>1 DEF HandlersSound
  <2> QED
    BY <1>0, <2>1, <2>2
<1>12. CASE SchedulerTimerHandler
  <2>1. /\ SchedulerNeedsSwitch /\ UNCHANGED <<ActiveThread, State, halted, mode>>
    BY <1>12 DEF SchedulerTimerHandler, threadVars, exitVars
  <2>2. critObject = "QUEUED" => critObject' = "QUEUED"
    BY <1>0, <2>1, NeedsSwitch
  <2> QED
    BY <1>0, <2>1, <2>2
<1>13. ASSUME NEW t \in Sleepers, SleepTimerHandler(t)
       PROVE  ActiveSound'
  BY <1>0, <1>13 DEF SleepTimerHandler, threadVars, exitVars
<1>14. CASE HalShutdownNow
  BY <1>0, <1>14 DEF HalShutdownNow, schedVars, critVars, threadVars, exitVars
<1> QED
  BY <1>1, <1>2, <1>3, <1>4, <1>5, <1>6, <1>7, <1>8, <1>9, <1>10, <1>11, <1>12, <1>13, <1>14
     DEF SchedulerNext, ThreadStep, CritStep, SoftStep

(* Every step keeps QueueSound, the truncating enqueue of Schedule included.*)
LEMMA QueueStep ==
  ASSUME SchedulerInv, SchedulerNext
  PROVE  QueueSound'
<1> USE DEF QueueSound
<1>0. SchedulerTypeOK /\ HandlersSound /\ QueueSound /\ ActiveSound
  BY DEF SchedulerInv
<1>a. Nodes(RunQueue) \subseteq Threads
  BY <1>0, FrontNode DEF SchedulerTypeOK
<1>1. CASE SchedulerStartCritical
  BY <1>0, <1>1 DEF SchedulerStartCritical, ThreadCode, threadVars
<1>2. ASSUME NEW t \in Threads, NEW start \in BOOLEAN, SchedulerCreateThread(t, start)
      PROVE  QueueSound'
  <2>1. /\ t # ActiveThread /\ State[t] # "RUNNING" /\ t \notin Nodes(RunQueue)
        /\ mode \in {"BOOT", "OPEN"} /\ ActiveThread' = ActiveThread
    BY <1>2, CreateNew DEF SchedulerCreateThread
  <2>2. /\ \A u \in Nodes(RunQueue)' : State'[u] = "RUNNING"
        /\ Distinct(RunQueue)'
        /\ Nodes(RunQueue)' \subseteq Nodes(RunQueue) \cup {t}
    <3>1. CASE start
      BY <1>0, <1>2, <2>1, <3>1, ResumeThread DEF SchedulerCreateThread
    <3>2. CASE ~ start
      <4>1. RunQueue' = RunQueue /\ State' = [State EXCEPT ![t] = "BLOCKED"]
        BY <1>2, <3>2 DEF SchedulerCreateThread, BlockState
      <4> QED
        BY <1>0, <1>a, <2>1, <4>1 DEF SchedulerTypeOK
    <3> QED
      BY <3>1, <3>2
  <2> QED
    BY <1>0, <2>1, <2>2
<1>3. CASE SchedulerForceSwitch \/ SchedulerShutdown
  <2>1. ActiveThread \notin Nodes(RunQueue)
    BY <1>3, BodyRuns DEF SchedulerForceSwitch, SchedulerShutdown
  <2> QED
    BY <1>0, <1>3, <2>1 DEF SchedulerForceSwitch, SchedulerShutdown, threadVars
<1>4. CASE SchedulerBlockOnLock \/ SleepWait \/ SchedulerThreadExit
  <2>1. ActiveThread \notin Nodes(RunQueue) /\ ActiveThread \in Threads
    BY <1>4, BodyRuns DEF SchedulerBlockOnLock, SleepWait, SchedulerThreadExit
  <2>2. /\ ActiveThread' = ActiveThread /\ RunQueue' = RunQueue
        /\ State' = State \/ \E v : State' = [State EXCEPT ![ActiveThread] = v]
    BY <1>4 DEF SchedulerBlockOnLock, SleepWait, SchedulerThreadExit, SchedulerBlockThread, BlockState
  <2> QED
    BY <1>0, <1>a, <2>1, <2>2 DEF SchedulerTypeOK
<1>5. ASSUME NEW t \in Threads, SchedulerWakeOnLock(t)
      PROVE  QueueSound'
  <2>1. ActiveThread \notin Nodes(RunQueue) /\ State[ActiveThread] = "RUNNING"
    BY <1>5, BodyRuns DEF SchedulerWakeOnLock
  <2>2. State[t] = "BLOCKED" /\ SchedulerResumeThread(t) /\ ActiveThread' = ActiveThread
    BY <1>5 DEF SchedulerWakeOnLock
  <2> QED
    BY <1>0, <2>1, <2>2, ResumeThread
<1>6. CASE SleepRegister
  BY <1>0, <1>6 DEF SleepRegister, critVars, threadVars
<1>7. CASE KernelStart \/ SchedulerEndCritical \/ DeliverCrit
  BY <1>0, <1>7 DEF KernelStart, SchedulerEndCritical, DeliverCrit, critVars, threadVars
<1>8. ASSUME NEW t \in Sleepers, SleepCritHandler(t)
      PROVE  QueueSound'
  <2>1. mode = "ISR" /\ ~ halted /\ UNCHANGED <<critObject, ActiveThread, mode>>
    BY <1>8 DEF SleepCritHandler, Popped
  <2>2. CASE pc[t] = "asleep"
    <3>1. t \in Threads
      BY ThreadsAssumption
    <3>2. State[t] # "RUNNING"
      BY <2>2, <3>1 DEF SchedulerInv, PlaceSound
    <3>3. SchedulerResumeThread(t)
      BY <1>8, <2>2 DEF SleepCritHandler
    <3>4. t = ActiveThread => critObject = "QUEUED"
      BY <1>0, <2>1, <3>1, <3>2, ThreadsAssumption DEF ActiveSound
    <3> QED
      BY <1>0, <2>1, <3>1, <3>2, <3>3, <3>4, ResumeThread
  <2>3. CASE pc[t] # "asleep"
    BY <1>0, <1>8, <2>1, <2>3 DEF SleepCritHandler
  <2> QED
    BY <2>2, <2>3
<1>9. CASE SchedulerCritHandler
  <2>1. Schedule /\ UNCHANGED State
    BY <1>9 DEF SchedulerCritHandler
  <2> QED
    BY <1>0, <2>1, ScheduleNext
<1>10. CASE SwitchDone
  BY <1>0, <1>10 DEF SwitchDone
<1>11. CASE CritInterruptReturn
  <2>1. /\ mode = "ISR" /\ CritList = <<>> /\ UNCHANGED <<RunQueue, ActiveThread, State>>
    BY <1>11 DEF CritInterruptReturn, threadVars
  <2>2. critObject # "QUEUED"
    <3>1. Nodes(<<>>) = {}
      BY DEF Nodes
    <3> QED
      BY <1>0, <2>1, <3>1 DEF HandlersSound
  <2> QED
    BY <1>0, <2>1, <2>2
<1>12. CASE SchedulerTimerHandler
  <2>1. SchedulerNeedsSwitch /\ UNCHANGED <<RunQueue, ActiveThread, State, mode>>
    BY <1>12 DEF SchedulerTimerHandler, threadVars
  <2>2. critObject = "QUEUED" => critObject' = "QUEUED"
    BY <1>0, <2>1, NeedsSwitch
  <2> QED
    BY <1>0, <2>1, <2>2
<1>13. ASSUME NEW t \in Sleepers, SleepTimerHandler(t)
       PROVE  QueueSound'
  BY <1>0, <1>13 DEF SleepTimerHandler, threadVars
<1>14. CASE HalShutdownNow
  BY <1>0, <1>14 DEF HalShutdownNow, schedVars, critVars, threadVars
<1> QED
  BY <1>1, <1>2, <1>3, <1>4, <1>5, <1>6, <1>7, <1>8, <1>9, <1>10, <1>11, <1>12, <1>13, <1>14
     DEF SchedulerNext, ThreadStep, CritStep, SoftStep

(* Every step keeps the handler list, the mutex and the timers in agreement.*)
LEMMA HandlersStep ==
  ASSUME SchedulerInv, SchedulerNext
  PROVE  HandlersSound'
<1> USE DEF HandlersSound
<1>0. SchedulerTypeOK /\ HandlersSound /\ ActiveSound
  BY DEF SchedulerInv
<1>1. CASE SchedulerStartCritical \/ KernelStart \/ SchedulerShutdown \/ SchedulerEndCritical
             \/ DeliverCrit \/ HalShutdownNow
             \/ (\E t \in Threads, start \in BOOLEAN : SchedulerCreateThread(t, start))
             \/ (\E t \in Threads : SchedulerWakeOnLock(t))
  <2>1. /\ UNCHANGED <<SchedulerMutex, critObject, CritList, timer>>
        /\ mode' = "FINISH" <=> mode = "FINISH"
        /\ mode = "ISR" => mode' = "ISR"
        /\ critPending /\ mode # "ISR" => critPending' \/ mode' = "ISR"
    BY <1>1 DEF SchedulerStartCritical, KernelStart, SchedulerShutdown, SchedulerEndCritical,
         DeliverCrit, HalShutdownNow, SchedulerCreateThread, SchedulerWakeOnLock, ThreadCode, Body,
         schedVars, critVars, sleepVars
  <2> QED
    BY <1>0, <2>1
<1>2. CASE /\ SchedulerNeedsSwitch /\ UNCHANGED timer
           /\ mode' = mode \/ (mode = "OPEN" /\ mode' = "CLOSE")
  <2>1. /\ SchedulerMutex'
        /\ critObject' = IF critObject = "READY" THEN "QUEUED" ELSE critObject
        /\ critObject' = "QUEUED" <=> Switch \in Nodes(CritList)'
        /\ Distinct(CritList)'
        /\ Nodes(CritList)' \in {Nodes(CritList), Nodes(CritList) \cup {Switch}}
        /\ critObject = "READY" => critPending'
        /\ critPending => critPending'
    BY <1>0, <1>2, NeedsSwitch
  <2>2. critObject' # "READY"
    BY <2>1
  <2>3. critObject' = "RUNNING" <=> mode' = "FINISH"
    BY <1>0, <1>2, <2>1
  <2>4. \A t \in Threads : timer'[t] = "CRIT" <=> t \in Nodes(CritList)'
    BY <1>0, <1>2, <2>1, ThreadsAssumption
  <2>5. critObject' = "QUEUED" => critPending' \/ mode' = "ISR"
    BY <1>0, <1>2, <2>1 DEF SchedulerTypeOK
  <2> QED
    BY <2>1, <2>2, <2>3, <2>4, <2>5
<1>3. CASE /\ UNCHANGED critVars /\ UNCHANGED timer
           /\ mode = "OPEN" /\ mode' = "CLOSE"
  BY <1>0, <1>3 DEF critVars
<1>4. CASE SchedulerForceSwitch \/ SchedulerBlockOnLock \/ SleepWait \/ SchedulerThreadExit
             \/ SchedulerTimerHandler
  <2>1. \/ /\ SchedulerNeedsSwitch /\ UNCHANGED timer
           /\ mode' = mode \/ (mode = "OPEN" /\ mode' = "CLOSE")
        \/ /\ UNCHANGED critVars /\ UNCHANGED timer
           /\ mode = "OPEN" /\ mode' = "CLOSE"
    BY <1>4 DEF SchedulerForceSwitch, SchedulerBlockOnLock, SleepWait, SchedulerThreadExit,
         SchedulerTimerHandler, SchedulerBlockThread, Body, sleepVars, critVars
  <2> QED
    BY <1>2, <1>3, <2>1
<1>5. CASE SleepRegister
  <2>1. /\ ActiveThread \in Threads /\ pc[ActiveThread] = "main"
        /\ timer' = [timer EXCEPT ![ActiveThread] = "TIMER"]
        /\ UNCHANGED <<critVars, mode>>
    BY <1>0, <1>5 DEF SleepRegister, ThreadCode, SchedulerTypeOK
  <2>2. timer[ActiveThread] = "READY"
    BY <2>1 DEF SchedulerInv, PlaceSound
  <2>3. \A t \in Threads : timer'[t] = "CRIT" <=> timer[t] = "CRIT"
    BY <1>0, <2>1, <2>2 DEF SchedulerTypeOK
  <2> QED
    BY <1>0, <2>1, <2>3 DEF critVars
<1>6. ASSUME NEW t \in Sleepers, SleepCritHandler(t)
      PROVE  HandlersSound'
  <2>1. /\ Popped(t)
        /\ timer' = [timer EXCEPT ![t] = "READY"]
        /\ UNCHANGED <<SchedulerMutex, critObject, critPending, mode>>
    BY <1>6 DEF SleepCritHandler
  <2>2. /\ Distinct(CritList)'
        /\ Nodes(CritList)' = Nodes(CritList) \ {t}
    BY <1>0, <2>1, PoppedHandler
  <2>3. \A u \in Threads : timer'[u] = "CRIT" <=> u \in Nodes(CritList)'
    BY <1>0, <2>1, <2>2 DEF SchedulerTypeOK
  <2>4. t # Switch
    BY ThreadsAssumption
  <2> QED
    BY <1>0, <2>1, <2>2, <2>3, <2>4
<1>7. CASE SchedulerCritHandler
  <2>1. /\ Popped(Switch) /\ critObject' = "RUNNING" /\ mode' = "FINISH"
        /\ UNCHANGED <<SchedulerMutex, critPending, timer>>
    BY <1>7 DEF SchedulerCritHandler, HandlerRun, sleepVars
  <2>2. /\ Distinct(CritList)'
        /\ Switch \in Nodes(CritList)
        /\ Nodes(CritList)' = Nodes(CritList) \ {Switch}
    BY <1>0, <2>1, PoppedHandler
  <2>3. \A u \in Threads : timer'[u] = "CRIT" <=> u \in Nodes(CritList)'
    BY <1>0, <2>1, <2>2, ThreadsAssumption
  <2> QED
    BY <1>0, <2>1, <2>2, <2>3
<1>8. CASE SwitchDone
  <2>1. /\ mode = "FINISH" /\ critObject' = "READY" /\ SchedulerMutex' = FALSE
        /\ mode' \in {"CLOSE", "ISR"}
        /\ UNCHANGED <<CritList, critPending, timer>>
    BY <1>8 DEF SwitchDone, HandlerFinish, MutexUnlock, sleepVars
  <2> QED
    BY <1>0, <2>1
<1>9. CASE CritInterruptReturn
  <2>1. /\ mode = "ISR" /\ CritList = <<>> /\ mode' = "CLOSE"
        /\ UNCHANGED <<critVars, timer>>
    BY <1>9 DEF CritInterruptReturn, sleepVars
  <2>2. critObject # "QUEUED"
    <3>1. Nodes(<<>>) = {}
      BY DEF Nodes
    <3> QED
      BY <1>0, <2>1, <3>1
  <2> QED
    BY <1>0, <2>1, <2>2 DEF critVars
<1>10. ASSUME NEW t \in Sleepers, SleepTimerHandler(t)
       PROVE  HandlersSound'
  <2>1. /\ timer[t] = "TIMER" /\ timer' = [timer EXCEPT ![t] = "CRIT"]
        /\ CritInterruptRegisterHandler(t)
        /\ UNCHANGED <<SchedulerMutex, critObject, mode>>
    BY <1>10 DEF SleepTimerHandler
  <2>2. t \in Threads /\ t # Switch /\ t \notin Nodes(CritList)
    BY <1>0, <2>1, ThreadsAssumption
  <2>3. /\ Distinct(CritList)'
        /\ Nodes(CritList)' = Nodes(CritList) \cup {t}
        /\ critPending' = TRUE
    BY <1>0, <2>1, <2>2, RegisterHandler
  <2>4. \A u \in Threads : timer'[u] = "CRIT" <=> u \in Nodes(CritList)'
    BY <1>0, <2>1, <2>2, <2>3 DEF SchedulerTypeOK
  <2> QED
    BY <1>0, <2>1, <2>2, <2>3, <2>4
<1> QED
  BY <1>1, <1>4, <1>5, <1>6, <1>7, <1>8, <1>9, <1>10
     DEF SchedulerNext, ThreadStep, CritStep, SoftStep

(* Every step keeps each thread's place in Sleep in agreement with its state.*)
LEMMA PlaceStep ==
  ASSUME SchedulerInv, SchedulerNext, NEW u \in Threads
  PROVE  PlaceSound(u)'
<1> USE DEF PlaceSound
<1>0. SchedulerTypeOK /\ HandlersSound /\ PlaceSound(u)
  BY DEF SchedulerInv
<1>1. CASE UNCHANGED <<State, pc, timer, sleepSignal>>
  BY <1>0, <1>1
<1>2. CASE SchedulerStartCritical \/ SchedulerForceSwitch \/ SchedulerShutdown \/ KernelStart
             \/ SchedulerEndCritical \/ DeliverCrit \/ SchedulerCritHandler \/ SwitchDone
             \/ CritInterruptReturn \/ SchedulerTimerHandler \/ HalShutdownNow
  BY <1>1, <1>2 DEF SchedulerStartCritical, SchedulerForceSwitch, SchedulerShutdown, KernelStart,
       SchedulerEndCritical, DeliverCrit, SchedulerCritHandler, SwitchDone, CritInterruptReturn,
       SchedulerTimerHandler, HalShutdownNow, schedVars, threadVars, sleepVars
<1>3. ASSUME NEW t \in Threads, NEW start \in BOOLEAN, SchedulerCreateThread(t, start)
      PROVE  PlaceSound(u)'
  <2>1. pc[t] = "main"
    BY <1>3, CreateNew
  <2>2. UNCHANGED <<timer, sleepSignal>>
    BY <1>3 DEF SchedulerCreateThread
  <2>3. \/ State' = [State EXCEPT ![t] = "RUNNING"] /\ pc' = pc
        \/ State' = [State EXCEPT ![t] = "BLOCKED"] /\ pc' = [pc EXCEPT ![t] = "stalled"]
    BY <1>3 DEF SchedulerCreateThread, SchedulerResumeThread, ResumeState, BlockState
  <2> QED
    BY <1>0, <2>1, <2>2, <2>3 DEF SchedulerTypeOK
<1>4. CASE SchedulerBlockOnLock
  <2>1. ActiveThread \in Threads /\ pc[ActiveThread] = "main"
    BY <1>4, BodyRuns DEF SchedulerBlockOnLock
  <2>2. /\ State' = [State EXCEPT ![ActiveThread] = "BLOCKED"]
        /\ pc' = [pc EXCEPT ![ActiveThread] = "stalled"]
        /\ UNCHANGED <<timer, sleepSignal>>
    BY <1>4 DEF SchedulerBlockOnLock, SchedulerBlockThread, BlockState
  <2> QED
    BY <1>0, <2>1, <2>2 DEF SchedulerTypeOK
<1>5. ASSUME NEW t \in Threads, SchedulerWakeOnLock(t)
      PROVE  PlaceSound(u)'
  <2>1. /\ pc[t] = "stalled"
        /\ State' = [State EXCEPT ![t] = "RUNNING"]
        /\ pc' = [pc EXCEPT ![t] = "main"]
        /\ UNCHANGED <<timer, sleepSignal>>
    BY <1>5 DEF SchedulerWakeOnLock, SchedulerResumeThread, ResumeState
  <2> QED
    BY <1>0, <2>1 DEF SchedulerTypeOK
<1>6. CASE SleepRegister
  <2>1. /\ mode = "NONE" /\ ActiveThread # IdleThread /\ pc[ActiveThread] = "main"
        /\ timer' = [timer EXCEPT ![ActiveThread] = "TIMER"]
        /\ sleepSignal' = [sleepSignal EXCEPT ![ActiveThread] = FALSE]
        /\ pc' = [pc EXCEPT ![ActiveThread] = "armed"]
        /\ UNCHANGED State
    BY <1>6 DEF SleepRegister, ThreadCode, threadVars
  <2>2. ActiveThread \in Threads /\ State[ActiveThread] = "RUNNING"
    BY <2>1, ThreadRuns
  <2> QED
    BY <1>0, <2>1, <2>2 DEF SchedulerTypeOK
<1>7. CASE SleepWait
  <2>1. /\ ActiveThread \in Threads /\ pc[ActiveThread] = "armed"
        /\ UNCHANGED <<timer, sleepSignal>>
    BY <1>7, BodyRuns DEF SleepWait
  <2>2. PlaceSound(ActiveThread)
    BY <2>1 DEF SchedulerInv
  <2>3. CASE /\ sleepSignal[ActiveThread] /\ pc' = [pc EXCEPT ![ActiveThread] = "main"]
             /\ UNCHANGED State
    BY <1>0, <2>1, <2>2, <2>3 DEF SchedulerTypeOK
  <2>4. CASE /\ ~ sleepSignal[ActiveThread] /\ pc' = [pc EXCEPT ![ActiveThread] = "asleep"]
             /\ State' = [State EXCEPT ![ActiveThread] = "BLOCKED"]
    BY <1>0, <2>1, <2>2, <2>4 DEF SchedulerTypeOK
  <2> QED
    BY <1>7, <2>3, <2>4 DEF SleepWait, SchedulerBlockThread, BlockState
<1>8. CASE SchedulerThreadExit
  <2>1. ActiveThread \in Threads /\ pc[ActiveThread] = "main"
    BY <1>8, BodyRuns DEF SchedulerThreadExit
  <2>2. State' = [State EXCEPT ![ActiveThread] = "DONE"] /\ UNCHANGED sleepVars
    BY <1>8 DEF SchedulerThreadExit
  <2> QED
    BY <1>0, <2>1, <2>2 DEF SchedulerTypeOK, sleepVars
<1>9. ASSUME NEW t \in Sleepers, SleepCritHandler(t)
      PROVE  PlaceSound(u)'
  <2>1. /\ Popped(t)
        /\ timer' = [timer EXCEPT ![t] = "READY"]
        /\ sleepSignal' = [sleepSignal EXCEPT ![t] = TRUE]
    BY <1>9 DEF SleepCritHandler
  <2>2. t \in Threads /\ timer[t] = "CRIT"
    BY <1>0, <2>1, PoppedHandler, ThreadsAssumption DEF HandlersSound
  <2>3. CASE /\ pc[t] = "asleep" /\ pc' = [pc EXCEPT ![t] = "main"]
             /\ State' = [State EXCEPT ![t] = "RUNNING"]
    BY <1>0, <2>1, <2>2, <2>3 DEF SchedulerTypeOK
  <2>4. CASE pc[t] # "asleep" /\ UNCHANGED <<State, pc>>
    BY <1>0, <2>1, <2>2, <2>4 DEF SchedulerTypeOK
  <2> QED
    BY <1>9, <2>3, <2>4 DEF SleepCritHandler, SchedulerResumeThread, ResumeState
<1>10. ASSUME NEW t \in Sleepers, SleepTimerHandler(t)
       PROVE  PlaceSound(u)'
  <2>1. /\ t \in Threads /\ timer[t] = "TIMER" /\ timer' = [timer EXCEPT ![t] = "CRIT"]
        /\ UNCHANGED <<State, pc, sleepSignal>>
    BY <1>10, ThreadsAssumption DEF SleepTimerHandler, threadVars
  <2> QED
    BY <1>0, <2>1 DEF SchedulerTypeOK
<1> QED
  BY <1>2, <1>3, <1>4, <1>5, <1>6, <1>7, <1>8, <1>9, <1>10
     DEF SchedulerNext, ThreadStep, CritStep, SoftStep

(* Every step keeps the count of the threads that are alive.               *)
LEMMA ShutdownStep ==
  ASSUME SchedulerInv, SchedulerNext
  PROVE  ShutdownExact'
<1>0. SchedulerTypeOK /\ ShutdownExact
  BY DEF SchedulerInv
<1>a. IsFiniteSet(Alive) /\ Cardinality(Alive) \in Nat
  <2>1. IsFiniteSet(Alive)
    BY ThreadsAssumption, FS_Subset DEF Alive
  <2> QED
    BY <2>1, FS_CardinalityType
<1>1. CASE Alive' = Alive /\ UNCHANGED exitVars
  BY <1>0, <1>1 DEF exitVars, ShutdownExact
<1>2. CASE UNCHANGED <<State, exitVars>>
  <2>1. Alive' = Alive
    BY <1>2 DEF Alive
  <2> QED
    BY <1>1, <1>2, <2>1
<1>3. CASE SchedulerStartCritical \/ SchedulerForceSwitch \/ SleepRegister \/ KernelStart
             \/ SchedulerEndCritical \/ DeliverCrit \/ SchedulerCritHandler \/ SwitchDone
             \/ CritInterruptReturn \/ SchedulerTimerHandler \/ HalShutdownNow
             \/ \E t \in Sleepers : SleepTimerHandler(t)
  BY <1>2, <1>3 DEF SchedulerStartCritical, SchedulerForceSwitch, SleepRegister, KernelStart,
       SchedulerEndCritical, DeliverCrit, SchedulerCritHandler, SwitchDone, CritInterruptReturn,
       SchedulerTimerHandler, HalShutdownNow, SleepTimerHandler, schedVars, threadVars
<1>4. ASSUME NEW t \in Threads, NEW start \in BOOLEAN, SchedulerCreateThread(t, start)
      PROVE  ShutdownExact'
  <2>1. State[t] \in {"NONE", "DONE"} /\ ~ halted
    BY <1>4, CreateNew
  <2>2. /\ State' \in {[State EXCEPT ![t] = "RUNNING"], [State EXCEPT ![t] = "BLOCKED"]}
        /\ RunningThreads' = RunningThreads + 1 /\ UNCHANGED <<Shutdown, halted>>
    BY <1>4 DEF SchedulerCreateThread, SchedulerResumeThread, ResumeState, BlockState
  <2>3. Alive' = Alive \cup {t} /\ t \notin Alive
    BY <1>0, <2>1, <2>2 DEF Alive, SchedulerTypeOK
  <2>4. Cardinality(Alive') = Cardinality(Alive) + 1
    BY <1>a, <2>3, FS_AddElement
  <2> QED
    BY <1>0, <1>a, <2>1, <2>2, <2>3, <2>4 DEF ShutdownExact
<1>5. CASE SchedulerBlockOnLock \/ SleepWait
  <2>1. ActiveThread \in Threads /\ State[ActiveThread] = "RUNNING"
    BY <1>5, BodyRuns DEF SchedulerBlockOnLock, SleepWait
  <2>2. /\ State' \in {State, [State EXCEPT ![ActiveThread] = "BLOCKED"]}
        /\ UNCHANGED exitVars
    BY <1>5 DEF SchedulerBlockOnLock, SleepWait, SchedulerBlockThread, BlockState
  <2>3. Alive' = Alive
    BY <1>0, <2>1, <2>2 DEF Alive, SchedulerTypeOK
  <2> QED
    BY <1>1, <2>2, <2>3
<1>6. ASSUME NEW t \in Threads, SchedulerWakeOnLock(t)
      PROVE  ShutdownExact'
  <2>1. State[t] = "BLOCKED" /\ State' = [State EXCEPT ![t] = "RUNNING"] /\ UNCHANGED exitVars
    BY <1>6 DEF SchedulerWakeOnLock, SchedulerResumeThread, ResumeState
  <2>2. Alive' = Alive
    BY <1>0, <2>1 DEF Alive, SchedulerTypeOK
  <2> QED
    BY <1>1, <2>1, <2>2
<1>7. CASE SchedulerThreadExit
  <2>1. ActiveThread \in Threads /\ State[ActiveThread] = "RUNNING" /\ ~ halted
    BY <1>7, BodyRuns DEF SchedulerThreadExit
  <2>2. /\ State' = [State EXCEPT ![ActiveThread] = "DONE"]
        /\ RunningThreads' = RunningThreads - 1
        /\ halted' = (Shutdown /\ RunningThreads' = 1)
        /\ UNCHANGED Shutdown
    BY <1>7 DEF SchedulerThreadExit, OnlyIdleLeft
  <2>3. Alive' = Alive \ {ActiveThread} /\ ActiveThread \in Alive
    BY <1>0, <2>1, <2>2 DEF Alive, SchedulerTypeOK
  <2>4. /\ IsFiniteSet(Alive') /\ Cardinality(Alive') = Cardinality(Alive) - 1
    BY <1>a, <2>3, FS_RemoveElement
  <2>5. Cardinality(Alive') = 0 <=> Alive' = {}
    BY <2>4, FS_EmptySet
  <2>6. RunningThreads' = 1 + Cardinality(Alive')
    BY <1>0, <1>a, <2>2, <2>4 DEF ShutdownExact
  <2>7. RunningThreads' = 1 <=> Alive' = {}
    BY <1>a, <2>4, <2>5, <2>6
  <2> QED
    BY <2>2, <2>6, <2>7 DEF ShutdownExact
<1>8. CASE SchedulerShutdown
  <2>1. ActiveThread \in Threads /\ State[ActiveThread] = "RUNNING" /\ ~ halted
    BY <1>8, BodyRuns DEF SchedulerShutdown
  <2>2. Shutdown' = TRUE /\ UNCHANGED <<State, RunningThreads, halted>>
    BY <1>8 DEF SchedulerShutdown, threadVars
  <2>3. Alive' = Alive /\ ActiveThread \in Alive
    BY <2>1, <2>2 DEF Alive
  <2> QED
    BY <1>0, <2>1, <2>2, <2>3 DEF ShutdownExact
<1>9. ASSUME NEW t \in Sleepers, SleepCritHandler(t)
      PROVE  ShutdownExact'
  <2>1. /\ UNCHANGED exitVars
        /\ \/ State' = State
           \/ pc[t] = "asleep" /\ State' = [State EXCEPT ![t] = "RUNNING"]
    BY <1>9 DEF SleepCritHandler, SchedulerResumeThread, ResumeState
  <2>2. t \in Threads /\ PlaceSound(t)
    BY ThreadsAssumption DEF SchedulerInv
  <2>3. Alive' = Alive
    BY <1>0, <2>1, <2>2 DEF Alive, SchedulerTypeOK, PlaceSound
  <2> QED
    BY <1>1, <2>1, <2>3
<1> QED
  BY <1>3, <1>4, <1>5, <1>6, <1>7, <1>8, <1>9 DEF SchedulerNext, ThreadStep, CritStep, SoftStep

(* Every step keeps the invariant.                                         *)
LEMMA SchedulerStep ==
  ASSUME SchedulerInv, [SchedulerNext]_schedVars
  PROVE  SchedulerInv'
<1>1. CASE SchedulerNext
  <2>1. \A t \in Threads : PlaceSound(t)'
    BY <1>1, PlaceStep
  <2> QED
    BY <1>1, <2>1, TypeStep, ActiveStep, QueueStep, HandlersStep, ShutdownStep DEF SchedulerInv
<1>2. CASE UNCHANGED schedVars
  <2>1. Alive' = Alive
    BY <1>2 DEF schedVars, threadVars, Alive
  <2> QED
    BY <1>2, <2>1 DEF schedVars, critVars, threadVars, sleepVars, exitVars, SchedulerInv,
         SchedulerTypeOK, ActiveSound, QueueSound, HandlersSound, PlaceSound, ShutdownExact
<1> QED
  BY <1>1, <1>2

(* The invariant holds in every state of every behaviour.                  *)
LEMMA SchedulerInductive == SchedulerSpec => []SchedulerInv
<1>1. SchedulerStartup => SchedulerInv
  BY SchedulerInit
<1>2. SchedulerInv /\ [SchedulerNext]_schedVars => SchedulerInv'
  BY SchedulerStep
<1> QED
  BY <1>1, <1>2, PTL DEF SchedulerSpec

(* A thread that is blocked or done does not execute, and the run queue    *)
(* holds the running threads that Schedule may switch to, each once.       *)
THEOREM SchedulerThreadsSound == SchedulerSpec => []ThreadsSound
<1>1. SchedulerInv => ThreadsSound
  <2> SUFFICES ASSUME SchedulerInv PROVE ThreadsSound
    OBVIOUS
  <2>1. SchedulerTypeOK /\ ActiveSound /\ QueueSound
    BY DEF SchedulerInv
  <2> QED
    BY <2>1 DEF ThreadsSound, ActiveSound, QueueSound
<1> QED
  BY <1>1, SchedulerInductive, PTL

(* The switch and the sleepers' handlers are in the CRIT list exactly when *)
(* they are due, once, and the list is never left with a switch in it and  *)
(* no interrupt to come.                                                   *)
THEOREM SchedulerHandlersSound == SchedulerSpec => []HandlersSound
<1>1. SchedulerInv => HandlersSound
  BY DEF SchedulerInv
<1> QED
  BY <1>1, SchedulerInductive, PTL

(* Who sleeps has a timer or a handler that will wake it, and is blocked   *)
(* when it does.                                                           *)
THEOREM SchedulerSleeperHasWaker == SchedulerSpec => []SleeperHasWaker
<1>1. SchedulerInv => SleeperHasWaker
  BY DEF SchedulerInv, PlaceSound, SleeperHasWaker
<1> QED
  BY <1>1, SchedulerInductive, PTL

(* RunningThreads is exact, and the machine stops exactly when the last    *)
(* thread ends after SchedulerShutdown.                                    *)
THEOREM SchedulerShutdownExact == SchedulerSpec => []ShutdownExact
<1>1. SchedulerInv => ShutdownExact
  BY DEF SchedulerInv
<1> QED
  BY <1>1, SchedulerInductive, PTL
=============================================================================
