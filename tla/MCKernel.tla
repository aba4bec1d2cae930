------------------------------ MODULE MCKernel ------------------------------
(***************************************************************************)
(* What threads run on, one part in each behaviour: three threads and a    *)
(* polled context on a semaphore that starts open and one that starts      *)
(* closed; the same contexts on a signal and a barrier; and the scheduler, *)
(* with its own threads.                                                   *)
(***************************************************************************)
EXTENDS SemaphoreUse, Scheduler

CONSTANTS t1, t2, t3, p1, open, closed, MaxRounds

VARIABLES
  part,         \* "semaphore", "rendezvous" or "scheduler"
  meetState, Present, BarrierList, SignalState, SignalWaiting, meeting, arrived, passed,
  stopped       \* the variables of Rendezvous

roundVars == <<meetState, Present, BarrierList, SignalState, SignalWaiting, meeting, arrived,
               passed, stopped>>

kernelVars == <<useVars, roundVars, schedVars, part>>

MCKind == [c \in Contexts |-> IF c = p1 THEN "PLAIN" ELSE "THREAD"]

MCInitialCount == [s \in Semaphores |-> IF s = open THEN 2 ELSE 0]

R == INSTANCE Rendezvous WITH lockState <- meetState, Needed <- Cardinality(Contexts)

KernelInit ==
  /\ UseInit /\ R!MeetInit /\ SchedulerStartup
  /\ part \in {"semaphore", "rendezvous", "scheduler"}

KernelNext ==
  /\ \/ part = "semaphore" /\ UseNext /\ UNCHANGED <<roundVars, schedVars>>
     \/ part = "rendezvous" /\ R!MeetNext /\ UNCHANGED <<useVars, schedVars>>
     \/ part = "scheduler" /\ SchedulerNext /\ UNCHANGED <<useVars, roundVars>>
  /\ UNCHANGED part

Meets(A) == part = "rendezvous" /\ A /\ UNCHANGED <<useVars, schedVars, part>>

Schedules(A) == part = "scheduler" /\ A /\ UNCHANGED <<useVars, roundVars, part>>

(* UseFairness, MeetFairness and SchedulerFairness, each in its part.      *)
KernelFairness ==
  /\ UseFairness
  /\ \A c \in Contexts : WF_kernelVars(Meets(R!Wait(c) \/ R!Sync(c) \/ R!Return(c)))
  /\ []<>(part = "rendezvous" => SignalState)
  /\ WF_kernelVars(Schedules(SchedulerEndCritical))
  /\ WF_kernelVars(Schedules(mode = "OPEN" /\ ThreadStep))
  /\ WF_kernelVars(Schedules(CritStep))
  /\ WF_kernelVars(Schedules(SchedulerTimerHandler))
  /\ WF_kernelVars(Schedules(KernelStart))

KernelSpec == KernelInit /\ [][KernelNext]_kernelVars /\ KernelFairness

(* See Rendezvous.tla: the barrier keeps everybody in step, the signal     *)
(* holds nobody back, and no assertion fails.                              *)
MeetInv == R!MeetInv

(* See Rendezvous.tla: everybody comes through every round.                *)
EverybodyMeets == <>(part = "rendezvous" => R!AllPassed)
=============================================================================
