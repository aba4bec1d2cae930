----------------------------- MODULE Semaphore -----------------------------
(***************************************************************************)
(* The semaphore unit (kernel/semaphore.c), for all the semaphores of a    *)
(* program.  Each operation runs between LockingStart and LockingEnd, so   *)
(* it is one step.                                                         *)
(***************************************************************************)
EXTENDS Locking

CONSTANTS
  Semaphores,
  InitialCount     \* the argument of SemaphoreInit

ASSUME InitialCountAssumption == InitialCount \in [Semaphores -> Nat]

VARIABLES
  Count,              \* lock->Count
  WaitingThreads      \* lock->WaitingThreads

semaphoreVars == <<lockState, Count, WaitingThreads>>

SemaphoreTypeOK ==
  /\ lockState \in [Contexts -> LockingStates]
  /\ Count \in [Semaphores -> Nat]
  /\ WaitingThreads \in [Semaphores -> Seq(Contexts)]

SemaphoreInit ==
  /\ LockingInit
  /\ Count = InitialCount
  /\ WaitingThreads = [s \in Semaphores |-> <<>>]

(* Bug: the context is stored in front of the others.                      *)
BugWaitFor(s, c) ==
  /\ LockingBlock(c)
  /\ WaitingThreads' = [WaitingThreads EXCEPT ![s] = <<c>> \o @]
  /\ UNCHANGED Count

WaitFor(s, c) ==
  /\ LockingBlock(c)
  /\ WaitingThreads' = [WaitingThreads EXCEPT ![s] = Append(@, c)]
  /\ UNCHANGED Count

SemaphoreDown(s, c) ==
  \/ Count[s] = 0 /\ WaitFor(s, c)
  \/ /\ Count[s] # 0
     /\ Count' = [Count EXCEPT ![s] = @ - 1]
     /\ LockingAcquire({c})
     /\ UNCHANGED WaitingThreads

(* Bug: the context is looked at with LinkedListFirst instead of popped.   *)
BugLetInFirst(s) ==
  /\ LockingAcquire({Head(WaitingThreads[s])})
  /\ UNCHANGED <<Count, WaitingThreads>>

(* The context that has waited longest goes on with what the caller gave   *)
(* up.                                                                     *)
LetIn(s) ==
  /\ LockingAcquire({Head(WaitingThreads[s])})
  /\ WaitingThreads' = [WaitingThreads EXCEPT ![s] = Tail(@)]
  /\ UNCHANGED Count

SemaphoreUp(s) ==
  \/ WaitingThreads[s] # <<>> /\ LetIn(s)
  \/ /\ WaitingThreads[s] = <<>>
     /\ Count' = [Count EXCEPT ![s] = @ + 1]
     /\ UNCHANGED <<lockState, WaitingThreads>>
=============================================================================
