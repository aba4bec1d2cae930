----------------------------- MODULE ThreadJoin -----------------------------
(***************************************************************************)
(* How a thread ends and how others wait for it (SchedulerThreadStartup    *)
(* after Main, SchedulerJoinThread, SchedulerReleaseThread), on top of the *)
(* resource that guards the thread's Result.  The thread is created        *)
(* holding its ResultLock exclusively.                                     *)
(***************************************************************************)
EXTENDS Resource

CONSTANT Target    \* the thread that ends; the other contexts may join it

ASSUME TargetAssumption == Target \in Contexts

VARIABLE at        \* where each thread is

joinVars == <<lockVars, at>>

(* Only a thread can wait for the end of another.                          *)
Joiners == {t \in Contexts \ {Target} : Kind[t] = "THREAD"}

JoinTypeOK ==
  /\ ResourceTypeOK
  /\ at \in [Contexts -> {"main", "unlocked", "locking", "done", "joining", "joined", "released"}]

JoinInit ==
  /\ ResourceInit
  /\ held[Target] = "EXCLUSIVE"
  /\ at = [t \in Contexts |-> "main"]

Move(t, from, to) == at[t] = from /\ at' = [at EXCEPT ![t] = to]

(* Lock calls return when the lock is granted.                             *)
Returned(t, mode) == held[t] = mode /\ LockingIsFree(t)

-----------------------------------------------------------------------------

(* Bug: the lock is not opened for the waiting threads.                    *)
BugExitUnlock == Move(Target, "main", "locking") /\ UNCHANGED lockVars

(* Main returned: Result is written, and the threads that wait for it are  *)
(* let in.                                                                 *)
ExitUnlock == Move(Target, "main", "unlocked") /\ ResourceUnlockExclusive(Target)

ExitLock == Move(Target, "unlocked", "locking") /\ ResourceLockExclusive(Target)

(* Bug: the lock is not taken again before the thread dies.                *)
BugExitDone ==
  /\ Move(Target, "unlocked", "done")
  /\ UNCHANGED lockVars

(* State = THREAD_STATE_DONE and the last switch away from the thread.     *)
ExitDone ==
  /\ Move(Target, "locking", "done")
  /\ Returned(Target, "EXCLUSIVE")
  /\ UNCHANGED lockVars

SchedulerJoinThread(t) == Move(t, "main", "joining") /\ ResourceLockShared(t)

JoinReturn(t) ==
  /\ Move(t, "joining", "joined")
  /\ Returned(t, "SHARED")
  /\ UNCHANGED lockVars

(* Bug: the release does not reach the lock.                               *)
BugSchedulerReleaseThread(t) == Move(t, "joined", "released") /\ UNCHANGED lockVars

SchedulerReleaseThread(t) == Move(t, "joined", "released") /\ ResourceUnlockShared(t)

JoinNext ==
  \/ ExitUnlock \/ ExitLock \/ ExitDone
  \/ \E t \in Joiners : SchedulerJoinThread(t) \/ JoinReturn(t) \/ SchedulerReleaseThread(t)

(* Threads that can run do run, Main returns, and who has joined releases  *)
(* the thread.  Nobody has to join.                                        *)
JoinFairness ==
  /\ WF_joinVars(ExitUnlock \/ ExitLock \/ ExitDone)
  /\ \A t \in Joiners : WF_joinVars(JoinReturn(t) \/ SchedulerReleaseThread(t))

JoinSpec == JoinInit /\ [][JoinNext]_joinVars /\ JoinFairness

-----------------------------------------------------------------------------

(* thread->State of the thread that ends.                                  *)
TargetState ==
  IF at[Target] = "done" THEN "DONE"
  ELSE IF lockState[Target] = "BLOCKING" THEN "BLOCKED" ELSE "RUNNING"

(* Who has joined a thread reads a Result that its main has returned; and  *)
(* a thread does not become DONE, after which its structure may be used    *)
(* for a new thread, while somebody who joined it has not released it.     *)
JoinSound ==
  /\ JoinTypeOK
  /\ \A t \in Joiners : at[t] = "joined" => at[Target] # "main"
  /\ TargetState = "DONE" => \A t \in Joiners : held[t] = "NONE"

(* A thread dies once those who joined it have released it.                *)
ThreadDies == <>[](TargetState = "DONE")

(* Who joins while the main of the thread has not returned gets the        *)
(* result.                                                                 *)
EarlyJoinReturns ==
  \A t \in Joiners : (at[t] = "joining" /\ at[Target] = "main") ~> (at[t] = "joined")

(* What test8 asserts of the thread it has joined: SchedulerIsThreadDead.  *)
JoinedIsDead == \A t \in Joiners : at[t] = "joined" => TargetState = "DONE"

(* What the comment of ResultLock says: it is held exclusively while the   *)
(* thread is running, and people waiting for Result get it shared.         *)
JoinReturns ==
  \A t \in Joiners : (at[t] = "joining") ~> (at[t] = "joined")
=============================================================================
