----------------------------- MODULE MCResource -----------------------------
(***************************************************************************)
(* Four threads and one polled context (the writers of test/test3.c poll,  *)
(* its readers block) contend for one resource; or the resource is the     *)
(* ResultLock of one of the threads and the others join it.                *)
(***************************************************************************)
EXTENDS ThreadJoin

CONSTANTS t1, t2, t3, t4, p1

VARIABLE joins     \* which of the two it is

dualVars == <<joinVars, joins>>

MCContexts == {t1, t2, t3, t4, p1}

MCKind == [c \in Contexts |-> IF c = p1 THEN "PLAIN" ELSE "THREAD"]

DualInit ==
  /\ joins \in BOOLEAN
  /\ \/ ~ joins /\ ResourceInit /\ at = [t \in Contexts |-> "main"]
     \/ joins /\ JoinInit

DualNext ==
  \/ ~ joins /\ ResourceNext /\ UNCHANGED <<at, joins>>
  \/ joins /\ JoinNext /\ UNCHANGED joins

(* See ResourceFairness and JoinFairness.                                  *)
DualFairness ==
  /\ \A c \in Contexts :
       /\ WF_dualVars(~ joins /\ (ResourceUnlockShared(c) \/ ResourceUnlockExclusive(c))
                        /\ UNCHANGED <<at, joins>>)
       /\ WF_dualVars(~ joins /\ PollAcquired(c) /\ UNCHANGED <<at, joins>>)
  /\ WF_dualVars(joins /\ (ExitUnlock \/ ExitLock \/ ExitDone) /\ UNCHANGED joins)
  /\ \A t \in Joiners :
       WF_dualVars(joins /\ (JoinReturn(t) \/ SchedulerReleaseThread(t)) /\ UNCHANGED joins)

DualSpec == DualInit /\ [][DualNext]_dualVars /\ DualFairness

(* Everybody who queues for the lock is served: NoStarvation.              *)
ResourceServesAll == ~ joins => NoStarvation

(* A thread dies once those who joined it have released it: ThreadDies.    *)
JoinedThreadDies == joins => ThreadDies
=============================================================================
