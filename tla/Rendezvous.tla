----------------------------- MODULE Rendezvous -----------------------------
(***************************************************************************)
(* Contexts that wait for a signal and then for one another, over and      *)
(* over, while somebody sets and unsets the signal at any time.  The calls *)
(* of a context are those of test/test7.c and test/test12.c: a thread      *)
(* blocks in the call, another context polls until it is told.             *)
(***************************************************************************)
EXTENDS Barrier, Signal

CONSTANT MaxRounds      \* bound on the rounds

VARIABLES
  meeting,       \* what a context waits for, if anything
  arrived,       \* how often it has called BarrierSync
  passed,        \* how often it has gone on after that
  stopped        \* a context was let go that had been let go already

meetVars == <<lockState, barrierVars, signalVars, meeting, arrived, passed, stopped>>

MeetInit ==
  /\ LockingInit /\ BarrierInit /\ SignalInit(FALSE)
  /\ meeting = [c \in Contexts |-> "start"]
  /\ arrived = [c \in Contexts |-> 0]
  /\ passed = [c \in Contexts |-> 0]
  /\ stopped = FALSE

Goes(c, from, to) == meeting[c] = from /\ meeting' = [meeting EXCEPT ![c] = to]

(* The calls of LockingAcquire for those in woken meet their assertion.    *)
Acquires(woken) == stopped' = (stopped \/ \E c \in woken : ~ CanAcquire(c))

Wait(c) ==
  /\ arrived[c] < MaxRounds
  /\ Goes(c, "start", "signal")
  /\ SignalWaitForSignal(c)
  /\ Acquires(IF SignalState THEN {c} ELSE {})
  /\ UNCHANGED <<barrierVars, arrived, passed>>

Sync(c) ==
  /\ Goes(c, "ready", "barrier")
  /\ BarrierSync(c)
  /\ Acquires(IF EverybodyHere THEN {c} \cup Nodes(BarrierList) ELSE {})
  /\ arrived' = [arrived EXCEPT ![c] = @ + 1]
  /\ UNCHANGED <<signalVars, passed>>

(* The context runs again, or is told when it polls.                       *)
Released(c) ==
  IF Kind[c] = "THREAD" THEN LockingIsFree(c) /\ UNCHANGED lockState ELSE LockingIsAcquired(c)

Return(c) ==
  /\ Released(c)
  /\ \/ Goes(c, "signal", "ready") /\ UNCHANGED passed
     \/ Goes(c, "barrier", "start") /\ passed' = [passed EXCEPT ![c] = @ + 1]
  /\ UNCHANGED <<barrierVars, signalVars, arrived, stopped>>

Set ==
  /\ SignalSet
  /\ Acquires(IF SignalState THEN {} ELSE Nodes(SignalWaiting))
  /\ UNCHANGED <<barrierVars, meeting, arrived, passed>>

Unset == SignalUnset /\ UNCHANGED <<barrierVars, meeting, arrived, passed, stopped>>

MeetNext ==
  \/ \E c \in Contexts : Wait(c) \/ Sync(c) \/ Return(c)
  \/ Set \/ Unset

MeetSpec == MeetInit /\ [][MeetNext]_meetVars

(* The contexts run, and the signal is set again and again, but may be     *)
(* unset before anybody has run.                                           *)
MeetFairness ==
  /\ \A c \in Contexts : WF_meetVars(Wait(c) \/ Sync(c) \/ Return(c))
  /\ []<>SignalState

-----------------------------------------------------------------------------

(* Nobody goes on from its n-th BarrierSync before everybody has called it *)
(* n times, though those who are let go may be back before others have     *)
(* run; Present counts those who wait.  Nobody waits for a signal that is  *)
(* set (the assertion of SignalSet).  A context is blocked exactly while   *)
(* it is in one of the lists, once, and so no assertion of locking.c       *)
(* fails.                                                                  *)
MeetInv ==
  /\ \A c, d \in Contexts : passed[c] <= arrived[d]
  /\ Present = Len(BarrierList)
  /\ SignalState => SignalWaiting = <<>>
  /\ Distinct(BarrierList \o SignalWaiting)
  /\ \A c \in Contexts : lockState[c] = "BLOCKING" <=> c \in Nodes(BarrierList \o SignalWaiting)
  /\ ~ stopped

AllPassed == \A c \in Contexts : passed[c] = MaxRounds

(* Everybody comes through every round: a signal that is unset at once has *)
(* been seen by those who waited, and nobody is forgotten at the barrier.  *)
EverybodyMeets == <>AllPassed
=============================================================================
