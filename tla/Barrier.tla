------------------------------ MODULE Barrier ------------------------------
(***************************************************************************)
(* The barrier unit (kernel/barrier.c).  BarrierSync is one critical       *)
(* section, so one step.                                                   *)
(***************************************************************************)
EXTENDS Locking

CONSTANT Needed      \* barrier->Needed

VARIABLES
  Present,           \* barrier->Present
  BarrierList        \* barrier->List

barrierVars == <<Present, BarrierList>>

BarrierInit == Present = 0 /\ BarrierList = <<>>

(* Bug: the caller counts itself after the test.                           *)
BugEverybodyHere == Present = Needed

EverybodyHere == Present + 1 = Needed

(* The last to come lets everybody go on, itself included.                 *)
BarrierSync(c) ==
  \/ /\ EverybodyHere
     /\ Present' = 0
     /\ LockingAcquire({c} \cup Nodes(BarrierList))
     /\ BarrierList' = <<>>
  \/ /\ ~ EverybodyHere
     /\ Present' = Present + 1
     /\ LockingBlock(c)
     /\ BarrierList' = LinkedListEnqueue(c, BarrierList)
=============================================================================
