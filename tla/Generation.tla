----------------------------- MODULE Generation -----------------------------
(***************************************************************************)
(* The generation unit (kernel/generation.c): a lock on which contexts     *)
(* wait while its value is the one they know of.  Each operation is one    *)
(* critical section, so one step.                                          *)
(***************************************************************************)
EXTENDS Locking

VARIABLES
  Value,         \* gen->Generation
  Waiters        \* gen->WaitingThreads

generationVars == <<Value, Waiters>>

GenerationInit == Value = 0 /\ Waiters = <<>>

(* Whoever knows of an older value goes on at once.                        *)
GenerationWait(value, c) ==
  \/ /\ Value = value
     /\ LockingBlock(c)
     /\ Waiters' = LinkedListEnqueue(c, Waiters)
     /\ UNCHANGED Value
  \/ /\ Value # value
     /\ LockingAcquire({c})
     /\ UNCHANGED generationVars

(* Everybody goes on.                                                      *)
GenerationUpdate(value) ==
  /\ Value' = value
  /\ LockingAcquire(Nodes(Waiters))
  /\ Waiters' = <<>>
=============================================================================
