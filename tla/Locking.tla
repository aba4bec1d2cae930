------------------------------ MODULE Locking ------------------------------
(***************************************************************************)
(* The locking unit (kernel/locking.c): the state machine of a             *)
(* LOCKING_CONTEXT.  Every lock of the kernel moves a context through it   *)
(* inside a critical section (CRIT interrupts disabled on the only CPU),   *)
(* so a lock operation is atomic with respect to every other one.          *)
(*                                                                         *)
(* A context is embedded in a thread (it blocks the thread and resumes     *)
(* it), in a work item (it re-queues the item), or stands alone and is     *)
(* polled with LockingIsAcquired.                                          *)
(***************************************************************************)
EXTENDS Lists, FiniteSets

CONSTANTS
  Contexts,    \* the locking contexts in play
  Kind         \* the block and wake functions each was initialised with

ASSUME ContextsAssumption == IsFiniteSet(Contexts)

ASSUME KindAssumption == Kind \in [Contexts -> {"THREAD", "PLAIN", "WORKER"}]

VARIABLE lockState    \* context->State

LockingStates == {"READY", "BLOCKING", "ACQUIRED"}

LockingInit == lockState = [c \in Contexts |-> "READY"]

(* The state a wake function leaves behind.  A thread needs no             *)
(* notification: it is running again.  The others learn from               *)
(* LockingIsAcquired.                                                      *)
WakeFunction(c) == IF Kind[c] = "THREAD" THEN "READY" ELSE "ACQUIRED"

(* The assertion of LockingAcquire and the panic of the wake functions.    *)
CanAcquire(c) == lockState[c] \in {"READY", "BLOCKING"}

LockingAcquire(woken) ==
  lockState' = [c \in Contexts |-> IF c \in woken THEN WakeFunction(c) ELSE lockState[c]]

LockingBlock(c) == lockState' = [lockState EXCEPT ![c] = "BLOCKING"]

LockingIsFree(c) == lockState[c] = "READY"

(* LockingIsAcquired returning true: the caller owns the lock and the      *)
(* context can be used again.  On a BLOCKING context it returns false and  *)
(* changes nothing.                                                        *)
LockingIsAcquired(c) ==
  /\ lockState[c] = "ACQUIRED"
  /\ lockState' = [lockState EXCEPT ![c] = "READY"]
=============================================================================
