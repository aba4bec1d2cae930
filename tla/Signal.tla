------------------------------- MODULE Signal -------------------------------
(***************************************************************************)
(* The signal unit (kernel/signal.c).  Each operation is one critical      *)
(* section, so one step.                                                   *)
(***************************************************************************)
EXTENDS Locking

VARIABLES
  SignalState,         \* signal->State
  SignalWaiting        \* signal->WaitingThreads

signalVars == <<SignalState, SignalWaiting>>

SignalInit(state) == SignalState = state /\ SignalWaiting = <<>>

(* Bug: the state changes and nobody is let go.                            *)
BugSignalSet ==
  /\ SignalState' = TRUE
  /\ UNCHANGED <<lockState, SignalWaiting>>

(* Nothing to do when it is set already: nobody waits then.                *)
SignalSet ==
  \/ SignalState /\ UNCHANGED <<lockState, signalVars>>
  \/ /\ ~ SignalState
     /\ LockingAcquire(Nodes(SignalWaiting))
     /\ SignalWaiting' = <<>>
     /\ SignalState' = TRUE

SignalUnset == SignalState' = FALSE /\ UNCHANGED <<lockState, SignalWaiting>>

SignalWaitForSignal(c) ==
  \/ SignalState /\ LockingAcquire({c}) /\ UNCHANGED signalVars
  \/ /\ ~ SignalState
     /\ LockingBlock(c)
     /\ SignalWaiting' = LinkedListEnqueue(c, SignalWaiting)
     /\ UNCHANGED SignalState
=============================================================================
