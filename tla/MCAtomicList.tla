---------------------------- MODULE MCAtomicList ----------------------------
(***************************************************************************)
(* The two handler lists of the kernel.                                    *)
(*                                                                         *)
(* The SOFT list is drained at level 2 and its handlers, the timers, are   *)
(* all queued by the timer interrupt, at level 5.  The CRIT list is        *)
(* drained at level 1; a handler is queued from a critical section         *)
(* (SchedulerNeedsSwitch called by a thread, level 1), from a software     *)
(* interrupt (a sleeper's timer, level 2) and from the serial interrupt    *)
(* (level 4).                                                              *)
(***************************************************************************)
EXTENDS AtomicList

CONSTANTS h1, h2, h3

SoftLevel == [n \in Node |-> 5]

CritLevel == [n \in Node |-> IF n = h1 THEN 1 ELSE IF n = h2 THEN 2 ELSE 4]
=============================================================================
