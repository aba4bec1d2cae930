------------------------------ MODULE MCWorker ------------------------------
(***************************************************************************)
(* Two producers and two consumers: used as test6 does, with owners that   *)
(* are CRIT handlers and consumers that may go on until they are blocked;  *)
(* with owners that are threads, with items that pend, with a semaphore    *)
(* that anybody raises, and with any two of these.                         *)
(***************************************************************************)
EXTENDS Worker

CONSTANTS p1, p2, c1, c2

MCKind == [i \in Contexts |-> "WORKER"]

AsTest6 == [threads |-> {}, pend |-> {}, others |-> FALSE]

MCUsages ==
  {u \in [threads : {{}, {p1, c1}}, pend : {{}, {c1}}, others : BOOLEAN] :
     u.threads = {} \/ u.pend = {} \/ ~u.others}
=============================================================================
