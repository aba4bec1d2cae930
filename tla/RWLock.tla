------------------------------- MODULE RWLock -------------------------------
(***************************************************************************)
(* What a reader/writer lock that is "starvation safe" promises: requests  *)
(* that cannot be granted queue up, and whenever the lock is given up the  *)
(* longest compatible prefix of the queue gets it.  Nothing is said of how *)
(* the lock knows who holds it.                                            *)
(***************************************************************************)
EXTENDS Integers, Sequences

CONSTANT Clients

VARIABLES
  held,     \* how each client holds the lock
  queue     \* the requests that wait, oldest first

rwVars == <<held, queue>>

Modes == {"SHARED", "EXCLUSIVE"}

Idle == [c \in Clients |-> "NONE"]

(* One writer alone, or any number of readers.                             *)
Compatible(h) ==
  \A c, d \in Clients : c # d /\ h[c] = "EXCLUSIVE" => h[d] = "NONE"

(* The holders once the first n requests have been granted.                *)
Granted(h, q, n) ==
  [c \in Clients |->
     IF \E i \in 1..n : q[i].who = c
     THEN q[CHOOSE i \in 1..n : q[i].who = c].mode
     ELSE h[c]]

(* n is the length of the longest prefix of q that can be granted.         *)
Longest(h, q, n) ==
  /\ Compatible(Granted(h, q, n))
  /\ n < Len(q) => ~ Compatible(Granted(h, q, n + 1))

Init ==
  /\ queue = <<>>
  /\ \/ held = Idle
     \/ \E c \in Clients : held = [Idle EXCEPT ![c] = "EXCLUSIVE"]

Lock(c, m) ==
  LET taken == [held EXCEPT ![c] = m] IN
  /\ held[c] = "NONE"
  /\ \A i \in 1..Len(queue) : queue[i].who # c
  /\ \/ /\ queue = <<>> /\ Compatible(taken)
        /\ held' = taken
        /\ queue' = queue
     \/ /\ queue # <<>> \/ ~ Compatible(taken)
        /\ queue' = Append(queue, [who |-> c, mode |-> m])
        /\ held' = held

Unlock(c) ==
  LET freed == [held EXCEPT ![c] = "NONE"] IN
  /\ held[c] # "NONE"
  /\ \E n \in 0..Len(queue) :
        /\ Longest(freed, queue, n)
        /\ held' = Granted(freed, queue, n)
        /\ queue' = SubSeq(queue, n + 1, Len(queue))

Next ==
  \E c \in Clients :
     \/ \E m \in Modes : Lock(c, m)
     \/ Unlock(c)

Spec == Init /\ [][Next]_rwVars
=============================================================================
