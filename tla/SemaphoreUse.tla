---------------------------- MODULE SemaphoreUse ----------------------------
(***************************************************************************)
(* Semaphores in the two ways the kernel uses them: a context goes down    *)
(* and up again around a section, one semaphore at a time; and a producer  *)
(* goes up without having gone down.                                       *)
(***************************************************************************)
EXTENDS Semaphore

CONSTANT MaxPosts      \* bound on the ups of producers

ASSUME MaxPostsAssumption == MaxPosts \in Nat

VARIABLES
  users,     \* who went down on each semaphore and not up again
  posts,     \* the ups of producers
  line,      \* the pairs of contexts that wait for each semaphore of which the first
             \* came before the second, and each of them with itself
  panic      \* the assertion of LockingAcquire, or a panic, was reached

useVars == <<semaphoreVars, users, posts, line, panic>>

UseTypeOK ==
  /\ SemaphoreTypeOK
  /\ users \in [Semaphores -> SUBSET Contexts]
  /\ posts \in [Semaphores -> Nat]
  /\ panic \in BOOLEAN

UseInit ==
  /\ SemaphoreInit
  /\ users = [s \in Semaphores |-> {}]
  /\ posts = [s \in Semaphores |-> 0]
  /\ line = [s \in Semaphores |-> {}]
  /\ panic = FALSE

Waiting(s) == Nodes(WaitingThreads[s])

(* Who is in the line of a semaphore.                                      *)
InLine(s) == {c \in Contexts : <<c, c>> \in line[s]}

(* Whom an up calls LockingAcquire for.                                    *)
Front(s) == IF WaitingThreads[s] = <<>> THEN {} ELSE {Head(WaitingThreads[s])}

(* Who no longer waits after this step.                                    *)
Woken == {d \in Contexts : lockState[d] = "BLOCKING" /\ lockState'[d] # "BLOCKING"}

Down(s, c) ==
  /\ ~ panic
  /\ LockingIsFree(c) /\ \A r \in Semaphores : c \notin users[r]
  /\ SemaphoreDown(s, c)
  /\ users' = IF Count[s] = 0 THEN users ELSE [users EXCEPT ![s] = @ \cup {c}]
  /\ line' = IF Count[s] = 0 THEN [line EXCEPT ![s] = @ \cup ((InLine(s) \cup {c}) \X {c})]
             ELSE line
  /\ panic' = (Count[s] # 0 /\ ~ CanAcquire(c))
  /\ UNCHANGED posts

(* An up, after which those in gone are no longer inside.                  *)
Raise(s, gone) ==
  /\ SemaphoreUp(s)
  /\ users' = [users EXCEPT ![s] = (@ \ gone) \cup Woken]
  /\ line' = [line EXCEPT ![s] = @ \ {p \in @ : p[1] \in Woken \/ p[2] \in Woken}]
  /\ panic' = (\E d \in Front(s) : ~ CanAcquire(d))

Up(s, c) ==
  /\ ~ panic
  /\ LockingIsFree(c) /\ c \in users[s]
  /\ Raise(s, {c})
  /\ UNCHANGED posts

Post(s) ==
  /\ ~ panic
  /\ posts[s] < MaxPosts
  /\ posts' = [posts EXCEPT ![s] = @ + 1]
  /\ Raise(s, {})

PollAcquired(c) ==
  /\ ~ panic
  /\ LockingIsAcquired(c)
  /\ UNCHANGED <<Count, WaitingThreads, users, posts, line, panic>>

UseNext ==
  \/ \E s \in Semaphores, c \in Contexts : Down(s, c) \/ Up(s, c)
  \/ \E s \in Semaphores : Post(s)
  \/ \E c \in Contexts : PollAcquired(c)

UseSpec == UseInit /\ [][UseNext]_useVars

(* Sections end and polled contexts poll.  Nobody has to post.             *)
UseFairness ==
  \A c \in Contexts :
     /\ WF_useVars(\E s \in Semaphores : Up(s, c))
     /\ WF_useVars(PollAcquired(c))

-----------------------------------------------------------------------------

(* A semaphore never admits more, or fewer, than it was given: the count   *)
(* and the contexts inside add up to the initial count and the posts, over *)
(* any mix of waiting, handing over and posting.                           *)
Conservation ==
  \A s \in Semaphores :
     Count[s] + Cardinality(users[s]) = InitialCount[s] + posts[s]

(* "Calling up will unblock the thread": nobody waits while there is       *)
(* something to take.                                                      *)
NobodyWaitsInVain ==
  \A s \in Semaphores : Count[s] > 0 => WaitingThreads[s] = <<>>

(* A context is blocked exactly while it is in one queue, once, and what   *)
(* it waits for it does not have.                                          *)
WaitersBlocked ==
  /\ \A c \in Contexts : lockState[c] = "BLOCKING" <=> \E s \in Semaphores : c \in Waiting(s)
  /\ \A s \in Semaphores : Distinct(WaitingThreads[s])
  /\ \A s, r \in Semaphores : s # r => Waiting(s) \cap Waiting(r) = {}
  /\ \A s, r \in Semaphores : Waiting(s) \cap users[r] = {}
  /\ \A s, r \in Semaphores : s # r => users[s] \cap users[r] = {}

(* No assertion of locking.c fails when a context is let in.               *)
NoPanic == ~ panic

(* A polled context that was told it went down is inside.                  *)
AcquiredUses ==
  \A c \in Contexts : lockState[c] = "ACQUIRED" => \E s \in Semaphores : c \in users[s]

(* All of the above, which together are inductive: what a semaphore admits *)
(* is what it was given, nobody waits while there is something to take,    *)
(* and so no assertion fails.                                              *)
UseInv ==
  /\ UseTypeOK
  /\ NoPanic
  /\ Conservation
  /\ NobodyWaitsInVain
  /\ WaitersBlocked
  /\ AcquiredUses

(* "Threads will be unblocked in the order in which they were blocked":    *)
(* whoever gets in came before everybody who keeps waiting.                *)
InOrder ==
  [][\A s \in Semaphores : \A c \in users'[s] \ users[s], d \in InLine(s) \ users'[s] :
        <<c, d>> \in line[s]]_useVars

(* "Starvation safe": where what is taken is given back, everybody who     *)
(* waits gets in.                                                          *)
NoStarvation ==
  \A s \in Semaphores, c \in Contexts :
     InitialCount[s] > 0 => (c \in Waiting(s) ~> c \in users[s])
=============================================================================
