------------------------------ MODULE Resource ------------------------------
(***************************************************************************)
(* The resource unit (kernel/resource.c): the dual mode lock.  Each        *)
(* operation runs between LockingStart and LockingEnd, so it is one        *)
(* action.  The lock does not store who holds it ("calls to this unit are  *)
(* on the honor system"): held is a history variable, and callers unlock   *)
(* only what they hold.                                                    *)
(***************************************************************************)
EXTENDS Locking

VARIABLES
  State,               \* lock->State
  NumShared,           \* lock->NumShared
  WaitingThreads,      \* lock->WaitingThreads
  ResourceWaitState,   \* context->BlockingContext.ResourceWaitState
  held,                \* what each context has been granted and not released
  panic                \* KernelPanic() was called or an ASSERT failed

lockVars == <<lockState, State, NumShared, WaitingThreads, ResourceWaitState, held, panic>>

ResourceModes == {"SHARED", "EXCLUSIVE"}

ResourceTypeOK ==
  /\ lockState \in [Contexts -> LockingStates]
  /\ State \in ResourceModes
  /\ NumShared \in Nat
  /\ WaitingThreads \in Seq(Contexts)
  /\ ResourceWaitState \in [Contexts -> ResourceModes]
  /\ held \in [Contexts -> ResourceModes \cup {"NONE"}]
  /\ panic \in BOOLEAN

NoneHeld == [c \in Contexts |-> "NONE"]

(* ResourceInit in either state; in the exclusive one the lock belongs to  *)
(* somebody already, as ResultLock belongs to the thread it is part of.    *)
ResourceInit ==
  /\ LockingInit
  /\ WaitingThreads = <<>>
  /\ NumShared = 0
  /\ ResourceWaitState \in [Contexts -> {"SHARED"}]
  /\ panic = FALSE
  /\ \/ State = "SHARED" /\ held = NoneHeld
     \/ State = "EXCLUSIVE" /\ \E c \in Contexts : held = [NoneHeld EXCEPT ![c] = "EXCLUSIVE"]

-----------------------------------------------------------------------------

KernelPanic ==
  /\ panic' = TRUE
  /\ UNCHANGED <<lockState, State, NumShared, WaitingThreads, ResourceWaitState, held>>

(* The contexts in woken leave the queue as holders.                       *)
Hand(woken, mode, base) ==
  /\ held' = [c \in Contexts |-> IF c \in woken THEN mode ELSE base[c]]
  /\ LockingAcquire(woken)
  /\ panic' = (\E c \in woken : ~ CanAcquire(c))

(* Bug: the newcomer is pushed in front of the queue.                      *)
BugGetInLine(c, mode) ==
  /\ LockingBlock(c)
  /\ ResourceWaitState' = [ResourceWaitState EXCEPT ![c] = mode]
  /\ WaitingThreads' = <<c>> \o WaitingThreads
  /\ UNCHANGED <<State, NumShared, held, panic>>

(* Block and join the end of the queue.                                    *)
GetInLine(c, mode) ==
  /\ LockingBlock(c)
  /\ ResourceWaitState' = [ResourceWaitState EXCEPT ![c] = mode]
  /\ WaitingThreads' = Append(WaitingThreads, c)
  /\ UNCHANGED <<State, NumShared, held, panic>>

(* The first n waiting contexts want to share and the next one does not.   *)
SharedRun(n) ==
  /\ \A i \in 1..n : ResourceWaitState[WaitingThreads[i]] = "SHARED"
  /\ n < Len(WaitingThreads) => ResourceWaitState[WaitingThreads[n + 1]] = "EXCLUSIVE"

(* The head of the queue takes over: alone if it is exclusive, else with   *)
(* every shared context in front of the first exclusive one.  base is who  *)
(* holds the lock after the release that called this.                      *)
ResourceWakeThreads(base) ==
  \/ /\ ResourceWaitState[Head(WaitingThreads)] = "EXCLUSIVE"
     /\ State' = "EXCLUSIVE"
     /\ NumShared' = 0
     /\ Hand({Head(WaitingThreads)}, "EXCLUSIVE", base)
     /\ WaitingThreads' = Tail(WaitingThreads)
     /\ UNCHANGED ResourceWaitState
  \/ \E n \in 1..Len(WaitingThreads) :
     /\ SharedRun(n)
     /\ State' = "SHARED"
     /\ NumShared' = n
     /\ Hand({WaitingThreads[i] : i \in 1..n}, "SHARED", base)
     /\ WaitingThreads' = SubSeq(WaitingThreads, n + 1, Len(WaitingThreads))
     /\ UNCHANGED ResourceWaitState

(* A thread that is not blocked and a context that is not in use.          *)
MayLock(c) == ~ panic /\ LockingIsFree(c) /\ held[c] = "NONE"

(* A holder that knows it holds the lock.                                  *)
MayUnlock(c, mode) == ~ panic /\ LockingIsFree(c) /\ held[c] = mode

(* Bug: the queue is not looked at.                                        *)
BugSharedAvailableQueue == State = "SHARED"

SharedAvailable == WaitingThreads = <<>> /\ State = "SHARED"

ExclusiveAvailable == WaitingThreads = <<>> /\ State = "SHARED" /\ NumShared = 0

ResourceLockShared(c) ==
  /\ MayLock(c)
  /\ \/ /\ SharedAvailable
        /\ NumShared' = NumShared + 1
        /\ Hand({c}, "SHARED", held)
        /\ UNCHANGED <<State, WaitingThreads, ResourceWaitState>>
     \/ ~ SharedAvailable /\ GetInLine(c, "SHARED")

ResourceLockExclusive(c) ==
  /\ MayLock(c)
  /\ \/ /\ ExclusiveAvailable
        /\ State' = "EXCLUSIVE"
        /\ Hand({c}, "EXCLUSIVE", held)
        /\ UNCHANGED <<NumShared, WaitingThreads, ResourceWaitState>>
     \/ ~ ExclusiveAvailable /\ GetInLine(c, "EXCLUSIVE")

(* Bug: the counter is compared before it is decremented.                  *)
BugLastShare == NumShared = 0 /\ WaitingThreads # <<>>

(* The caller that drops the last share lets the queue in.                 *)
LastShare == NumShared = 1 /\ WaitingThreads # <<>>

ResourceUnlockShared(c) ==
  LET freed == [held EXCEPT ![c] = "NONE"] IN
  /\ MayUnlock(c, "SHARED")
  /\ IF State # "SHARED" THEN KernelPanic
     ELSE \/ LastShare /\ ResourceWakeThreads(freed)
          \/ /\ ~ LastShare
             /\ NumShared' = NumShared - 1
             /\ held' = freed
             /\ UNCHANGED <<lockState, State, WaitingThreads, ResourceWaitState, panic>>

ResourceUnlockExclusive(c) ==
  LET freed == [held EXCEPT ![c] = "NONE"] IN
  /\ MayUnlock(c, "EXCLUSIVE")
  /\ IF NumShared # 0 \/ State # "EXCLUSIVE" THEN KernelPanic
     ELSE \/ WaitingThreads # <<>> /\ ResourceWakeThreads(freed)
          \/ /\ WaitingThreads = <<>>
             /\ State' = "SHARED"
             /\ held' = freed
             /\ UNCHANGED <<lockState, NumShared, WaitingThreads, ResourceWaitState, panic>>

(* A context without a thread of its own finds out that it was granted.    *)
PollAcquired(c) ==
  /\ ~ panic
  /\ LockingIsAcquired(c)
  /\ UNCHANGED <<State, NumShared, WaitingThreads, ResourceWaitState, held, panic>>

ResourceNext ==
  \E c \in Contexts :
     \/ ResourceLockShared(c)
     \/ ResourceLockExclusive(c)
     \/ ResourceUnlockShared(c)
     \/ ResourceUnlockExclusive(c)
     \/ PollAcquired(c)

ResourceSpec == ResourceInit /\ [][ResourceNext]_lockVars

(* Holders give the lock back and pollers poll: the code cannot force      *)
(* either, and without them nobody behind them is ever served.             *)
ResourceFairness ==
  \A c \in Contexts :
     /\ WF_lockVars(ResourceUnlockShared(c) \/ ResourceUnlockExclusive(c))
     /\ WF_lockVars(PollAcquired(c))

FairResourceSpec == ResourceSpec /\ ResourceFairness

-----------------------------------------------------------------------------

Waiting == Nodes(WaitingThreads)

Holders(mode) == {c \in Contexts : held[c] = mode}

(* No assertion of resource.c or locking.c fails and no KernelPanic() is   *)
(* reached, whatever mix of threads and polled contexts uses the lock.     *)
NoPanic == ~ panic

(* The word State and the counter NumShared, all the lock remembers, agree *)
(* with who was really granted it: an exclusive holder is alone.           *)
HoldersAgree ==
  /\ State = "EXCLUSIVE" => /\ \E c \in Contexts : Holders("EXCLUSIVE") = {c}
                            /\ Holders("SHARED") = {}
  /\ State = "SHARED" => Holders("EXCLUSIVE") = {}
  /\ NumShared = Cardinality(Holders("SHARED"))

(* A context sleeps in the queue exactly while its state says BLOCKING,    *)
(* once, holding nothing, and only while somebody holds the lock and will  *)
(* wake it: no wake up is lost.                                            *)
WaitersWillBeWoken ==
  /\ \A c \in Contexts : lockState[c] = "BLOCKING" <=> c \in Waiting
  /\ Distinct(WaitingThreads)
  /\ \A c \in Waiting : held[c] = "NONE"
  /\ Waiting # {} => \E c \in Contexts : held[c] # "NONE"

(* Readers that share the lock are held up only by a writer that came      *)
(* first: the front of the queue could not be let in as things stand.      *)
FrontIsIncompatible ==
  WaitingThreads # <<>> /\ State = "SHARED" =>
     ResourceWaitState[Head(WaitingThreads)] = "EXCLUSIVE"

(* A polled context that was told it has the lock has it.                  *)
AcquiredHolds ==
  \A c \in Contexts : lockState[c] = "ACQUIRED" => held[c] # "NONE"

(* All of the above, which together are inductive: the mode and the count  *)
(* the lock keeps are those of its holders, whoever waits has a holder     *)
(* whose release will wake it, and so no assertion fails.                  *)
ResourceInv ==
  /\ ResourceTypeOK
  /\ NoPanic
  /\ HoldersAgree
  /\ WaitersWillBeWoken
  /\ FrontIsIncompatible
  /\ AcquiredHolds

(* "Starvation safe": a step that grants the lock grants it to the front   *)
(* of the queue, so nobody overtakes a context that was already waiting.   *)
NoOvertaking ==
  [][\A c, d \in Contexts :
        (/\ held[c] = "NONE" /\ held'[c] # "NONE"
         /\ d \in Waiting /\ d \in Waiting')
        => \E i, j \in 1..Len(WaitingThreads) :
              WaitingThreads[i] = c /\ WaitingThreads[j] = d /\ i < j]_lockVars

(* Everybody who queues is served, readers and writers alike.              *)
NoStarvation ==
  \A c \in Contexts : (c \in Waiting) ~> (held[c] # "NONE")

(* The lock implements the abstract reader/writer lock.                    *)
Requests ==
  [i \in 1..Len(WaitingThreads) |->
     [who |-> WaitingThreads[i], mode |-> ResourceWaitState[WaitingThreads[i]]]]

RW == INSTANCE RWLock WITH Clients <- Contexts, queue <- Requests

ImplementsRWLock == RW!Spec
=============================================================================
