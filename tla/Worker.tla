------------------------------- MODULE Worker -------------------------------
(***************************************************************************)
(* The worker unit (kernel/worker.c): one worker thread, its queue of work *)
(* items and the semaphore that counts them.  Items are registered by      *)
(* their owners, from a CRIT handler or from a thread; an item may wait    *)
(* for a lock, which queues it again when it is granted.                   *)
(*                                                                         *)
(* The items are of the two kinds of test/test6.c: some raise a semaphore  *)
(* (Producers), the others go down on it the way locking.c tells work      *)
(* items to.  Each step is a critical section of the thread that takes it. *)
(***************************************************************************)
EXTENDS Locking, Integers

CONSTANTS
  Producers,      \* the items that raise the semaphore of test6
  Usages,         \* the ways programs use the unit
  NoItem,         \* the worker has no item in hand
  MaxCount,       \* bound on the semaphore of test6
  MaxQueued       \* bound on the count of the queue when it is raised from outside

Items == Contexts

(* Which items have threads for owners, which ones may return              *)
(* WORKER_PENDED, and whether the semaphore is also raised by others than  *)
(* work items.                                                             *)
Usage == [threads : SUBSET Items, pend : SUBSET Items, others : BOOLEAN]

ASSUME WorkerAssumption ==
  /\ Kind = [i \in Items |-> "WORKER"]
  /\ Producers \subseteq Items
  /\ Usages \subseteq Usage
  /\ NoItem \notin Items
  /\ MaxCount \in Nat \ {0} /\ MaxQueued \in Nat \ {0}

VARIABLES
  use,            \* how this program uses the unit
  List,           \* queue->List
  Count,          \* queue->Lock.Count
  Finished,       \* item->Finished; TRUE as well before the item's first use
  adding,         \* items whose WorkerAddItem has raised queue->Lock only
  pc,             \* where WorkerThreadMain is
  blocked,        \* whether it is blocked on queue->Lock
  item,           \* its local
  Semaphore,      \* the count of the semaphore of test6
  Waiting         \* and the items that wait for it

workerVars == <<use, lockState, List, Count, Finished, adding, pc, blocked, item, Semaphore,
                Waiting>>

queueVars == <<List, Count, blocked, adding, Finished>>

WorkerTypeOK ==
  /\ use \in Usages
  /\ lockState \in [Items -> LockingStates]
  /\ List \in Seq(Items) /\ Waiting \in Seq(Items)
  /\ Count \in Nat /\ Semaphore \in 0..MaxCount
  /\ Finished \in [Items -> BOOLEAN]
  /\ adding \in SUBSET use.threads
  /\ pc \in {"down", "pop", "run", "look", "finish", "panic"}
  /\ blocked \in BOOLEAN
  /\ item \in Items \cup {NoItem}

WorkerCreateWorker ==
  /\ use \in Usages
  /\ LockingInit
  /\ List = <<>> /\ Count = 0
  /\ Finished = [i \in Items |-> TRUE]
  /\ adding = {}
  /\ pc = "down" /\ item = NoItem /\ blocked = FALSE
  /\ Semaphore = 0 /\ Waiting = <<>>

-----------------------------------------------------------------------------

(* Bug: the worker is not woken.                                           *)
BugUpQueueLockCount == Count' = Count + 1 /\ UNCHANGED blocked

(* SemaphoreUp on queue->Lock, whose only waiter is the worker.            *)
UpQueueLock ==
  \/ blocked /\ blocked' = FALSE /\ UNCHANGED Count
  \/ ~ blocked /\ Count' = Count + 1 /\ UNCHANGED blocked

(* Bug: the item is not marked.                                            *)
BugEnqueueItem(i) ==
  /\ List' = LinkedListEnqueue(i, List)
  /\ UNCHANGED Finished

(* The critical section of WorkerAddItem.                                  *)
EnqueueItem(i) ==
  /\ Finished' = [Finished EXCEPT ![i] = FALSE]
  /\ List' = LinkedListEnqueue(i, List)

(* Whether the semaphore may still be raised within its bound.             *)
Room == Semaphore + Cardinality({i \in Producers : ~ Finished[i] \/ i \in adding}) < MaxCount

(* The owner of an item that WorkerItemIsFinished: LockingInit and         *)
(* WorkerAddItem.                                                          *)
WorkerInitItem(i) ==
  /\ Finished[i] /\ i \notin adding
  /\ Count < MaxQueued
  /\ i \in Producers => Room
  /\ lockState' = [lockState EXCEPT ![i] = "READY"]
  /\ UpQueueLock
  /\ UNCHANGED <<pc, item, Semaphore, Waiting>>

(* In a CRIT handler nothing comes between the two halves of               *)
(* WorkerAddItem.                                                          *)
AddFromHandler(i) ==
  /\ i \notin use.threads
  /\ WorkerInitItem(i)
  /\ EnqueueItem(i)
  /\ UNCHANGED adding

(* In a thread everybody may.                                              *)
AddFromThread(i) ==
  /\ i \in use.threads
  /\ WorkerInitItem(i)
  /\ adding' = adding \cup {i}
  /\ UNCHANGED <<List, Finished>>

AddEnqueue(i) ==
  /\ i \in adding
  /\ EnqueueItem(i)
  /\ adding' = adding \ {i}
  /\ UNCHANGED <<lockState, Count, blocked, pc, item, Semaphore, Waiting>>

-----------------------------------------------------------------------------

(* The assertion of WorkerGetItem: whoever got past the semaphore finds an *)
(* item.                                                                   *)
PopFindsItem == pc = "pop" /\ ~ blocked => List # <<>>

(* The assertion of WorkerThreadMain: an item that is popped is not        *)
(* finished.                                                               *)
PoppedIsUnfinished == pc = "run" => ~ Finished[item]

(* The assertions of the unit, and of LockingIsAcquired: an item looks     *)
(* only at a lock it has asked for.                                        *)
AssertionsHold ==
  /\ PopFindsItem
  /\ PoppedIsUnfinished
  /\ pc = "look" => lockState[item] # "READY"

(* An assertion that fails stops the kernel.                               *)
KernelPanic ==
  /\ ~ AssertionsHold
  /\ pc' = "panic"
  /\ UNCHANGED <<lockState, queueVars, item, Semaphore, Waiting>>

(* WorkerGetItem.                                                          *)
GetDown ==
  /\ pc = "down"
  /\ pc' = "pop"
  /\ \/ Count = 0 /\ blocked' = TRUE /\ UNCHANGED Count
     \/ Count > 0 /\ Count' = Count - 1 /\ UNCHANGED blocked
  /\ UNCHANGED <<lockState, List, adding, Finished, item, Semaphore, Waiting>>

GetPop ==
  /\ pc = "pop" /\ ~ blocked
  /\ List # <<>>
  /\ item' = Head(List)
  /\ List' = Tail(List)
  /\ pc' = "run"
  /\ UNCHANGED <<lockState, Count, blocked, adding, Finished, Semaphore, Waiting>>

(* The first half of a consumer: go down, unless that was done before.     *)
RunDown ==
  /\ pc = "run" /\ ~ Finished[item] /\ item \notin Producers
  /\ pc' = "look"
  /\ \/ /\ ~ LockingIsFree(item)
        /\ UNCHANGED <<lockState, Semaphore, Waiting>>
     \/ /\ LockingIsFree(item) /\ Semaphore = 0
        /\ LockingBlock(item)
        /\ Waiting' = LinkedListEnqueue(item, Waiting)
        /\ UNCHANGED Semaphore
     \/ /\ LockingIsFree(item) /\ Semaphore > 0
        /\ LockingAcquire({item})
        /\ Semaphore' = Semaphore - 1
        /\ UNCHANGED Waiting
  /\ UNCHANGED <<queueVars, item>>

(* Bug: a blocked item is taken for a finished one.                        *)
BugBlocked == pc' = "finish" /\ UNCHANGED item

(* WORKER_BLOCKED: whoever grants the lock queues the item again.          *)
Blocked == pc' = "down" /\ item' = NoItem

(* The second half: if the semaphore has been granted, do the work and     *)
(* then finish, or go down again, as test6 does until it is blocked.       *)
RunLook ==
  /\ pc = "look"
  /\ \/ LockingIsAcquired(item) /\ pc' \in {"run", "finish"} /\ UNCHANGED item
     \/ lockState[item] = "BLOCKING" /\ Blocked /\ UNCHANGED lockState
  /\ UNCHANGED <<queueVars, Semaphore, Waiting>>

(* WorkerWakeOnLock of an item that waited: WorkerAddItem, both halves     *)
(* inside the critical section of the lock that wakes it.                  *)
WorkerWakeOnLock(i) == UpQueueLock /\ EnqueueItem(i)

(* SemaphoreUp on the semaphore of test6.                                  *)
UpSemaphore ==
  \/ /\ Waiting # <<>>
     /\ LockingAcquire({Head(Waiting)})
     /\ WorkerWakeOnLock(Head(Waiting))
     /\ Waiting' = Tail(Waiting)
     /\ UNCHANGED Semaphore
  \/ /\ Waiting = <<>>
     /\ Semaphore' = Semaphore + 1
     /\ UNCHANGED <<lockState, Waiting, List, Count, blocked, Finished>>

(* A producer.                                                             *)
RunUp ==
  /\ pc = "run" /\ ~ Finished[item] /\ item \in Producers
  /\ UpSemaphore
  /\ pc' = "finish"
  /\ UNCHANGED <<adding, item>>

(* Anybody else.                                                           *)
Up ==
  /\ use.others /\ Room /\ Count < MaxQueued
  /\ UpSemaphore
  /\ UNCHANGED <<adding, pc, item>>

(* WORKER_FINISHED.                                                        *)
Finish ==
  /\ pc = "finish"
  /\ Finished' = [Finished EXCEPT ![item] = TRUE]
  /\ pc' = "down" /\ item' = NoItem
  /\ UNCHANGED <<lockState, List, Count, blocked, adding, Semaphore, Waiting>>

(* WORKER_PENDED: the item is put back into the queue.                     *)
Pended ==
  /\ pc = "run" /\ ~ Finished[item] /\ item \in use.pend
  /\ List' = LinkedListEnqueue(item, List)
  /\ pc' = "down" /\ item' = NoItem
  /\ UNCHANGED <<lockState, Count, blocked, adding, Finished, Semaphore, Waiting>>

WorkerThreadMain == 
  GetDown \/ GetPop \/ RunDown \/ RunLook \/ RunUp \/ Finish \/ Pended \/ KernelPanic

WorkerNext ==
  /\ \/ WorkerThreadMain
     \/ /\ pc # "panic"
        /\ \/ \E i \in Items : AddFromHandler(i) \/ AddFromThread(i) \/ AddEnqueue(i)
           \/ Up
  /\ UNCHANGED use

(* The scheduler runs the worker and the threads that add items.           *)
WorkerSpec ==
  /\ WorkerCreateWorker /\ [][WorkerNext]_workerVars
  /\ WF_workerVars(WorkerThreadMain /\ UNCHANGED use)
  /\ \A i \in Items : WF_workerVars(AddEnqueue(i) /\ UNCHANGED use)

-----------------------------------------------------------------------------

(* As long as items come from CRIT handlers, and wait only for what other  *)
(* items give, no assertion of the unit fails.  Whatever else goes wrong,  *)
(* the lock that items wait for keeps its promise: an item is blocked      *)
(* exactly while it is in the lock's queue, once, and only while there is  *)
(* nothing to take.                                                        *)
WorkerSound ==
  /\ WorkerTypeOK
  /\ use.threads = {} /\ ~ use.others => AssertionsHold
  /\ \A i \in Items : lockState[i] = "BLOCKING" <=> i \in Nodes(Waiting)
  /\ Distinct(Waiting)
  /\ Waiting # <<>> => Semaphore = 0

(* The semaphore counts the items: every item in the queue, or about to be *)
(* put there, has been announced to the worker exactly once, so that none  *)
(* stays behind when the worker blocks.  Items that pend are not           *)
(* announced, and an item granted a lock too early may be queued twice.    *)
(* And "If WorkerItemIsFinished returns true, then it is safe to use the   *)
(* work item": it is in no list and nobody runs it.                        *)
ItemsKept ==
  ~ use.others =>
     /\ use.pend = {} =>
           /\ Count + (IF pc \in {"pop", "panic"} /\ ~ blocked THEN 1 ELSE 0)
                 = Len(List) + Cardinality(adding)
           /\ blocked => Count = 0
     /\ \A i \in Items : Finished[i] => i \notin Nodes(List) \cup Nodes(Waiting) \cup {item}

(* An item that is queued is run: it finishes, or waits for a lock.        *)
QueuedIsRun ==
  use.threads = {} /\ use.pend = {} /\ ~ use.others =>
     \A i \in Items : i \in Nodes(List) ~> (Finished[i] \/ i \in Nodes(Waiting))
=============================================================================
