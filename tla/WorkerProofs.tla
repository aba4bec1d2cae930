---------------------------- MODULE WorkerProofs ----------------------------
(***************************************************************************)
(* The safety of the worker unit, for any finite set of items, any way to  *)
(* use the unit and any bounds: WorkerSound and ItemsKept are invariants   *)
(* of WorkerSpec.                                                          *)
(***************************************************************************)
EXTENDS Worker, QueueTheorems

(* The producers that may still raise the semaphore, and that there is     *)
(* room for them.                                                          *)
Pending ==
  {i \in Producers : (~ Finished[i] \/ i \in adding) /\ ~ (pc = "finish" /\ i = item)}

Budget == Semaphore + Cardinality(Pending) <= MaxCount

(* The item the worker has in hand.                                        *)
InHand ==
  /\ pc \in {"down", "pop"} => item = NoItem
  /\ pc \in {"run", "look", "finish"} => item \in Items
  /\ pc \in {"look", "finish"} => ~ Finished[item]
  /\ pc = "look" => item \notin Producers /\ lockState[item] # "READY"
  /\ pc = "finish" => item \notin Nodes(Waiting)

(* The items that wait for the semaphore of test6.                         *)
Waiters ==
  /\ \A i \in Items : lockState[i] = "BLOCKING" <=> i \in Nodes(Waiting)
  /\ Distinct(Waiting)
  /\ Waiting # <<>> => Semaphore = 0
  /\ \A i \in Nodes(Waiting) : ~ Finished[i] /\ i \notin Producers

(* The queue, the worker that waits for it, and those about to use it.     *)
QueueInv ==
  /\ Distinct(List)
  /\ blocked => pc = "pop" /\ Count = 0
  /\ \A i \in adding : Finished[i]

(* Every item is in one place, unless others raise the semaphore.          *)
Places ==
  ~ use.others =>
     /\ item \notin Nodes(List)
     /\ Nodes(List) \cap Nodes(Waiting) = {}
     /\ item \in Nodes(Waiting) => pc = "look"
     /\ \A i \in Items : Finished[i] => i \notin Nodes(List) \cup Nodes(Waiting) \cup {item}

(* What the worker has been told of the queue, with what it took.          *)
Announced(count, place, waits) ==
  count + (IF place \in {"pop", "panic"} /\ ~ waits THEN 1 ELSE 0)

Announcements ==
  ~ use.others =>
     /\ Announced(Count, pc, blocked) <= Len(List) + Cardinality(adding)
     /\ use.pend = {} => Announced(Count, pc, blocked) = Len(List) + Cardinality(adding)

(* The inductive invariant.                                                *)
WorkerInv ==
  /\ WorkerTypeOK /\ Budget /\ InHand /\ Waiters /\ QueueInv /\ Places /\ Announcements

-----------------------------------------------------------------------------

(* Sets of items are finite.                                               *)
LEMMA ItemSets ==
  /\ \A S \in SUBSET Items : IsFiniteSet(S) /\ Cardinality(S) \in Nat
  /\ \A S, T \in SUBSET Items : S \subseteq T => Cardinality(S) <= Cardinality(T)
  /\ \A S \in SUBSET Items : \A x : x \notin S => Cardinality(S \cup {x}) = Cardinality(S) + 1
<1>1. \A S \in SUBSET Items : IsFiniteSet(S)
  BY ContextsAssumption, FS_Subset DEF Items
<1>2. \A S \in SUBSET Items : Cardinality(S) \in Nat
  BY <1>1, FS_CardinalityType
<1>3. \A S, T \in SUBSET Items : S \subseteq T => Cardinality(S) <= Cardinality(T)
  BY <1>1, FS_Subset
<1>4. \A S \in SUBSET Items : \A x : x \notin S => Cardinality(S \cup {x}) = Cardinality(S) + 1
  BY <1>1, FS_AddElement
<1> QED
  BY <1>1, <1>2, <1>3, <1>4

(* The producers that are pending are items.                               *)
LEMMA PendingItems == Pending \in SUBSET Items /\ Pending \subseteq Producers
  BY WorkerAssumption DEF Pending

(* SemaphoreUp on the queue's semaphore tells the worker of one item.      *)
LEMMA QueueRaised ==
  ASSUME WorkerInv, UpQueueLock
  PROVE  /\ blocked' = FALSE /\ Count' \in Nat
         /\ Announced(Count', pc, blocked') = Announced(Count, pc, blocked) + 1
<1>1. Count \in Nat /\ (blocked => pc = "pop" /\ Count = 0)
  BY DEF WorkerInv, WorkerTypeOK, QueueInv
<1>2. blocked \in BOOLEAN
  BY DEF WorkerInv, WorkerTypeOK
<1>3. CASE blocked
  <2>1. blocked' = FALSE /\ Count' = Count
    BY <1>3 DEF UpQueueLock
  <2> QED
    BY <1>1, <1>3, <2>1 DEF Announced
<1>4. CASE ~ blocked
  <2>1. blocked' = blocked /\ Count' = Count + 1
    BY <1>4 DEF UpQueueLock
  <2>2. blocked' = FALSE
    BY <1>2, <1>4, <2>1
  <2> QED
    BY <1>1, <1>4, <2>1, <2>2 DEF Announced
<1> QED
  BY <1>3, <1>4

(* A queue that is not empty, and the queue with one more.                 *)
LEMMA QueueLength ==
  ASSUME NEW q \in Seq(Items), NEW i \in Items
  PROVE  /\ Len(q) \in Nat
         /\ i \notin Nodes(q) => Len(LinkedListEnqueue(i, q)) = Len(q) + 1
         /\ q # <<>> => Len(Tail(q)) = Len(q) - 1 /\ Head(q) \in Items /\ Head(q) \in Nodes(q)
<1>1. Len(q) \in Nat
  BY LenProperties
<1>2. i \notin Nodes(q) => Len(LinkedListEnqueue(i, q)) = Len(q) + 1
  BY AppendProperties DEF LinkedListEnqueue
<1>3. q # <<>> => Len(Tail(q)) = Len(q) - 1
  BY HeadTailProperties
<1>4. q # <<>> => Head(q) \in Items /\ Head(q) \in Nodes(q)
  BY FrontNode
<1> QED
  BY <1>1, <1>2, <1>3, <1>4

(* The critical section of WorkerAddItem puts the item into the queue.     *)
LEMMA ItemQueued ==
  ASSUME WorkerInv, NEW i \in Items, EnqueueItem(i)
  PROVE  /\ List' \in Seq(Items) /\ Distinct(List')
         /\ Nodes(List') \subseteq Nodes(List) \cup {i}
         /\ Finished' \in [Items -> BOOLEAN]
         /\ ~ Finished'[i] /\ (\A k \in Items \ {i} : Finished'[k] = Finished[k])
         /\ i \notin Nodes(List) => Len(List') = Len(List) + 1
<1>1. List \in Seq(Items) /\ Distinct(List) /\ Finished \in [Items -> BOOLEAN]
  BY DEF WorkerInv, WorkerTypeOK, QueueInv
<1>2. List' = LinkedListEnqueue(i, List) /\ Finished' = [Finished EXCEPT ![i] = FALSE]
  BY DEF EnqueueItem
<1>3. /\ List' \in Seq(Items) /\ Distinct(List')
      /\ Nodes(List') \subseteq Nodes(List) \cup {i}
  BY <1>1, <1>2, EnqueueNode
<1>4. i \notin Nodes(List) => Len(List') = Len(List) + 1
  BY <1>1, <1>2, QueueLength
<1>5. /\ Finished' \in [Items -> BOOLEAN] /\ ~ Finished'[i]
      /\ (\A k \in Items \ {i} : Finished'[k] = Finished[k])
  BY <1>1, <1>2
<1> QED
  BY <1>3, <1>4, <1>5

(* No step but these makes the semaphore or the pending producers more.    *)
LEMMA BudgetKept ==
  ASSUME WorkerInv, Semaphore' = Semaphore \/ (Semaphore > 0 /\ Semaphore' = Semaphore - 1),
         Pending' \subseteq Pending
  PROVE  Budget' /\ Semaphore' \in 0..MaxCount
<1>1. Semaphore \in 0..MaxCount /\ MaxCount \in Nat /\ Semaphore + Cardinality(Pending) <= MaxCount
  BY WorkerAssumption DEF WorkerInv, WorkerTypeOK, Budget
<1>2. Cardinality(Pending) \in Nat /\ Cardinality(Pending') \in Nat
      /\ Cardinality(Pending') <= Cardinality(Pending)
  BY ItemSets, PendingItems
<1>3. Semaphore' \in 0..MaxCount /\ Semaphore' <= Semaphore
  BY <1>1
<1> QED
  BY <1>1, <1>2, <1>3 DEF Budget

(* An owner that may register an item.                                     *)
LEMMA BudgetAdded ==
  ASSUME WorkerInv, NEW i \in Items, WorkerInitItem(i),
         Pending' \subseteq Pending \cup {i}, i \notin Producers => Pending' \subseteq Pending
  PROVE  Budget' /\ Semaphore' \in 0..MaxCount
<1>1. Semaphore' = Semaphore /\ Semaphore \in 0..MaxCount /\ MaxCount \in Nat
  BY WorkerAssumption DEF WorkerInv, WorkerTypeOK, WorkerInitItem
<1>2. CASE i \notin Producers
  BY <1>1, <1>2, BudgetKept
<1>3. CASE i \in Producers
  <2> DEFINE busy == {k \in Producers : ~ Finished[k] \/ k \in adding}
  <2>1. Semaphore + Cardinality(busy) < MaxCount /\ i \notin busy
    BY <1>3 DEF WorkerInitItem, Room
  <2>2. Pending \subseteq busy
    BY DEF Pending
  <2>3. busy \in SUBSET Items /\ busy \cup {i} \in SUBSET Items /\ Pending' \subseteq busy \cup {i}
    BY <2>2, WorkerAssumption
  <2> HIDE DEF busy
  <2>4. Cardinality(busy \cup {i}) = Cardinality(busy) + 1 /\ Cardinality(busy) \in Nat
    BY <2>1, <2>3, ItemSets
  <2>5. Cardinality(Pending') \in Nat /\ Cardinality(Pending') <= Cardinality(busy \cup {i})
    BY <2>3, PendingItems, ItemSets
  <2> QED
    BY <1>1, <2>1, <2>4, <2>5 DEF Budget
<1> QED
  BY <1>2, <1>3

-----------------------------------------------------------------------------

(* What the invariant says, in the pieces the steps use.                   *)
LEMMA Typed ==
  ASSUME WorkerInv
  PROVE  /\ use \in Usage /\ lockState \in [Items -> LockingStates]
         /\ List \in Seq(Items) /\ Distinct(List) /\ Nodes(List) \subseteq Items
         /\ Waiting \in Seq(Items) /\ Distinct(Waiting) /\ Nodes(Waiting) \subseteq Items
         /\ Count \in Nat /\ Semaphore \in 0..MaxCount
         /\ Finished \in [Items -> BOOLEAN]
         /\ adding \in SUBSET use.threads /\ adding \in SUBSET Items
         /\ pc \in {"down", "pop", "run", "look", "finish", "panic"}
         /\ item \in Items \cup {NoItem}
         /\ NoItem \notin Items
         /\ Cardinality(adding) \in Nat /\ Len(List) \in Nat
<1>1. WorkerTypeOK /\ Waiters /\ QueueInv
  BY DEF WorkerInv
<1>2. use \in Usage
  BY <1>1, WorkerAssumption DEF WorkerTypeOK
<1>3. use.threads \in SUBSET Items
  BY <1>2 DEF Usage
<1>4. adding \in SUBSET Items
  BY <1>1, <1>3 DEF WorkerTypeOK
<1>5. Cardinality(adding) \in Nat
  BY <1>4, ItemSets
<1>6. Nodes(List) \subseteq Items /\ Nodes(Waiting) \subseteq Items /\ Len(List) \in Nat
  BY <1>1, FrontNode, LenProperties DEF WorkerTypeOK
<1> QED
  BY <1>1, <1>2, <1>4, <1>5, <1>6, WorkerAssumption DEF WorkerTypeOK, Waiters, QueueInv

(* The owner of a finished item makes its context ready again.             *)
LEMMA OwnerFacts ==
  ASSUME WorkerInv, NEW i \in Items, WorkerInitItem(i)
  PROVE  /\ Finished[i] /\ i \notin adding /\ i \notin Nodes(Waiting)
         /\ lockState' \in [Items -> LockingStates]
         /\ \A k \in Items : lockState'[k] = "BLOCKING" <=> k \in Nodes(Waiting)
         /\ \A k \in Items \ {i} : lockState'[k] = lockState[k]
         /\ pc' = pc /\ item' = item /\ Semaphore' = Semaphore /\ Waiting' = Waiting
         /\ blocked' = FALSE /\ Count' \in Nat
         /\ Announced(Count', pc, blocked') = Announced(Count, pc, blocked) + 1
         /\ (pc \in {"look", "finish"} => i # item)
         /\ (~ use.others => i \notin Nodes(List) /\ i # item)
<1>1. Finished[i] /\ i \notin adding /\ UpQueueLock
      /\ lockState' = [lockState EXCEPT ![i] = "READY"]
      /\ UNCHANGED <<pc, item, Semaphore, Waiting>>
  BY DEF WorkerInitItem
<1>2. i \notin Nodes(Waiting)
  BY <1>1 DEF WorkerInv, Waiters
<1>3. lockState' \in [Items -> LockingStates] /\ lockState'[i] = "READY"
      /\ (\A k \in Items \ {i} : lockState'[k] = lockState[k])
  BY <1>1, Typed DEF LockingStates
<1>4. \A k \in Items : lockState'[k] = "BLOCKING" <=> k \in Nodes(Waiting)
  <2> TAKE k \in Items
  <2>1. CASE k = i
    BY <1>2, <1>3, <2>1
  <2>2. CASE k # i
    BY <1>3, <2>2 DEF WorkerInv, Waiters
  <2> QED
    BY <2>1, <2>2
<1>5. /\ blocked' = FALSE /\ Count' \in Nat
      /\ Announced(Count', pc, blocked') = Announced(Count, pc, blocked) + 1
  BY <1>1, QueueRaised
<1>6. pc \in {"look", "finish"} => i # item
  BY <1>1 DEF WorkerInv, InHand
<1>7. ~ use.others => i \notin Nodes(List) /\ i # item
  BY <1>1 DEF WorkerInv, Places
<1> QED
  BY <1>1, <1>2, <1>3, <1>4, <1>5, <1>6, <1>7

(* WorkerAddItem in a CRIT handler announces and queues the item at once.  *)
LEMMA HandlerAdds ==
  ASSUME WorkerInv, NEW i \in Items, AddFromHandler(i), use' = use
  PROVE  WorkerInv'
<1>1. WorkerInitItem(i) /\ EnqueueItem(i) /\ adding' = adding
  BY DEF AddFromHandler
<1>2. /\ Finished[i] /\ i \notin adding /\ i \notin Nodes(Waiting)
      /\ lockState' \in [Items -> LockingStates]
      /\ \A k \in Items : lockState'[k] = "BLOCKING" <=> k \in Nodes(Waiting)
      /\ \A k \in Items \ {i} : lockState'[k] = lockState[k]
      /\ pc' = pc /\ item' = item /\ Semaphore' = Semaphore /\ Waiting' = Waiting
      /\ blocked' = FALSE /\ Count' \in Nat
      /\ Announced(Count', pc, blocked') = Announced(Count, pc, blocked) + 1
      /\ (pc \in {"look", "finish"} => i # item)
      /\ (~ use.others => i \notin Nodes(List) /\ i # item)
  BY <1>1, OwnerFacts
<1>3. /\ List' \in Seq(Items) /\ Distinct(List')
      /\ Nodes(List') \subseteq Nodes(List) \cup {i}
      /\ Finished' \in [Items -> BOOLEAN]
      /\ ~ Finished'[i] /\ (\A k \in Items \ {i} : Finished'[k] = Finished[k])
      /\ i \notin Nodes(List) => Len(List') = Len(List) + 1
  BY <1>1, ItemQueued
<1>4. Budget' /\ Semaphore' \in 0..MaxCount
  <2>1. Pending' \subseteq Pending \cup {i} /\ (i \notin Producers => Pending' \subseteq Pending)
    BY <1>1, <1>2, <1>3, WorkerAssumption DEF Pending
  <2> QED
    BY <1>1, <2>1, BudgetAdded
<1>5. WorkerTypeOK'
  BY <1>1, <1>2, <1>3, <1>4 DEF WorkerInv, WorkerTypeOK
<1>6. InHand'
  <2>1. pc \in {"look", "finish"} => item \in Items \ {i}
    BY <1>2 DEF WorkerInv, InHand
  <2> QED
    BY <1>2, <1>3, <2>1 DEF WorkerInv, InHand
<1>7. Waiters'
  <2>1. \A k \in Nodes(Waiting) : k \in Items \ {i}
    BY <1>2, Typed
  <2> QED
    BY <1>2, <1>3, <2>1 DEF WorkerInv, Waiters
<1>8. QueueInv'
  <2>1. \A k \in adding : k \in Items \ {i}
    BY <1>2, Typed
  <2> QED
    BY <1>1, <1>2, <1>3, <2>1 DEF WorkerInv, QueueInv
<1>9. Places'
  <2> SUFFICES ASSUME ~ use.others PROVE Places'
    BY DEF Places
  <2>1. item \notin Nodes(List') /\ Nodes(List') \cap Nodes(Waiting) = {}
    BY <1>2, <1>3 DEF WorkerInv, Places
  <2>2. ASSUME NEW k \in Items, Finished'[k]
        PROVE  k \notin Nodes(List') \cup Nodes(Waiting) \cup {item}
    <3>1. k # i /\ Finished[k]
      BY <1>3, <2>2
    <3> QED
      BY <1>3, <3>1 DEF WorkerInv, Places
  <2> QED
    BY <1>2, <2>1, <2>2 DEF WorkerInv, Places
<1>10. Announcements'
  <2>1. Announced(Count, pc, blocked) \in Int /\ Len(List) \in Nat /\ Cardinality(adding) \in Nat
    BY Typed DEF Announced
  <2> QED
    BY <1>1, <1>2, <1>3, <2>1 DEF WorkerInv, Announcements
<1> QED
  BY <1>4, <1>5, <1>6, <1>7, <1>8, <1>9, <1>10 DEF WorkerInv

(* The first half of WorkerAddItem in a thread: the item is announced.     *)
LEMMA ThreadAdds ==
  ASSUME WorkerInv, NEW i \in Items, AddFromThread(i), use' = use
  PROVE  WorkerInv'
<1>1. WorkerInitItem(i) /\ i \in use.threads /\ adding' = adding \cup {i}
      /\ List' = List /\ Finished' = Finished
  BY DEF AddFromThread
<1>2. /\ Finished[i] /\ i \notin adding /\ i \notin Nodes(Waiting)
      /\ lockState' \in [Items -> LockingStates]
      /\ \A k \in Items : lockState'[k] = "BLOCKING" <=> k \in Nodes(Waiting)
      /\ \A k \in Items \ {i} : lockState'[k] = lockState[k]
      /\ pc' = pc /\ item' = item /\ Semaphore' = Semaphore /\ Waiting' = Waiting
      /\ blocked' = FALSE /\ Count' \in Nat
      /\ Announced(Count', pc, blocked') = Announced(Count, pc, blocked) + 1
      /\ (pc \in {"look", "finish"} => i # item)
      /\ (~ use.others => i \notin Nodes(List) /\ i # item)
  BY <1>1, OwnerFacts
<1>3. Budget' /\ Semaphore' \in 0..MaxCount
  <2>1. Pending' \subseteq Pending \cup {i} /\ (i \notin Producers => Pending' \subseteq Pending)
    BY <1>1, <1>2 DEF Pending
  <2> QED
    BY <1>1, <2>1, BudgetAdded
<1>4. WorkerTypeOK'
  BY <1>1, <1>2, <1>3 DEF WorkerInv, WorkerTypeOK
<1>5. InHand'
  <2>1. pc \in {"look", "finish"} => item \in Items \ {i}
    BY <1>2 DEF WorkerInv, InHand
  <2> QED
    BY <1>1, <1>2, <2>1 DEF WorkerInv, InHand
<1>6. Waiters'
  BY <1>1, <1>2 DEF WorkerInv, Waiters
<1>7. QueueInv'
  BY <1>1, <1>2 DEF WorkerInv, QueueInv
<1>8. Places'
  BY <1>1, <1>2 DEF WorkerInv, Places
<1>9. Announcements'
  <2>1. Announced(Count, pc, blocked) \in Int /\ Len(List) \in Nat /\ Cardinality(adding) \in Nat
    BY Typed DEF Announced
  <2>2. Cardinality(adding') = Cardinality(adding) + 1
    BY <1>1, <1>2, Typed, ItemSets
  <2> QED
    BY <1>1, <1>2, <2>1, <2>2 DEF WorkerInv, Announcements
<1> QED
  BY <1>3, <1>4, <1>5, <1>6, <1>7, <1>8, <1>9 DEF WorkerInv

(* The second half: the item is queued.                                    *)
LEMMA ThreadEnqueues ==
  ASSUME WorkerInv, NEW i \in Items, AddEnqueue(i), use' = use
  PROVE  WorkerInv'
<1>1. i \in adding /\ EnqueueItem(i) /\ adding' = adding \ {i}
      /\ UNCHANGED <<lockState, Count, blocked, pc, item, Semaphore, Waiting>>
  BY DEF AddEnqueue
<1>2. Finished[i] /\ i \notin Nodes(Waiting)
  BY <1>1 DEF WorkerInv, QueueInv, Waiters
<1>3. /\ List' \in Seq(Items) /\ Distinct(List')
      /\ Nodes(List') \subseteq Nodes(List) \cup {i}
      /\ Finished' \in [Items -> BOOLEAN]
      /\ ~ Finished'[i] /\ (\A k \in Items \ {i} : Finished'[k] = Finished[k])
      /\ i \notin Nodes(List) => Len(List') = Len(List) + 1
  BY <1>1, ItemQueued
<1>4. Budget' /\ Semaphore' \in 0..MaxCount
  <2>1. pc = "finish" => i # item
    BY <1>2 DEF WorkerInv, InHand
  <2>2. Pending' \subseteq Pending
    BY <1>1, <1>3, <2>1, WorkerAssumption DEF Pending
  <2> QED
    BY <1>1, <2>2, BudgetKept
<1>5. WorkerTypeOK'
  BY <1>1, <1>3, <1>4 DEF WorkerInv, WorkerTypeOK
<1>6. InHand'
  <2>1. pc \in {"look", "finish"} => item \in Items \ {i}
    BY <1>2 DEF WorkerInv, InHand
  <2> QED
    BY <1>1, <1>3, <2>1 DEF WorkerInv, InHand
<1>7. Waiters'
  <2>1. \A k \in Nodes(Waiting) : k \in Items \ {i}
    BY <1>2, Typed
  <2> QED
    BY <1>1, <1>3, <2>1 DEF WorkerInv, Waiters
<1>8. QueueInv'
  <2>1. \A k \in adding' : k \in Items \ {i}
    BY <1>1, Typed
  <2> QED
    BY <1>1, <1>3, <2>1 DEF WorkerInv, QueueInv
<1>9. ~ use.others => i \notin Nodes(List) /\ i # item
  BY <1>2 DEF WorkerInv, Places
<1>10. Places'
  <2> SUFFICES ASSUME ~ use.others PROVE Places'
    BY DEF Places
  <2>1. item \notin Nodes(List') /\ Nodes(List') \cap Nodes(Waiting) = {}
    BY <1>2, <1>3, <1>9 DEF WorkerInv, Places
  <2>2. ASSUME NEW k \in Items, Finished'[k]
        PROVE  k \notin Nodes(List') \cup Nodes(Waiting) \cup {item}
    <3>1. k # i /\ Finished[k]
      BY <1>3, <2>2
    <3> QED
      BY <1>3, <3>1 DEF WorkerInv, Places
  <2> QED
    BY <1>1, <2>1, <2>2 DEF WorkerInv, Places
<1>11. Announcements'
  <2>1. Announced(Count, pc, blocked) \in Int /\ Len(List) \in Nat /\ Cardinality(adding) \in Nat
    BY Typed DEF Announced
  <2>2. Cardinality(adding) = Cardinality(adding') + 1 /\ Cardinality(adding') \in Nat
    <3>1. adding' \in SUBSET Items /\ i \notin adding' /\ adding = adding' \cup {i}
      BY <1>1, Typed
    <3> QED
      BY <3>1, ItemSets
  <2> QED
    BY <1>1, <1>3, <1>9, <2>1, <2>2 DEF WorkerInv, Announcements
<1> QED
  BY <1>4, <1>5, <1>6, <1>7, <1>8, <1>10, <1>11 DEF WorkerInv

-----------------------------------------------------------------------------

(* The semaphore is handed to the item that waited longest.                *)
LEMMA Granted ==
  ASSUME WorkerInv, UpSemaphore, Waiting # <<>>, NEW w, w = Head(Waiting)
  PROVE  /\ w \in Items /\ w \in Nodes(Waiting) /\ ~ Finished[w] /\ w \notin Producers
         /\ lockState' \in [Items -> LockingStates] /\ lockState'[w] = "ACQUIRED"
         /\ \A k \in Items \ {w} : lockState'[k] = lockState[k]
         /\ Waiting' \in Seq(Items) /\ Distinct(Waiting')
         /\ Nodes(Waiting') = Nodes(Waiting) \ {w}
         /\ List' \in Seq(Items) /\ Distinct(List')
         /\ Nodes(List') \subseteq Nodes(List) \cup {w}
         /\ w \notin Nodes(List) => Len(List') = Len(List) + 1
         /\ Finished' = Finished
         /\ blocked' = FALSE /\ Count' \in Nat
         /\ Announced(Count', pc, blocked') = Announced(Count, pc, blocked) + 1
         /\ Semaphore' = Semaphore
<1>1. LockingAcquire({w}) /\ UpQueueLock /\ EnqueueItem(w)
      /\ Waiting' = Tail(Waiting) /\ Semaphore' = Semaphore
  BY DEF UpSemaphore, WorkerWakeOnLock
<1>2. Waiting \in Seq(Items) /\ Distinct(Waiting)
  BY Typed
<1>3. w \in Items /\ w \in Nodes(Waiting)
  BY <1>2, FrontNode
<1>4. ~ Finished[w] /\ w \notin Producers
  BY <1>3 DEF WorkerInv, Waiters
<1>5. lockState' \in [Items -> LockingStates] /\ lockState'[w] = "ACQUIRED"
      /\ (\A k \in Items \ {w} : lockState'[k] = lockState[k])
  <2>1. WakeFunction(w) = "ACQUIRED"
    BY <1>3, WorkerAssumption DEF WakeFunction
  <2>2. lockState' = [k \in Items |-> IF k \in {w} THEN WakeFunction(k) ELSE lockState[k]]
    BY <1>1 DEF LockingAcquire, Items
  <2>3. lockState \in [Items -> LockingStates] /\ "ACQUIRED" \in LockingStates
    BY Typed DEF LockingStates
  <2> QED
    BY <1>3, <2>1, <2>2, <2>3
<1>6. Waiting' \in Seq(Items) /\ Distinct(Waiting') /\ Nodes(Waiting') = Nodes(Waiting) \ {w}
  BY <1>1, <1>2, TailNodes
<1>7. /\ List' \in Seq(Items) /\ Distinct(List')
      /\ Nodes(List') \subseteq Nodes(List) \cup {w}
      /\ w \notin Nodes(List) => Len(List') = Len(List) + 1
      /\ Finished' \in [Items -> BOOLEAN]
      /\ ~ Finished'[w] /\ (\A k \in Items \ {w} : Finished'[k] = Finished[k])
  BY <1>1, <1>3, ItemQueued
<1>8. Finished' = Finished
  <2>1. Finished \in [Items -> BOOLEAN] /\ Finished' = [Finished EXCEPT ![w] = FALSE]
    BY <1>1, Typed DEF EnqueueItem
  <2>2. Finished[w] = FALSE
    BY <1>3, <1>4, <2>1
  <2> QED
    BY <1>3, <2>1, <2>2
<1>9. /\ blocked' = FALSE /\ Count' \in Nat
      /\ Announced(Count', pc, blocked') = Announced(Count, pc, blocked) + 1
  BY <1>1, QueueRaised
<1> QED
  BY <1>1, <1>3, <1>4, <1>5, <1>6, <1>7, <1>8, <1>9

(* Whoever raises it, the items that wait are those that are blocked.      *)
LEMMA UpKeepsWaiters ==
  ASSUME WorkerInv, UpSemaphore
  PROVE  /\ Waiters' /\ Distinct(List') /\ List' \in Seq(Items) /\ Waiting' \in Seq(Items)
         /\ lockState' \in [Items -> LockingStates] /\ Count' \in Nat /\ Finished' = Finished
         /\ (blocked' => blocked /\ Count' = Count) /\ blocked' \in BOOLEAN
         /\ Nodes(Waiting') \subseteq Nodes(Waiting)
         /\ \A k \in Items : lockState[k] # "READY" => lockState'[k] # "READY"
<1> DEFINE w == Head(Waiting)
<1>1. CASE Waiting # <<>>
  <2> HIDE DEF w
  <2>1. /\ w \in Items /\ w \in Nodes(Waiting)
        /\ lockState' \in [Items -> LockingStates] /\ lockState'[w] = "ACQUIRED"
        /\ \A k \in Items \ {w} : lockState'[k] = lockState[k]
        /\ Waiting' \in Seq(Items) /\ Distinct(Waiting')
        /\ Nodes(Waiting') = Nodes(Waiting) \ {w}
        /\ List' \in Seq(Items) /\ Distinct(List') /\ Finished' = Finished
        /\ Count' \in Nat /\ Semaphore' = Semaphore
    BY <1>1, Granted DEF w
  <2>2. blocked' = FALSE
    BY <1>1, Granted
  <2>3. \A k \in Items : lockState'[k] = "BLOCKING" <=> k \in Nodes(Waiting')
    <3> TAKE k \in Items
    <3>1. CASE k = w
      BY <2>1, <3>1
    <3>2. CASE k # w
      BY <2>1, <3>2 DEF WorkerInv, Waiters
    <3> QED
      BY <3>1, <3>2
  <2>4. Waiters'
    BY <1>1, <2>1, <2>3 DEF WorkerInv, Waiters
  <2>5. \A k \in Items : lockState[k] # "READY" => lockState'[k] # "READY"
    BY <2>1
  <2> QED
    BY <2>1, <2>2, <2>4, <2>5
<1>2. CASE Waiting = <<>>
  <2>1. UNCHANGED <<lockState, Waiting, List, Count, Finished>>
    BY <1>2 DEF UpSemaphore
  <2>2. blocked' = blocked /\ blocked \in BOOLEAN
    BY <1>2 DEF UpSemaphore, WorkerInv, WorkerTypeOK
  <2>3. Waiters'
    BY <1>2, <2>1 DEF WorkerInv, Waiters
  <2> QED
    BY <2>1, <2>2, <2>3, Typed
<1> QED
  BY <1>1, <1>2

(* Somebody else raises the semaphore of test6.                            *)
LEMMA OthersRaise ==
  ASSUME WorkerInv, Up, use' = use
  PROVE  WorkerInv'
<1>1. use.others /\ Room /\ UpSemaphore /\ UNCHANGED <<adding, pc, item>>
  BY DEF Up
<1>2. /\ Waiters' /\ Distinct(List') /\ List' \in Seq(Items) /\ Waiting' \in Seq(Items)
      /\ lockState' \in [Items -> LockingStates] /\ Count' \in Nat /\ Finished' = Finished
      /\ Nodes(Waiting') \subseteq Nodes(Waiting)
      /\ \A k \in Items : lockState[k] # "READY" => lockState'[k] # "READY"
  BY <1>1, UpKeepsWaiters
<1>3. (blocked' => blocked /\ Count' = Count) /\ blocked' \in BOOLEAN
  BY <1>1, UpKeepsWaiters
<1>4. Pending' = Pending
  BY <1>1, <1>2 DEF Pending
<1>5. Budget' /\ Semaphore' \in 0..MaxCount
  <2>1. CASE Waiting # <<>>
    BY <1>1, <1>4, <2>1, BudgetKept DEF UpSemaphore
  <2>2. CASE Waiting = <<>>
    <3> DEFINE busy == {k \in Producers : ~ Finished[k] \/ k \in adding}
    <3>1. Semaphore' = Semaphore + 1 /\ Semaphore \in 0..MaxCount
      BY <1>1, <2>2, Typed DEF UpSemaphore
    <3>2. Semaphore + Cardinality(busy) < MaxCount
      BY <1>1 DEF Room
    <3>3. Pending \subseteq busy /\ busy \in SUBSET Items /\ MaxCount \in Nat
      BY WorkerAssumption DEF Pending
    <3>4. Cardinality(Pending) \in Nat /\ Cardinality(busy) \in Nat
          /\ Cardinality(Pending) <= Cardinality(busy)
      <4> HIDE DEF busy
      <4> QED
        BY <3>3, PendingItems, ItemSets
    <3> HIDE DEF busy
    <3> QED
      BY <1>4, <3>1, <3>2, <3>3, <3>4 DEF Budget
  <2> QED
    BY <2>1, <2>2
<1>6. WorkerTypeOK'
  BY <1>1, <1>2, <1>3, <1>5 DEF WorkerInv, WorkerTypeOK
<1>7. InHand'
  BY <1>1, <1>2 DEF WorkerInv, InHand
<1>8. QueueInv'
  BY <1>1, <1>2, <1>3 DEF WorkerInv, QueueInv
<1>9. Places' /\ Announcements'
  BY <1>1 DEF Places, Announcements
<1> QED
  BY <1>2, <1>5, <1>6, <1>7, <1>8, <1>9 DEF WorkerInv

(* A producer raises it and is about to finish.                            *)
LEMMA ProducerRaises ==
  ASSUME WorkerInv, RunUp, use' = use
  PROVE  WorkerInv'
<1>1. pc = "run" /\ ~ Finished[item] /\ item \in Producers /\ UpSemaphore /\ pc' = "finish"
      /\ UNCHANGED <<adding, item>>
  BY DEF RunUp
<1>2. /\ Waiters' /\ Distinct(List') /\ List' \in Seq(Items) /\ Waiting' \in Seq(Items)
      /\ lockState' \in [Items -> LockingStates] /\ Count' \in Nat /\ Finished' = Finished
      /\ Nodes(Waiting') \subseteq Nodes(Waiting)
  BY <1>1, UpKeepsWaiters
<1>3. (blocked' => blocked /\ Count' = Count) /\ blocked' \in BOOLEAN
  BY <1>1, UpKeepsWaiters
<1>4. item \in Items /\ item \notin Nodes(Waiting) /\ ~ blocked
  BY <1>1, WorkerAssumption DEF WorkerInv, Waiters, QueueInv
<1>5. item \in Pending /\ Pending' = Pending \ {item}
  BY <1>1, <1>2 DEF Pending
<1>6. Budget' /\ Semaphore' \in 0..MaxCount
  <2>1. CASE Waiting # <<>>
    BY <1>1, <1>5, <2>1, BudgetKept DEF UpSemaphore
  <2>2. CASE Waiting = <<>>
    <3>1. Semaphore' = Semaphore + 1 /\ Semaphore \in 0..MaxCount /\ MaxCount \in Nat
      BY <1>1, <2>2, Typed, WorkerAssumption DEF UpSemaphore
    <3>2. Pending' \in SUBSET Items /\ item \notin Pending' /\ Pending = Pending' \cup {item}
      BY <1>5, PendingItems
    <3>3. Cardinality(Pending) = Cardinality(Pending') + 1 /\ Cardinality(Pending') \in Nat
      BY <3>2, ItemSets
    <3>4. Semaphore + Cardinality(Pending) <= MaxCount
      BY DEF WorkerInv, Budget
    <3> QED
      BY <3>1, <3>3, <3>4 DEF Budget
  <2> QED
    BY <2>1, <2>2
<1>7. WorkerTypeOK'
  BY <1>1, <1>2, <1>3, <1>6 DEF WorkerInv, WorkerTypeOK
<1>8. InHand'
  BY <1>1, <1>2, <1>4 DEF InHand
<1>9. QueueInv'
  BY <1>1, <1>2, <1>3, <1>4 DEF WorkerInv, QueueInv
<1>10. Places' /\ Announcements'
  <2> SUFFICES ASSUME ~ use.others PROVE Places' /\ Announcements'
    BY DEF Places, Announcements
  <2>1. Announced(Count', pc', blocked') = Announced(Count', pc, blocked')
    BY <1>1 DEF Announced
  <2>2. CASE Waiting # <<>>
    <3> DEFINE w == Head(Waiting)
    <3>1. /\ w \in Items /\ w \in Nodes(Waiting) /\ ~ Finished[w]
          /\ Nodes(Waiting') = Nodes(Waiting) \ {w}
          /\ Nodes(List') \subseteq Nodes(List) \cup {w}
          /\ w \notin Nodes(List) => Len(List') = Len(List) + 1
          /\ Announced(Count', pc, blocked') = Announced(Count, pc, blocked) + 1
      BY <1>1, <2>2, Granted
    <3> HIDE DEF w
    <3>2. w \notin Nodes(List) /\ w # item
      BY <1>4, <3>1 DEF WorkerInv, Places
    <3>3. Places'
      BY <1>1, <1>2, <1>4, <3>1, <3>2 DEF WorkerInv, Places
    <3>4. Announced(Count, pc, blocked) \in Int /\ Len(List) \in Nat
          /\ Cardinality(adding) \in Nat
      BY Typed DEF Announced
    <3>5. Announcements'
      BY <1>1, <2>1, <3>1, <3>2, <3>4 DEF WorkerInv, Announcements
    <3> QED
      BY <3>3, <3>5
  <2>3. CASE Waiting = <<>>
    <3>1. UNCHANGED <<Waiting, List, Count, Finished>> /\ blocked' = blocked
      BY <1>1, <2>3 DEF UpSemaphore
    <3>2. Places'
      BY <1>1, <1>4, <3>1 DEF WorkerInv, Places
    <3>3. Announcements'
      BY <1>1, <2>1, <3>1 DEF WorkerInv, Announcements
    <3> QED
      BY <3>2, <3>3
  <2> QED
    BY <2>2, <2>3
<1> QED
  BY <1>2, <1>6, <1>7, <1>8, <1>9, <1>10 DEF WorkerInv

-----------------------------------------------------------------------------

(* SemaphoreDown in WorkerGetItem: the worker blocks, or is told of one    *)
(* item.                                                                   *)
LEMMA WorkerGoesDown ==
  ASSUME WorkerInv, GetDown, use' = use
  PROVE  WorkerInv'
<1>1. pc = "down" /\ pc' = "pop"
      /\ UNCHANGED <<lockState, List, adding, Finished, item, Semaphore, Waiting>>
  BY DEF GetDown
<1>2. ~ blocked /\ Count \in Nat
  BY <1>1, Typed DEF WorkerInv, QueueInv
<1>3. /\ Count' \in Nat /\ blocked' \in BOOLEAN
      /\ blocked' => Count' = 0
      /\ Announced(Count', pc', blocked') = Announced(Count, pc, blocked)
  <2>1. CASE Count = 0
    <3>1. blocked' = TRUE /\ Count' = Count
      BY <2>1 DEF GetDown
    <3> QED
      BY <1>1, <2>1, <3>1 DEF Announced
  <2>2. CASE Count > 0
    <3>1. Count' = Count - 1 /\ blocked' = blocked
      BY <2>2 DEF GetDown
    <3>2. ~ blocked' /\ blocked' \in BOOLEAN
      <4>1. blocked' = blocked
        BY <3>1
      <4> QED
        BY <1>2, <4>1 DEF WorkerInv, WorkerTypeOK
    <3>3. Announced(Count', pc', blocked') = Count' + 1
      BY <1>1, <3>2 DEF Announced
    <3>4. Announced(Count, pc, blocked) = Count
      BY <1>1, <1>2 DEF Announced
    <3> QED
      BY <1>2, <2>2, <3>1, <3>2, <3>3, <3>4
  <2> QED
    BY <1>2, <2>1, <2>2
<1>4. Budget' /\ Semaphore' \in 0..MaxCount
  <2>1. Pending' \subseteq Pending
    BY <1>1 DEF Pending
  <2> QED
    BY <1>1, <2>1, BudgetKept
<1>5. WorkerTypeOK'
  BY <1>1, <1>3, <1>4 DEF WorkerInv, WorkerTypeOK
<1>6. InHand' /\ Waiters'
  BY <1>1 DEF WorkerInv, InHand, Waiters
<1>7. QueueInv'
  BY <1>1, <1>3 DEF WorkerInv, QueueInv
<1>8. Places'
  BY <1>1 DEF WorkerInv, Places
<1>9. Announcements'
  BY <1>1, <1>3 DEF WorkerInv, Announcements
<1> QED
  BY <1>4, <1>5, <1>6, <1>7, <1>8, <1>9 DEF WorkerInv

(* WorkerGetItem takes the item it was told of.                            *)
LEMMA WorkerPops ==
  ASSUME WorkerInv, GetPop, use' = use
  PROVE  WorkerInv'
<1>1. pc = "pop" /\ ~ blocked /\ List # <<>> /\ item' = Head(List) /\ List' = Tail(List)
      /\ pc' = "run" /\ blocked' = blocked
      /\ UNCHANGED <<lockState, Count, adding, Finished, Semaphore, Waiting>>
  BY DEF GetPop
<1>2. List \in Seq(Items) /\ Distinct(List) /\ Len(List) \in Nat
  BY Typed
<1>3. item' \in Items /\ item' \in Nodes(List) /\ Len(List') = Len(List) - 1
  BY <1>1, <1>2, QueueLength
<1>4. List' \in Seq(Items) /\ Distinct(List') /\ Nodes(List') = Nodes(List) \ {item'}
  BY <1>1, <1>2, TailNodes
<1>5. Budget' /\ Semaphore' \in 0..MaxCount
  <2>1. Pending' \subseteq Pending
    BY <1>1 DEF Pending
  <2> QED
    BY <1>1, <2>1, BudgetKept
<1>6. WorkerTypeOK'
  BY <1>1, <1>3, <1>4, <1>5 DEF WorkerInv, WorkerTypeOK
<1>7. InHand' /\ Waiters'
  BY <1>1, <1>3 DEF WorkerInv, InHand, Waiters
<1>8. QueueInv'
  BY <1>1, <1>4 DEF WorkerInv, QueueInv
<1>9. Places'
  <2> SUFFICES ASSUME ~ use.others PROVE Places'
    BY DEF Places
  <2>1. ASSUME NEW k \in Items, Finished[k]
        PROVE  k \notin Nodes(List') \cup Nodes(Waiting) \cup {item'}
    BY <1>3, <1>4, <2>1 DEF WorkerInv, Places
  <2>2. item' \notin Nodes(Waiting) /\ Nodes(List') \cap Nodes(Waiting) = {}
    BY <1>3, <1>4 DEF WorkerInv, Places
  <2> QED
    BY <1>1, <1>4, <2>1, <2>2 DEF Places
<1>10. Announcements'
  <2>1. Announced(Count', pc', blocked') = Announced(Count, pc, blocked) - 1
        /\ Announced(Count, pc, blocked) \in Int
    BY <1>1, Typed DEF Announced
  <2>2. Cardinality(adding) \in Nat
    BY Typed
  <2> QED
    BY <1>1, <1>2, <1>3, <2>1, <2>2 DEF WorkerInv, Announcements
<1> QED
  BY <1>5, <1>6, <1>7, <1>8, <1>9, <1>10 DEF WorkerInv

(* The item in hand asks for the semaphore of test6: it is granted, or the *)
(* item waits in its list.                                                 *)
LEMMA ConsumerGoesDown ==
  ASSUME WorkerInv, RunDown, use' = use
  PROVE  WorkerInv'
<1>1. pc = "run" /\ ~ Finished[item] /\ item \notin Producers /\ pc' = "look"
      /\ UNCHANGED <<queueVars, item>>
  BY DEF RunDown
<1>2. List' = List /\ Count' = Count /\ adding' = adding /\ Finished' = Finished
      /\ item' = item /\ blocked' = blocked
  BY <1>1 DEF queueVars
<1>3. item \in Items /\ ~ blocked
  BY <1>1 DEF WorkerInv, InHand, QueueInv
<1>4. lockState \in [Items -> LockingStates] /\ Waiting \in Seq(Items) /\ Distinct(Waiting)
  BY Typed
<1>5. /\ lockState' \in [Items -> LockingStates] /\ lockState'[item] # "READY"
      /\ Waiting' \in Seq(Items) /\ Nodes(Waiting') \subseteq Nodes(Waiting) \cup {item}
      /\ Waiters'
      /\ Semaphore' = Semaphore \/ (Semaphore > 0 /\ Semaphore' = Semaphore - 1)
  <2>1. CASE ~ LockingIsFree(item)
    <3>1. UNCHANGED <<lockState, Semaphore, Waiting>>
      BY <2>1 DEF RunDown
    <3> QED
      BY <1>2, <1>4, <2>1, <3>1 DEF WorkerInv, Waiters, LockingIsFree
  <2>2. CASE LockingIsFree(item) /\ Semaphore = 0
    <3>1. lockState' = [lockState EXCEPT ![item] = "BLOCKING"] /\ Semaphore' = Semaphore
          /\ Waiting' = LinkedListEnqueue(item, Waiting)
      BY <2>2 DEF RunDown, LockingBlock
    <3>2. item \notin Nodes(Waiting)
      BY <1>3, <2>2 DEF WorkerInv, Waiters, LockingIsFree
    <3>3. Waiting' \in Seq(Items) /\ Nodes(Waiting') = Nodes(Waiting) \cup {item}
          /\ Distinct(Waiting')
      BY <1>3, <1>4, <3>1, <3>2, EnqueueNode
    <3>4. lockState' \in [Items -> LockingStates] /\ lockState'[item] = "BLOCKING"
          /\ (\A k \in Items : k # item => lockState'[k] = lockState[k])
      BY <1>3, <1>4, <3>1 DEF LockingStates
    <3>5. \A k \in Items : lockState'[k] = "BLOCKING" <=> k \in Nodes(Waiting')
      <4> TAKE k \in Items
      <4>1. CASE k = item
        BY <3>3, <3>4, <4>1
      <4>2. CASE k # item
        BY <3>3, <3>4, <4>2 DEF WorkerInv, Waiters
      <4> QED
        BY <4>1, <4>2
    <3>6. \A k \in Nodes(Waiting') : ~ Finished'[k] /\ k \notin Producers
      BY <1>1, <1>2, <3>3 DEF WorkerInv, Waiters
    <3> QED
      BY <2>2, <3>1, <3>3, <3>4, <3>5, <3>6 DEF Waiters
  <2>3. CASE LockingIsFree(item) /\ Semaphore > 0
    <3>1. LockingAcquire({item}) /\ Semaphore' = Semaphore - 1 /\ Waiting' = Waiting
      BY <2>3, Typed DEF RunDown
    <3>2. Waiting = <<>> /\ item \notin Nodes(Waiting)
      BY <1>3, <2>3 DEF WorkerInv, Waiters, LockingIsFree
    <3>3. WakeFunction(item) = "ACQUIRED"
      BY <1>3, WorkerAssumption DEF WakeFunction
    <3>4. lockState' = [k \in Items |-> IF k \in {item} THEN WakeFunction(k) ELSE lockState[k]]
      BY <3>1 DEF LockingAcquire, Items
    <3>5. lockState' \in [Items -> LockingStates] /\ lockState'[item] = "ACQUIRED"
          /\ (\A k \in Items : k # item => lockState'[k] = lockState[k])
      BY <1>3, <1>4, <3>3, <3>4 DEF LockingStates
    <3>6. \A k \in Items : lockState'[k] = "BLOCKING" <=> k \in Nodes(Waiting')
      <4> TAKE k \in Items
      <4>1. CASE k = item
        BY <3>1, <3>2, <3>5, <4>1
      <4>2. CASE k # item
        BY <3>1, <3>5, <4>2 DEF WorkerInv, Waiters
      <4> QED
        BY <4>1, <4>2
    <3>7. Waiters'
      BY <1>2, <3>1, <3>2, <3>6 DEF WorkerInv, Waiters
    <3> QED
      BY <1>4, <2>3, <3>1, <3>5, <3>7
  <2> QED
    BY <2>1, <2>2, <2>3, Typed
<1>6. Budget' /\ Semaphore' \in 0..MaxCount
  <2>1. Pending' \subseteq Pending
    BY <1>1, <1>2 DEF Pending
  <2> QED
    BY <1>5, <2>1, BudgetKept
<1>7. WorkerTypeOK'
  BY <1>1, <1>2, <1>5, <1>6 DEF WorkerInv, WorkerTypeOK
<1>8. InHand'
  BY <1>1, <1>2, <1>3, <1>5 DEF InHand
<1>9. QueueInv'
  BY <1>2, <1>3 DEF WorkerInv, QueueInv
<1>10. Places'
  <2> SUFFICES ASSUME ~ use.others PROVE Places'
    BY DEF Places
  <2>1. Nodes(List) \cap Nodes(Waiting') = {} /\ item \notin Nodes(List)
    BY <1>5 DEF WorkerInv, Places
  <2>2. ASSUME NEW k \in Items, Finished[k]
        PROVE  k \notin Nodes(List) \cup Nodes(Waiting') \cup {item}
    BY <1>1, <1>5, <2>2 DEF WorkerInv, Places
  <2> QED
    BY <1>1, <1>2, <2>1, <2>2 DEF Places
<1>11. Announcements'
  <2>1. Announced(Count', pc', blocked') = Announced(Count, pc, blocked)
    BY <1>1, <1>2 DEF Announced
  <2> QED
    BY <1>2, <2>1 DEF WorkerInv, Announcements
<1> QED
  BY <1>5, <1>6, <1>7, <1>8, <1>9, <1>10, <1>11 DEF WorkerInv

(* LockingIsAcquired: the item goes on, or leaves the worker's hand while  *)
(* it waits.                                                               *)
LEMMA ConsumerLooks ==
  ASSUME WorkerInv, RunLook, use' = use
  PROVE  WorkerInv'
<1>1. pc = "look" /\ Semaphore' = Semaphore /\ Waiting' = Waiting
  BY DEF RunLook
<1>2. List' = List /\ Count' = Count /\ adding' = adding /\ Finished' = Finished
      /\ blocked' = blocked
  BY DEF RunLook, queueVars
<1>3. item \in Items /\ item \notin Producers /\ ~ Finished[item] /\ ~ blocked
  BY <1>1 DEF WorkerInv, InHand, QueueInv
<1>4. /\ lockState' \in [Items -> LockingStates]
      /\ \A k \in Items : lockState'[k] = "BLOCKING" <=> k \in Nodes(Waiting)
      /\ \/ pc' \in {"run", "finish"} /\ item' = item /\ item \notin Nodes(Waiting)
         \/ pc' = "down" /\ item' = NoItem
  <2>1. CASE LockingIsAcquired(item) /\ pc' \in {"run", "finish"} /\ item' = item
    <3>1. lockState[item] = "ACQUIRED" /\ lockState' = [lockState EXCEPT ![item] = "READY"]
          /\ pc' \in {"run", "finish"} /\ item' = item
      BY <2>1 DEF LockingIsAcquired
    <3>2. item \notin Nodes(Waiting)
      BY <1>3, <3>1 DEF WorkerInv, Waiters
    <3>3. lockState' \in [Items -> LockingStates] /\ lockState'[item] = "READY"
          /\ (\A k \in Items : k # item => lockState'[k] = lockState[k])
      BY <1>3, <3>1, Typed DEF LockingStates
    <3> QED
      BY <3>1, <3>2, <3>3 DEF WorkerInv, Waiters
  <2>2. CASE Blocked /\ lockState' = lockState
    BY <2>2, Typed DEF Blocked, WorkerInv, Waiters
  <2> QED
    BY <2>1, <2>2 DEF RunLook
<1>5. Budget' /\ Semaphore' \in 0..MaxCount
  <2>1. Pending' \subseteq Pending
    BY <1>1, <1>2 DEF Pending
  <2> QED
    BY <1>1, <2>1, BudgetKept
<1>6. WorkerTypeOK'
  BY <1>1, <1>2, <1>3, <1>4, <1>5 DEF WorkerInv, WorkerTypeOK
<1>7. InHand' /\ Waiters' /\ QueueInv'
  BY <1>1, <1>2, <1>3, <1>4 DEF WorkerInv, InHand, Waiters, QueueInv
<1>8. NoItem \notin Nodes(List) /\ NoItem \notin Nodes(Waiting) /\ NoItem \notin Items
  BY Typed
<1>9. Places'
  BY <1>1, <1>2, <1>4, <1>8 DEF WorkerInv, Places
<1>10. Announcements'
  <2>1. Announced(Count', pc', blocked') = Announced(Count, pc, blocked)
    BY <1>1, <1>2, <1>4 DEF Announced
  <2> QED
    BY <1>2, <2>1 DEF WorkerInv, Announcements
<1> QED
  BY <1>5, <1>6, <1>7, <1>9, <1>10 DEF WorkerInv

(* An item that finishes is in no list.                                    *)
LEMMA ItemFinishes ==
  ASSUME WorkerInv, Finish, use' = use
  PROVE  WorkerInv'
<1>1. pc = "finish" /\ Finished' = [Finished EXCEPT ![item] = TRUE]
      /\ pc' = "down" /\ item' = NoItem /\ blocked' = blocked
      /\ UNCHANGED <<lockState, List, Count, adding, Semaphore, Waiting>>
  BY DEF Finish
<1>2. item \in Items /\ item \notin Nodes(Waiting) /\ ~ blocked /\ ~ Finished[item]
  BY <1>1 DEF WorkerInv, InHand, QueueInv
<1>3. Finished' \in [Items -> BOOLEAN] /\ Finished'[item]
      /\ (\A k \in Items : k # item => Finished'[k] = Finished[k])
  BY <1>1, <1>2, Typed
<1>4. item \notin adding
  BY <1>2 DEF WorkerInv, QueueInv
<1>5. Budget' /\ Semaphore' \in 0..MaxCount
  <2>1. Pending' \subseteq Pending
    <3>1. ASSUME NEW k \in Pending' PROVE k \in Pending
      <4>1. k \in Producers /\ k \in Items /\ (~ Finished'[k] \/ k \in adding)
        BY <1>1, WorkerAssumption DEF Pending
      <4>2. k # item
        BY <1>3, <1>4, <4>1
      <4> QED
        BY <1>3, <4>1, <4>2 DEF Pending
    <3> QED
      BY <3>1
  <2> QED
    BY <1>1, <2>1, BudgetKept
<1>6. WorkerTypeOK'
  BY <1>1, <1>3, <1>5 DEF WorkerInv, WorkerTypeOK
<1>7. InHand'
  BY <1>1 DEF InHand
<1>8. Waiters'
  <2>1. \A k \in Nodes(Waiting) : k \in Items /\ k # item
    BY <1>2, Typed
  <2> QED
    BY <1>1, <1>3, <2>1 DEF WorkerInv, Waiters
<1>9. QueueInv'
  <2>1. \A k \in adding : k \in Items /\ k # item
    BY <1>4, Typed
  <2> QED
    BY <1>1, <1>2, <1>3, <2>1 DEF WorkerInv, QueueInv
<1>10. Places'
  <2> SUFFICES ASSUME ~ use.others PROVE Places'
    BY DEF Places
  <2>1. NoItem \notin Nodes(List) /\ NoItem \notin Nodes(Waiting) /\ NoItem \notin Items
    BY Typed
  <2>2. item \notin Nodes(List)
    BY DEF WorkerInv, Places
  <2>3. ASSUME NEW k \in Items, Finished'[k]
        PROVE  k \notin Nodes(List) \cup Nodes(Waiting) \cup {NoItem}
    <3>1. CASE k = item
      BY <1>2, <2>1, <2>2, <3>1
    <3>2. CASE k # item
      BY <1>3, <2>1, <2>3, <3>2 DEF WorkerInv, Places
    <3> QED
      BY <3>1, <3>2
  <2> QED
    BY <1>1, <2>1, <2>3 DEF WorkerInv, Places
<1>11. Announcements'
  <2>1. Announced(Count', pc', blocked') = Announced(Count, pc, blocked)
    BY <1>1 DEF Announced
  <2> QED
    BY <1>1, <2>1 DEF WorkerInv, Announcements
<1> QED
  BY <1>5, <1>6, <1>7, <1>8, <1>9, <1>10, <1>11 DEF WorkerInv

(* An item that pends is queued, but not announced.                        *)
LEMMA ItemPends ==
  ASSUME WorkerInv, Pended, use' = use
  PROVE  WorkerInv'
<1>1. pc = "run" /\ ~ Finished[item] /\ item \in use.pend
      /\ List' = LinkedListEnqueue(item, List)
      /\ pc' = "down" /\ item' = NoItem /\ blocked' = blocked
      /\ UNCHANGED <<lockState, Count, adding, Finished, Semaphore, Waiting>>
  BY DEF Pended
<1>2. item \in Items /\ ~ blocked /\ List \in Seq(Items) /\ Distinct(List)
  BY <1>1, Typed DEF WorkerInv, InHand, QueueInv
<1>3. List' \in Seq(Items) /\ Distinct(List') /\ Nodes(List') \subseteq Nodes(List) \cup {item}
  BY <1>1, <1>2, EnqueueNode
<1>4. item \notin Nodes(List) => Len(List') = Len(List) + 1
  BY <1>1, <1>2, QueueLength
<1>5. Budget' /\ Semaphore' \in 0..MaxCount
  <2>1. Pending' \subseteq Pending
    BY <1>1 DEF Pending
  <2> QED
    BY <1>1, <2>1, BudgetKept
<1>6. WorkerTypeOK'
  BY <1>1, <1>3, <1>5 DEF WorkerInv, WorkerTypeOK
<1>7. InHand' /\ Waiters'
  BY <1>1 DEF WorkerInv, InHand, Waiters
<1>8. QueueInv'
  BY <1>1, <1>2, <1>3 DEF WorkerInv, QueueInv
<1>9. Places'
  <2> SUFFICES ASSUME ~ use.others PROVE Places'
    BY DEF Places
  <2>1. NoItem \notin Nodes(List') /\ NoItem \notin Nodes(Waiting) /\ NoItem \notin Items
    BY <1>2, <1>3, Typed
  <2>2. item \notin Nodes(Waiting)
    BY <1>1 DEF WorkerInv, Places
  <2>3. ASSUME NEW k \in Items, Finished[k]
        PROVE  k \notin Nodes(List') \cup Nodes(Waiting) \cup {NoItem}
    BY <1>1, <1>3, <2>1, <2>3 DEF WorkerInv, Places
  <2>4. Nodes(List') \cap Nodes(Waiting) = {}
    BY <1>3, <2>2 DEF WorkerInv, Places
  <2> QED
    BY <1>1, <2>1, <2>3, <2>4 DEF Places
<1>10. Announcements'
  <2> SUFFICES ASSUME ~ use.others PROVE Announcements'
    BY DEF Announcements
  <2>1. Announced(Count', pc', blocked') = Announced(Count, pc, blocked)
        /\ Announced(Count, pc, blocked) \in Int
    BY <1>1, Typed DEF Announced
  <2>2. Len(List') = Len(List) + 1 /\ use.pend # {}
    BY <1>1, <1>4 DEF WorkerInv, Places
  <2>3. Cardinality(adding) \in Nat /\ Len(List) \in Nat
    BY Typed
  <2> QED
    BY <1>1, <2>1, <2>2, <2>3 DEF WorkerInv, Announcements
<1> QED
  BY <1>5, <1>6, <1>7, <1>8, <1>9, <1>10 DEF WorkerInv

(* An assertion that fails stops the worker; without other users only the  *)
(* one of WorkerGetItem can.                                               *)
LEMMA WorkerPanics ==
  ASSUME WorkerInv, KernelPanic, use' = use
  PROVE  WorkerInv'
<1>1. pc' = "panic" /\ lockState' = lockState /\ item' = item /\ Semaphore' = Semaphore
      /\ Waiting' = Waiting /\ List' = List /\ Count' = Count /\ adding' = adding
      /\ Finished' = Finished /\ blocked' = blocked
  BY DEF KernelPanic, queueVars
<1>2. ~ blocked /\ pc \in {"pop", "run", "look"}
  <2>1. CASE ~ PopFindsItem
    BY <2>1 DEF PopFindsItem
  <2>2. CASE ~ PoppedIsUnfinished \/ (pc = "look" /\ lockState[item] = "READY")
    BY <2>2 DEF PoppedIsUnfinished, WorkerInv, QueueInv
  <2> QED
    BY <2>1, <2>2 DEF KernelPanic, AssertionsHold
<1>3. ~ use.others => pc = "pop"
  <2>1. pc = "look" => lockState[item] # "READY"
    BY DEF WorkerInv, InHand
  <2>2. ASSUME ~ use.others, pc = "run"
        PROVE  ~ Finished[item]
    <3>1. item \in Items
      BY <2>2 DEF WorkerInv, InHand
    <3> QED
      BY <2>2, <3>1 DEF WorkerInv, Places
  <2> QED
    BY <1>2, <2>1, <2>2 DEF KernelPanic, AssertionsHold, PopFindsItem, PoppedIsUnfinished
<1>4. Budget' /\ Semaphore' \in 0..MaxCount
  <2>1. Pending' \subseteq Pending
    BY <1>1, <1>2 DEF Pending
  <2> QED
    BY <1>1, <2>1, BudgetKept
<1>5. WorkerTypeOK'
  BY <1>1, <1>4 DEF WorkerInv, WorkerTypeOK
<1>6. InHand' /\ Waiters' /\ QueueInv'
  BY <1>1, <1>2 DEF WorkerInv, InHand, Waiters, QueueInv
<1>7. Places'
  <2> SUFFICES ASSUME ~ use.others PROVE Places'
    BY DEF Places
  <2>1. item = NoItem /\ NoItem \notin Nodes(Waiting)
    BY <1>3, Typed DEF WorkerInv, InHand
  <2> QED
    BY <1>1, <2>1 DEF WorkerInv, Places
<1>8. Announcements'
  <2> SUFFICES ASSUME ~ use.others PROVE Announcements'
    BY DEF Announcements
  <2>1. Announced(Count', pc', blocked') = Announced(Count, pc, blocked)
    BY <1>1, <1>2, <1>3 DEF Announced
  <2> QED
    BY <1>1, <2>1 DEF WorkerInv, Announcements
<1> QED
  BY <1>4, <1>5, <1>6, <1>7, <1>8 DEF WorkerInv

-----------------------------------------------------------------------------

(* WorkerCreateWorker makes a unit with nothing to do.                     *)
LEMMA WorkerInvInit ==
  ASSUME WorkerCreateWorker
  PROVE  WorkerInv
<1>1. /\ use \in Usages /\ List = <<>> /\ Count = 0 /\ adding = {}
      /\ Finished = [i \in Items |-> TRUE] /\ pc = "down" /\ item = NoItem /\ blocked = FALSE
      /\ Semaphore = 0 /\ Waiting = <<>> /\ MaxCount \in Nat
      /\ lockState = [i \in Items |-> "READY"]
  BY WorkerAssumption DEF WorkerCreateWorker, LockingInit, Items
<1>2. Nodes(<<>>) = {} /\ Distinct(<<>>)
  BY DEF Nodes, Distinct
<1>3. WorkerTypeOK
  <2>1. <<>> \in Seq(Items)
    BY EmptySeq
  <2>2. lockState \in [Items -> LockingStates] /\ Finished \in [Items -> BOOLEAN]
    BY <1>1 DEF LockingStates
  <2>3. blocked \in BOOLEAN /\ adding \in SUBSET use.threads
    BY <1>1
  <2> QED
    BY <1>1, <2>1, <2>2, <2>3 DEF WorkerTypeOK
<1>4. Budget
  <2>1. Pending = {}
    BY <1>1, WorkerAssumption DEF Pending
  <2> QED
    BY <1>1, <2>1, FS_EmptySet DEF Budget
<1>5. InHand /\ Waiters /\ QueueInv
  BY <1>1, <1>2 DEF InHand, Waiters, QueueInv
<1>6. Places
  BY <1>1, <1>2, WorkerAssumption DEF Places
<1>7. Announcements
  BY <1>1, FS_EmptySet DEF Announcements, Announced
<1> QED
  BY <1>3, <1>4, <1>5, <1>6, <1>7 DEF WorkerInv

(* Every step of the worker, of those that add items and of those that     *)
(* raise the semaphore keeps the invariant.                                *)
LEMMA WorkerInvStep ==
  ASSUME WorkerInv, [WorkerNext]_workerVars
  PROVE  WorkerInv'
<1>1. CASE WorkerNext
  <2>1. use' = use
    BY <1>1 DEF WorkerNext
  <2>2. CASE WorkerThreadMain
    BY <2>1, <2>2, WorkerGoesDown, WorkerPops, ConsumerGoesDown, ConsumerLooks, ProducerRaises,
       ItemFinishes, ItemPends, WorkerPanics
       DEF WorkerThreadMain
  <2>3. ASSUME NEW i \in Items, AddFromHandler(i) \/ AddFromThread(i) \/ AddEnqueue(i)
        PROVE  WorkerInv'
    BY <2>1, <2>3, HandlerAdds, ThreadAdds, ThreadEnqueues
  <2>4. CASE Up
    BY <2>1, <2>4, OthersRaise
  <2> QED
    BY <1>1, <2>2, <2>3, <2>4 DEF WorkerNext
<1>2. CASE UNCHANGED workerVars
  BY <1>2 DEF workerVars, WorkerInv, WorkerTypeOK, Budget, Pending, InHand, Waiters, QueueInv,
              Places, Announcements, Announced
<1> QED
  BY <1>1, <1>2

(* The invariant holds in every state.                                     *)
LEMMA WorkerInvAlways == WorkerSpec => []WorkerInv
<1>1. WorkerCreateWorker => WorkerInv
  BY WorkerInvInit
<1>2. WorkerInv /\ [WorkerNext]_workerVars => WorkerInv'
  BY WorkerInvStep
<1> QED
  BY <1>1, <1>2, PTL DEF WorkerSpec

(* Without other users and without threads that add items, what has been   *)
(* announced is in the queue, so that no assertion of the unit fails; and  *)
(* however the unit is used, an item is blocked exactly while it waits for *)
(* the lock.                                                               *)
THEOREM WorkerAlwaysSound == WorkerSpec => []WorkerSound
<1>1. WorkerInv => WorkerSound
  <2> SUFFICES ASSUME WorkerInv PROVE WorkerSound
    OBVIOUS
  <2>1. ASSUME use.threads = {}, ~ use.others
        PROVE  AssertionsHold
    <3>1. adding = {} /\ Cardinality({}) = 0
      BY <2>1, Typed, FS_EmptySet
    <3>2. ASSUME pc = "pop", ~ blocked
          PROVE  List # <<>>
      <4>1. Announced(Count, pc, blocked) = Count + 1 /\ Count \in Nat
        BY <3>2, Typed DEF Announced
      <4>2. Count + 1 <= Len(List)
        BY <2>1, <3>1, <4>1, Typed DEF WorkerInv, Announcements
      <4> QED
        BY <4>1, <4>2
    <3>3. pc = "run" => ~ Finished[item]
      BY <2>1 DEF WorkerInv, InHand, Places
    <3>4. pc = "look" => lockState[item] # "READY"
      BY DEF WorkerInv, InHand
    <3> QED
      BY <3>2, <3>3, <3>4 DEF AssertionsHold, PopFindsItem, PoppedIsUnfinished
  <2> QED
    BY <2>1 DEF WorkerSound, WorkerInv, Waiters
<1> QED
  BY <1>1, WorkerInvAlways, PTL

(* While only items give the semaphore, the count of the queue's semaphore *)
(* is exact, and a finished item is in no list and in nobody's hand.       *)
THEOREM WorkerKeepsItems == WorkerSpec => []ItemsKept
<1>1. WorkerInv => ItemsKept
  BY DEF WorkerInv, Announcements, Announced, QueueInv, Places, ItemsKept
<1> QED
  BY <1>1, WorkerInvAlways, PTL
=============================================================================
