----------------------------- MODULE LockProofs -----------------------------
(***************************************************************************)
(* The units that block contexts, beside the resource.  The semaphores are *)
(* safe for any finite set of contexts of any kind and any number of       *)
(* semaphores: UseInv is an invariant of UseSpec.  They let contexts in in *)
(* the order they came: UseSpec implies InOrder.  The barrier and the      *)
(* signal are safe for any finite set of contexts of any kind, when the    *)
(* barrier is made for all of them: MeetInv is an invariant of MeetSpec.   *)
(***************************************************************************)
EXTENDS SemaphoreUse, Rendezvous, QueueTheorems

(* The contexts inside a semaphore are finitely many.                      *)
LEMMA UsersFinite ==
  ASSUME UseTypeOK, NEW s \in Semaphores
  PROVE  IsFiniteSet(users[s]) /\ Cardinality(users[s]) \in Nat
<1>1. users[s] \in SUBSET Contexts
  BY DEF UseTypeOK
<1>2. IsFiniteSet(users[s])
  BY <1>1, ContextsAssumption, FS_Subset
<1> QED
  BY <1>2, FS_CardinalityType

(* SemaphoreInit establishes the invariant.                                *)
LEMMA InitUseInv == UseInit => UseInv
<1> SUFFICES ASSUME UseInit
             PROVE  UseInv
  OBVIOUS
<1> USE DEF UseInit, SemaphoreInit, LockingInit
<1>1. UseTypeOK
  <2>1. SemaphoreTypeOK
    BY InitialCountAssumption DEF SemaphoreTypeOK, LockingStates
  <2>2. panic \in BOOLEAN
    OBVIOUS
  <2>3. users \in [Semaphores -> SUBSET Contexts] /\ posts \in [Semaphores -> Nat]
    OBVIOUS
  <2> QED
    BY <2>1, <2>2, <2>3 DEF UseTypeOK
<1>2. \A s \in Semaphores : Waiting(s) = {}
  BY DEF Waiting, Nodes
<1>3. Conservation
  BY InitialCountAssumption, FS_EmptySet DEF Conservation
<1>4. WaitersBlocked
  BY <1>2 DEF WaitersBlocked, Distinct
<1>5. NobodyWaitsInVain /\ AcquiredUses /\ NoPanic
  BY DEF NobodyWaitsInVain, AcquiredUses, NoPanic
<1> QED
  BY <1>1, <1>3, <1>4, <1>5 DEF UseInv

(* A context that finds the count at zero joins the queue.                 *)
LEMMA WaitInv ==
  ASSUME UseInv, NEW s \in Semaphores, NEW c \in Contexts,
         lockState[c] = "READY", \A r \in Semaphores : c \notin users[r],
         Count[s] = 0, WaitFor(s, c), UNCHANGED <<users, posts, panic>>
  PROVE  UseInv'
<1> USE DEF UseInv, WaitFor, LockingBlock
<1>0. \A r \in Semaphores : c \notin Waiting(r)
  BY DEF WaitersBlocked
<1>1. /\ Append(WaitingThreads[s], c) \in Seq(Contexts)
      /\ Nodes(Append(WaitingThreads[s], c)) = Waiting(s) \cup {c}
      /\ Distinct(Append(WaitingThreads[s], c))
  <2>1. WaitingThreads[s] \in Seq(Contexts) /\ Distinct(WaitingThreads[s])
    BY DEF UseTypeOK, SemaphoreTypeOK, WaitersBlocked
  <2>2. c \notin Nodes(WaitingThreads[s])
    BY <1>0 DEF Waiting
  <2> QED
    BY <2>1, <2>2, AppendNode DEF Waiting
<1>2. \A r \in Semaphores :
         WaitingThreads'[r] = IF r = s THEN Append(WaitingThreads[s], c) ELSE WaitingThreads[r]
  BY DEF UseTypeOK, SemaphoreTypeOK
<1>3. \A r \in Semaphores : Waiting(r)' = IF r = s THEN Waiting(s) \cup {c} ELSE Waiting(r)
  <2> SUFFICES ASSUME NEW r \in Semaphores
               PROVE  Waiting(r)' = IF r = s THEN Waiting(s) \cup {c} ELSE Waiting(r)
    OBVIOUS
  <2>1. Waiting(r)' = Nodes(IF r = s THEN Append(WaitingThreads[s], c) ELSE WaitingThreads[r])
    BY <1>2 DEF Waiting
  <2> QED
    BY <1>1, <2>1 DEF Waiting
<1>4. UseTypeOK'
  BY <1>1 DEF UseTypeOK, SemaphoreTypeOK, LockingStates
<1>5. Conservation' /\ NoPanic'
  BY DEF Conservation, NoPanic
<1>6. NobodyWaitsInVain'
  BY <1>2 DEF NobodyWaitsInVain
<1>7. WaitersBlocked'
  <2>1. \A d \in Contexts : lockState'[d] = "BLOCKING" <=> \E r \in Semaphores : d \in Waiting(r)'
    <3>1. \A d \in Contexts : lockState'[d] = IF d = c THEN "BLOCKING" ELSE lockState[d]
      BY DEF UseTypeOK, SemaphoreTypeOK
    <3>2. \A d \in Contexts : lockState[d] = "BLOCKING" <=> \E r \in Semaphores : d \in Waiting(r)
      BY DEF WaitersBlocked
    <3> HIDE DEF UseInv, WaitFor, LockingBlock
    <3> QED
      BY <1>3, <3>1, <3>2
  <2>2. \A r \in Semaphores : Distinct(WaitingThreads'[r])
    BY <1>1, <1>2 DEF WaitersBlocked
  <2>3. \A r, q \in Semaphores : r # q => Waiting(r)' \cap Waiting(q)' = {}
    BY <1>0, <1>3 DEF WaitersBlocked
  <2>4. \A r, q \in Semaphores : Waiting(r)' \cap users'[q] = {}
    BY <1>3 DEF WaitersBlocked
  <2>5. \A r, q \in Semaphores : r # q => users'[r] \cap users'[q] = {}
    BY DEF WaitersBlocked
  <2> QED
    BY <2>1, <2>2, <2>3, <2>4, <2>5 DEF WaitersBlocked
<1>8. AcquiredUses'
  BY DEF AcquiredUses, UseTypeOK, SemaphoreTypeOK
<1> QED
  BY <1>4, <1>5, <1>6, <1>7, <1>8

(* A context that goes down waits or takes one from the count.             *)
LEMMA DownInv ==
  ASSUME UseInv, NEW s \in Semaphores, NEW c \in Contexts, Down(s, c)
  PROVE  UseInv'
<1> USE DEF UseInv
<1>0. lockState[c] = "READY" /\ \A r \in Semaphores : c \notin users[r]
  BY DEF Down, LockingIsFree
<1>1. CASE Count[s] = 0
  <2>1. UNCHANGED <<users, posts>> /\ WaitFor(s, c)
    BY <1>1 DEF Down, SemaphoreDown
  <2>2. panic' = FALSE /\ panic = FALSE
    BY <1>1 DEF Down, NoPanic, UseTypeOK
  <2> QED
    BY <1>0, <1>1, <2>1, <2>2, WaitInv
<1>2. CASE Count[s] # 0
  <2>1. /\ Count' = [Count EXCEPT ![s] = @ - 1]
        /\ LockingAcquire({c})
        /\ users' = [users EXCEPT ![s] = @ \cup {c}]
        /\ UNCHANGED <<WaitingThreads, posts>>
    BY <1>2 DEF Down, SemaphoreDown
  <2>2. panic' = FALSE
    BY <1>0 DEF Down, CanAcquire
  <2>3. Count[s] \in Nat /\ Count[s] > 0 /\ Count'[s] = Count[s] - 1
    BY <1>2, <2>1 DEF UseTypeOK, SemaphoreTypeOK
  <2>4. \A r \in Semaphores : /\ users'[r] = IF r = s THEN users[s] \cup {c} ELSE users[r]
                              /\ r # s => Count'[r] = Count[r]
                              /\ Waiting(r)' = Waiting(r)
    BY <2>1 DEF UseTypeOK, SemaphoreTypeOK, Waiting
  <2>5. \A d \in Contexts :
           lockState'[d] = IF d = c THEN (IF Kind[c] = "THREAD" THEN "READY" ELSE "ACQUIRED")
                           ELSE lockState[d]
    BY <2>1 DEF LockingAcquire, WakeFunction
  <2>6. UseTypeOK'
    <3>1. lockState' \in [Contexts -> LockingStates]
      BY <2>1, <2>5 DEF LockingAcquire, WakeFunction, UseTypeOK, SemaphoreTypeOK, LockingStates
    <3>2. Count' \in [Semaphores -> Nat]
      BY <2>1, <2>3 DEF UseTypeOK, SemaphoreTypeOK
    <3>3. users' \in [Semaphores -> SUBSET Contexts]
      BY <2>1 DEF UseTypeOK
    <3>4. panic' \in BOOLEAN
      BY <2>2
    <3> QED
      BY <2>1, <3>1, <3>2, <3>3, <3>4 DEF UseTypeOK, SemaphoreTypeOK
  <2>7. Conservation'
    <3>1. Cardinality(users[s] \cup {c}) = Cardinality(users[s]) + 1
      BY <1>0, UsersFinite, FS_AddElement
    <3>2. Cardinality(users[s]) \in Nat
      BY UsersFinite
    <3>3. InitialCount[s] \in Nat /\ posts[s] \in Nat
      BY InitialCountAssumption DEF UseTypeOK
    <3> SUFFICES ASSUME NEW r \in Semaphores
                 PROVE  Count'[r] + Cardinality(users'[r]) = InitialCount[r] + posts'[r]
      BY DEF Conservation
    <3>4. Count[r] + Cardinality(users[r]) = InitialCount[r] + posts[r] /\ posts' = posts
      BY <2>1 DEF Conservation
    <3>5. CASE r = s
      BY <2>3, <2>4, <3>1, <3>2, <3>3, <3>4, <3>5
    <3>6. CASE r # s
      BY <2>4, <3>4, <3>6
    <3> QED
      BY <3>5, <3>6
  <2>8. NobodyWaitsInVain'
    BY <2>1, <2>3, <2>4 DEF NobodyWaitsInVain
  <2>9. WaitersBlocked'
    <3>1. \A r \in Semaphores : c \notin Waiting(r)
      BY <1>0 DEF WaitersBlocked
    <3>2. \A d \in Contexts : lockState'[d] = "BLOCKING" <=> \E r \in Semaphores : d \in Waiting(r)'
      BY <1>0, <2>4, <2>5 DEF WaitersBlocked
    <3>3. \A r, q \in Semaphores : Waiting(r)' \cap users'[q] = {}
      BY <2>4, <3>1 DEF WaitersBlocked
    <3>4. \A r, q \in Semaphores : r # q => users'[r] \cap users'[q] = {}
      BY <1>0, <2>4 DEF WaitersBlocked
    <3> QED
      BY <2>1, <2>4, <3>2, <3>3, <3>4 DEF WaitersBlocked
  <2>10. AcquiredUses'
    BY <2>4, <2>5 DEF AcquiredUses
  <2> QED
    BY <2>2, <2>6, <2>7, <2>8, <2>9, <2>10 DEF NoPanic
<1> QED
  BY <1>1, <1>2

(* Some leave a set and at most one enters it.                             *)
LEMMA SwapCardinality ==
  ASSUME NEW S, IsFiniteSet(S), NEW G \in SUBSET S, NEW T,
         T = {} \/ \E x : T = {x} /\ x \notin S
  PROVE  /\ Cardinality((S \ G) \cup T) = Cardinality(S) - Cardinality(G) + Cardinality(T)
         /\ Cardinality(S) \in Nat
         /\ Cardinality(G) \in Nat
         /\ Cardinality(T) = IF T = {} THEN 0 ELSE 1
<1>1. Cardinality(S) \in Nat
  BY FS_CardinalityType
<1>2. IsFiniteSet(G) /\ Cardinality(G) \in Nat
  BY FS_Subset, FS_CardinalityType
<1>3. S \cap G = G
  OBVIOUS
<1>4. IsFiniteSet(S \ G) /\ Cardinality(S \ G) = Cardinality(S) - Cardinality(S \cap G)
  BY FS_Difference
<1>5. Cardinality(S \ G) = Cardinality(S) - Cardinality(G)
  BY <1>3, <1>4
<1>6. CASE T = {}
  <2>1. (S \ G) \cup T = S \ G
    BY <1>6
  <2>2. Cardinality(T) = 0
    BY <1>6, FS_EmptySet
  <2> QED
    BY <1>1, <1>2, <1>5, <1>6, <2>1, <2>2
<1>7. ASSUME NEW x, T = {x}, x \notin S
      PROVE  /\ Cardinality((S \ G) \cup T) = Cardinality(S) - Cardinality(G) + Cardinality(T)
             /\ Cardinality(T) = 1
             /\ T # {}
  <2>1. Cardinality((S \ G) \cup {x}) = Cardinality(S \ G) + 1
    BY <1>4, <1>7, FS_AddElement
  <2>2. Cardinality(T) = 1
    BY <1>7, FS_Singleton
  <2> QED
    BY <1>5, <1>7, <2>1, <2>2
<1> QED
  BY <1>1, <1>2, <1>6, <1>7

(* What one leaves and another, or the count, takes over balances.         *)
LEMMA Balance ==
  ASSUME NEW n \in Nat, NEW u \in Nat, NEW i \in Nat, NEW p \in Nat,
         NEW k \in {0, 1}, NEW d \in {0, 1}, n + u = i + p
  PROVE  (n + (1 - d)) + (u - k + d) = i + (p + (1 - k))
OBVIOUS

(* An up that finds nobody waiting raises the count; one that finds        *)
(* somebody lets the front of the queue in.  gone is the caller, if it was *)
(* inside.                                                                 *)
LEMMA UpInv ==
  ASSUME UseInv, NEW s \in Semaphores, NEW gone \in SUBSET users[s], NEW k \in {0, 1},
         Cardinality(gone) = k, \A c \in gone : lockState[c] = "READY",
         SemaphoreUp(s),
         users' = [users EXCEPT ![s] = (@ \ gone) \cup Front(s)],
         posts' = [posts EXCEPT ![s] = @ + (1 - k)],
         panic' = (\E d \in Front(s) : ~ CanAcquire(d))
  PROVE  UseInv'
<1> USE DEF UseInv
<1> DEFINE q == WaitingThreads[s]
<1>0. /\ q \in Seq(Contexts) /\ Distinct(q) /\ Nodes(q) = Waiting(s)
      /\ Count[s] \in Nat /\ posts[s] \in Nat /\ InitialCount[s] \in Nat
  BY InitialCountAssumption DEF UseTypeOK, SemaphoreTypeOK, WaitersBlocked, Waiting
<1>1. \A r \in Semaphores :
         /\ users'[r] = IF r = s THEN (users[s] \ gone) \cup Front(s) ELSE users[r]
         /\ posts'[r] = IF r = s THEN posts[s] + (1 - k) ELSE posts[r]
  BY DEF UseTypeOK
<1>3. Front(s) \subseteq Waiting(s) /\ Front(s) \subseteq Contexts
  BY <1>0, FrontNode DEF Front
<1>4. \A d \in Front(s) : lockState[d] = "BLOCKING" /\ \A r \in Semaphores : d \notin users[r]
  BY <1>3 DEF WaitersBlocked
<1>5. panic' = FALSE
  BY <1>4 DEF CanAcquire
<1>6. posts' \in [Semaphores -> Nat] /\ users' \in [Semaphores -> SUBSET Contexts]
  BY <1>0, <1>3 DEF UseTypeOK
<1>2. users'[s] = (users[s] \ gone) \cup Front(s) /\ posts'[s] = posts[s] + (1 - k)
  BY <1>1
<1>7. /\ Cardinality(users'[s]) = Cardinality(users[s]) - k + Cardinality(Front(s))
      /\ Cardinality(users[s]) \in Nat
      /\ Cardinality(Front(s)) = IF Front(s) = {} THEN 0 ELSE 1
  <2>1. Front(s) = {} \/ \E x : Front(s) = {x} /\ x \notin users[s]
    BY <1>4 DEF Front
  <2>2. IsFiniteSet(users[s])
    BY UsersFinite
  <2>3. /\ Cardinality((users[s] \ gone) \cup Front(s))
              = Cardinality(users[s]) - Cardinality(gone) + Cardinality(Front(s))
        /\ Cardinality(users[s]) \in Nat
        /\ Cardinality(Front(s)) = IF Front(s) = {} THEN 0 ELSE 1
    BY <2>1, <2>2, SwapCardinality
  <2> QED
    BY <1>2, <2>3, Zenon
<1>10. ASSUME NEW d \in {0, 1}, Cardinality(Front(s)) = d, Count'[s] = Count[s] + (1 - d)
       PROVE  Count'[s] + Cardinality(users'[s]) = InitialCount[s] + posts'[s]
  <2>1. Count[s] + Cardinality(users[s]) = InitialCount[s] + posts[s]
    BY DEF Conservation
  <2>2. PICK n \in Nat, u \in Nat, i \in Nat, p \in Nat :
           n = Count[s] /\ u = Cardinality(users[s]) /\ i = InitialCount[s] /\ p = posts[s]
    BY <1>0, <1>7, Zenon
  <2>3. n + u = i + p
    BY <2>1, <2>2, Zenon
  <2>4. (n + (1 - d)) + (u - k + d) = i + (p + (1 - k))
    BY <2>3, Balance
  <2> QED
    BY <1>2, <1>7, <1>10, <2>2, <2>4, Zenon
<1>8. CASE q = <<>>
  <2>1. /\ Count' = [Count EXCEPT ![s] = @ + 1]
        /\ UNCHANGED <<lockState, WaitingThreads>>
        /\ Front(s) = {} /\ Cardinality(Front(s)) = 0
    BY <1>8, FS_EmptySet DEF SemaphoreUp, Front
  <2>2. \A r \in Semaphores : /\ Count'[r] = IF r = s THEN Count[s] + 1 ELSE Count[r]
                              /\ Waiting(r)' = Waiting(r)
                              /\ users'[r] \subseteq users[r]
    BY <1>1, <2>1 DEF UseTypeOK, SemaphoreTypeOK, Waiting
  <2>3. UseTypeOK'
    BY <1>5, <1>6, <2>1 DEF UseTypeOK, SemaphoreTypeOK
  <2>4. Conservation'
    <3> SUFFICES ASSUME NEW r \in Semaphores
                 PROVE  Count'[r] + Cardinality(users'[r]) = InitialCount[r] + posts'[r]
      BY DEF Conservation
    <3>1. Count[r] + Cardinality(users[r]) = InitialCount[r] + posts[r]
      BY DEF Conservation
    <3>2. CASE r = s
      <4>1. Count'[s] = Count[s] + (1 - 0)
        BY <1>0, <2>2
      <4> QED
        BY <1>10, <2>1, <3>2, <4>1
    <3>3. CASE r # s
      BY <1>1, <2>2, <3>1, <3>3
    <3> QED
      BY <3>2, <3>3
  <2>5. NobodyWaitsInVain'
    BY <1>8, <2>1, <2>2 DEF NobodyWaitsInVain
  <2>6. WaitersBlocked'
    BY <2>1, <2>2 DEF WaitersBlocked
  <2>7. AcquiredUses'
    BY <1>1, <2>1 DEF AcquiredUses
  <2> QED
    BY <1>5, <2>3, <2>4, <2>5, <2>6, <2>7 DEF NoPanic
<1>9. CASE q # <<>>
  <2> DEFINE h == Head(q)
  <2>1. /\ LockingAcquire({h})
        /\ WaitingThreads' = [WaitingThreads EXCEPT ![s] = Tail(q)]
        /\ UNCHANGED Count
        /\ Front(s) = {h} /\ Cardinality(Front(s)) = 1
    BY <1>9, FS_Singleton DEF SemaphoreUp, LetIn, Front
  <2>2. h \in Contexts /\ h \in Waiting(s)
    BY <1>3, <2>1
  <2>3. /\ Tail(q) \in Seq(Contexts) /\ Distinct(Tail(q))
        /\ Nodes(Tail(q)) = Waiting(s) \ {h}
    BY <1>0, <1>9, TailNodes
  <2> HIDE DEF h, q
  <2>4. \A r \in Semaphores : WaitingThreads'[r] = IF r = s THEN Tail(q) ELSE WaitingThreads[r]
    BY <2>1 DEF UseTypeOK, SemaphoreTypeOK
  <2>5. \A r \in Semaphores : Waiting(r)' = IF r = s THEN Waiting(s) \ {h} ELSE Waiting(r)
    <3> SUFFICES ASSUME NEW r \in Semaphores
                 PROVE  Waiting(r)' = IF r = s THEN Waiting(s) \ {h} ELSE Waiting(r)
      OBVIOUS
    <3>1. Waiting(r)' = Nodes(IF r = s THEN Tail(q) ELSE WaitingThreads[r])
      BY <2>4 DEF Waiting
    <3> QED
      BY <2>3, <3>1 DEF Waiting
  <2>6. \A d \in Contexts :
           lockState'[d] = IF d = h THEN (IF Kind[d] = "THREAD" THEN "READY" ELSE "ACQUIRED")
                           ELSE lockState[d]
    BY <2>1 DEF LockingAcquire, WakeFunction
  <2>7. UseTypeOK'
    <3>1. lockState' \in [Contexts -> LockingStates]
      BY <2>1, <2>6 DEF LockingAcquire, WakeFunction, UseTypeOK, SemaphoreTypeOK, LockingStates
    <3>2. WaitingThreads' \in [Semaphores -> Seq(Contexts)]
      BY <2>1, <2>3 DEF UseTypeOK, SemaphoreTypeOK
    <3>3. panic' \in BOOLEAN
      BY <1>5
    <3> QED
      BY <1>6, <2>1, <3>1, <3>2, <3>3 DEF UseTypeOK, SemaphoreTypeOK
  <2>8. Conservation'
    <3> SUFFICES ASSUME NEW r \in Semaphores
                 PROVE  Count'[r] + Cardinality(users'[r]) = InitialCount[r] + posts'[r]
      BY DEF Conservation
    <3>1. Count[r] + Cardinality(users[r]) = InitialCount[r] + posts[r] /\ Count' = Count
      BY <2>1 DEF Conservation
    <3>2. CASE r = s
      <4>1. Count'[s] = Count[s] + (1 - 1)
        BY <1>0, <2>1
      <4> QED
        BY <1>10, <2>1, <3>2, <4>1
    <3>3. CASE r # s
      BY <1>1, <3>1, <3>3
    <3> QED
      BY <3>2, <3>3
  <2>9. NobodyWaitsInVain'
    <3>1. Count[s] = 0
      BY <1>0, <1>9 DEF NobodyWaitsInVain, q
    <3> QED
      BY <2>1, <2>4, <3>1 DEF NobodyWaitsInVain
  <2>10. WaitersBlocked'
    <3>1. \A d \in Contexts : lockState[d] = "BLOCKING" <=> \E r \in Semaphores : d \in Waiting(r)
      BY DEF WaitersBlocked
    <3>2. \A r \in Semaphores : r # s => h \notin Waiting(r)
      BY <2>2 DEF WaitersBlocked
    <3>3. \A d \in Contexts : lockState'[d] = "BLOCKING" <=> \E r \in Semaphores : d \in Waiting(r)'
      <4>1. \A d \in Contexts : (\E r \in Semaphores : d \in Waiting(r)')
                                   <=> d # h /\ \E r \in Semaphores : d \in Waiting(r)
        BY <2>5, <3>2
      <4> QED
        BY <2>6, <3>1, <4>1
    <3>4. \A r \in Semaphores : Distinct(WaitingThreads'[r])
      BY <2>3, <2>4 DEF WaitersBlocked
    <3>5. \A r, p \in Semaphores : r # p => Waiting(r)' \cap Waiting(p)' = {}
      BY <2>5 DEF WaitersBlocked
    <3>6. \A r, p \in Semaphores : Waiting(r)' \cap users'[p] = {}
      BY <1>1, <2>1, <2>5, <3>2 DEF WaitersBlocked
    <3>7. \A r, p \in Semaphores : r # p => users'[r] \cap users'[p] = {}
      BY <1>1, <1>4 DEF WaitersBlocked
    <3> QED
      BY <3>3, <3>4, <3>5, <3>6, <3>7 DEF WaitersBlocked
  <2>11. AcquiredUses'
    <3> SUFFICES ASSUME NEW d \in Contexts, lockState'[d] = "ACQUIRED"
                 PROVE  \E r \in Semaphores : d \in users'[r]
      BY DEF AcquiredUses
    <3>1. CASE d = h
      BY <1>1, <2>1, <3>1
    <3>2. CASE d # h
      <4>1. lockState[d] = "ACQUIRED"
        BY <2>6, <3>2
      <4>2. PICK r \in Semaphores : d \in users[r] \ gone
        BY <4>1 DEF AcquiredUses
      <4> QED
        BY <1>1, <4>2
    <3> QED
      BY <3>1, <3>2
  <2> QED
    BY <1>5, <2>7, <2>8, <2>9, <2>10, <2>11 DEF NoPanic
<1> QED
  BY <1>8, <1>9

(* The front of the queue is who stops waiting.                            *)
LEMMA WokenIsFront ==
  ASSUME UseInv, NEW s \in Semaphores, SemaphoreUp(s)
  PROVE  Woken = Front(s)
<1> DEFINE q == WaitingThreads[s]
<1>1. CASE q = <<>>
  BY <1>1 DEF SemaphoreUp, Front, Woken
<1>2. CASE q # <<>>
  <2>1. q \in Seq(Contexts)
    BY DEF UseInv, UseTypeOK, SemaphoreTypeOK
  <2>2. Head(q) \in Contexts /\ Head(q) \in Waiting(s)
    BY <1>2, <2>1, FrontNode DEF Waiting
  <2>3. lockState[Head(q)] = "BLOCKING"
    BY <2>2 DEF UseInv, WaitersBlocked
  <2>4. LockingAcquire({Head(q)}) /\ Front(s) = {Head(q)}
    BY <1>2 DEF SemaphoreUp, LetIn, Front
  <2> QED
    BY <2>2, <2>3, <2>4 DEF Woken, LockingAcquire, WakeFunction
<1> QED
  BY <1>1, <1>2

(* Every step keeps the invariant.                                         *)
LEMMA NextUseInv == UseInv /\ [UseNext]_useVars => UseInv'
<1> SUFFICES ASSUME UseInv, [UseNext]_useVars
             PROVE  UseInv'
  OBVIOUS
<1>1. ASSUME NEW s \in Semaphores, NEW c \in Contexts, Up(s, c)
      PROVE  UseInv'
  <2>1. /\ {c} \in SUBSET users[s] /\ Cardinality({c}) = 1
        /\ \A d \in {c} : lockState[d] = "READY"
    BY <1>1, FS_Singleton DEF Up, LockingIsFree
  <2>2. posts' = [posts EXCEPT ![s] = @ + (1 - 1)]
    BY <1>1 DEF Up, UseInv, UseTypeOK
  <2>3. /\ SemaphoreUp(s)
        /\ users' = [users EXCEPT ![s] = (@ \ {c}) \cup Front(s)]
        /\ panic' = (\E d \in Front(s) : ~ CanAcquire(d))
    BY <1>1, WokenIsFront DEF Up, Raise
  <2> QED
    BY <2>1, <2>2, <2>3, UpInv
<1>2. ASSUME NEW s \in Semaphores, Post(s)
      PROVE  UseInv'
  <2>1. {} \in SUBSET users[s] /\ Cardinality({}) = 0
    BY FS_EmptySet
  <2>2. posts' = [posts EXCEPT ![s] = @ + (1 - 0)]
    BY <1>2 DEF Post, UseInv, UseTypeOK
  <2>3. /\ SemaphoreUp(s)
        /\ users' = [users EXCEPT ![s] = (@ \ {}) \cup Front(s)]
        /\ panic' = (\E d \in Front(s) : ~ CanAcquire(d))
    BY <1>2, WokenIsFront DEF Post, Raise
  <2> QED
    BY <2>1, <2>2, <2>3, UpInv
<1>3. ASSUME NEW c \in Contexts, PollAcquired(c)
      PROVE  UseInv'
  <2> USE <1>3 DEF UseInv, PollAcquired, LockingIsAcquired
  <2>1. UseTypeOK'
    BY DEF UseTypeOK, SemaphoreTypeOK, LockingStates
  <2>2. Conservation' /\ NobodyWaitsInVain' /\ NoPanic'
    BY DEF Conservation, NobodyWaitsInVain, NoPanic
  <2>3. WaitersBlocked'
    BY DEF WaitersBlocked, Waiting, UseTypeOK, SemaphoreTypeOK
  <2>4. AcquiredUses'
    BY DEF AcquiredUses, UseTypeOK, SemaphoreTypeOK
  <2> QED
    BY <2>1, <2>2, <2>3, <2>4
<1>4. CASE UNCHANGED useVars
  BY <1>4 DEF useVars, semaphoreVars, UseInv, UseTypeOK, SemaphoreTypeOK, NoPanic, Conservation,
              NobodyWaitsInVain, WaitersBlocked, Waiting, AcquiredUses
<1> QED
  BY <1>1, <1>2, <1>3, <1>4, DownInv DEF UseNext

(* No assertion fails, nobody waits while there is something to take, and  *)
(* the count, the contexts inside and the posts always add up.             *)
THEOREM SemaphoreSafe == UseSpec => []UseInv
BY InitUseInv, NextUseInv, PTL DEF UseSpec

(* A semaphore admits exactly what it was given.                           *)
THEOREM SemaphoreConservation == UseSpec => []Conservation
<1>1. UseInv => Conservation
  BY DEF UseInv
<1> QED
  BY <1>1, SemaphoreSafe, PTL

(* Nobody waits while there is something to take, and a context is blocked *)
(* exactly while it is in the one queue an up will take it from.           *)
THEOREM SemaphoreNoLostWakeup == UseSpec => [](NobodyWaitsInVain /\ WaitersBlocked /\ NoPanic)
<1>1. UseInv => NobodyWaitsInVain /\ WaitersBlocked /\ NoPanic
  BY DEF UseInv
<1> QED
  BY <1>1, SemaphoreSafe, PTL

(* c is in the queue, and not behind d.                                    *)
NotBehind(c, d, q) == \E i, j \in 1..Len(q) : i <= j /\ q[i] = c /\ q[j] = d

(* The queue of a semaphore holds those in its line, in that order.        *)
LineInv ==
  /\ line \in [Semaphores -> SUBSET (Contexts \X Contexts)]
  /\ \A s \in Semaphores, c, d \in Contexts :
        <<c, d>> \in line[s] <=> NotBehind(c, d, WaitingThreads[s])

(* Nobody is behind itself, and who is in a queue is not behind it.        *)
LEMMA NotBehindItself ==
  ASSUME NEW S, NEW q \in Seq(S), NEW c
  PROVE  NotBehind(c, c, q) <=> c \in Nodes(q)
<1>1. Len(q) \in Nat
  BY LenProperties
<1>2. ASSUME c \in Nodes(q) PROVE NotBehind(c, c, q)
  <2>1. PICK i \in 1..Len(q) : q[i] = c
    BY <1>2 DEF Nodes
  <2> QED
    BY <1>1, <2>1 DEF NotBehind
<1> QED
  BY <1>2 DEF NotBehind, Nodes

(* Who joins a queue is behind everybody.                                  *)
LEMMA BehindAll ==
  ASSUME NEW S, NEW q \in Seq(S), NEW e \in S, e \notin Nodes(q), NEW c, NEW d
  PROVE  NotBehind(c, d, Append(q, e))
           <=> NotBehind(c, d, q) \/ (d = e /\ c \in Nodes(q) \cup {e})
<1>1. /\ Len(Append(q, e)) = Len(q) + 1
      /\ \A i \in 1..Len(q) : Append(q, e)[i] = q[i]
      /\ Append(q, e)[Len(q) + 1] = e
  BY AppendProperties
<1>2. Len(q) \in Nat
  BY LenProperties
<1>3. ASSUME NotBehind(c, d, Append(q, e))
      PROVE  NotBehind(c, d, q) \/ (d = e /\ c \in Nodes(q) \cup {e})
  <2>1. PICK i, j \in 1..(Len(q) + 1) : i <= j /\ Append(q, e)[i] = c /\ Append(q, e)[j] = d
    BY <1>1, <1>3 DEF NotBehind
  <2>2. CASE j \in 1..Len(q)
    <3>1. i \in 1..Len(q)
      BY <1>2, <2>1, <2>2
    <3> QED
      BY <1>1, <2>1, <2>2, <3>1 DEF NotBehind
  <2>3. CASE j = Len(q) + 1
    <3>1. i \in 1..Len(q) \/ i = Len(q) + 1
      BY <1>2, <2>1
    <3> QED
      BY <1>1, <2>1, <2>3, <3>1 DEF Nodes
  <2> QED
    BY <1>2, <2>1, <2>2, <2>3
<1>4. ASSUME NotBehind(c, d, q)
      PROVE  NotBehind(c, d, Append(q, e))
  <2>1. PICK i, j \in 1..Len(q) : i <= j /\ q[i] = c /\ q[j] = d
    BY <1>4 DEF NotBehind
  <2>2. i \in 1..(Len(q) + 1) /\ j \in 1..(Len(q) + 1)
    BY <1>2
  <2> QED
    BY <1>1, <2>1, <2>2 DEF NotBehind
<1>5. ASSUME d = e, c \in Nodes(q) \cup {e}
      PROVE  NotBehind(c, d, Append(q, e))
  <2>1. PICK i \in 1..(Len(q) + 1) : Append(q, e)[i] = c
    <3>1. CASE c = e
      BY <1>1, <1>2, <3>1
    <3>2. CASE c \in Nodes(q)
      <4>1. PICK i \in 1..Len(q) : q[i] = c
        BY <3>2 DEF Nodes
      <4>2. i \in 1..(Len(q) + 1)
        BY <1>2
      <4> QED
        BY <1>1, <4>1, <4>2
    <3> QED
      BY <1>5, <3>1, <3>2
  <2>2. Len(q) + 1 \in 1..(Len(q) + 1) /\ i <= Len(q) + 1
    BY <1>2
  <2> QED
    BY <1>1, <1>5, <2>1, <2>2 DEF NotBehind
<1> QED
  BY <1>3, <1>4, <1>5

(* When the front of a queue leaves, the others keep their order.          *)
LEMMA OthersKeepOrder ==
  ASSUME NEW S, NEW q \in Seq(S), Distinct(q), q # <<>>, NEW c, NEW d
  PROVE  /\ NotBehind(c, d, Tail(q)) <=> NotBehind(c, d, q) /\ c # Head(q) /\ d # Head(q)
         /\ c \in Nodes(q) => NotBehind(Head(q), c, q)
<1>1. Len(q) \in Nat /\ Len(q) >= 1 /\ Head(q) = q[1]
  BY FrontNode
<1>2. Len(Tail(q)) = Len(q) - 1 /\ \A i \in 1..Len(Tail(q)) : Tail(q)[i] = q[i + 1]
  BY HeadTailProperties
<1>3. ASSUME NotBehind(c, d, Tail(q))
      PROVE  NotBehind(c, d, q) /\ c # Head(q) /\ d # Head(q)
  <2>1. PICK i, j \in 1..Len(Tail(q)) : i <= j /\ Tail(q)[i] = c /\ Tail(q)[j] = d
    BY <1>3 DEF NotBehind
  <2>2. i + 1 \in 2..Len(q) /\ j + 1 \in 2..Len(q) /\ i + 1 <= j + 1
    BY <1>1, <1>2, <2>1
  <2>3. q[i + 1] = c /\ q[j + 1] = d
    BY <1>2, <2>1
  <2>4. c # q[1] /\ d # q[1]
    BY <1>1, <2>2, <2>3 DEF Distinct
  <2>5. NotBehind(c, d, q)
    BY <1>1, <2>2, <2>3 DEF NotBehind
  <2> QED
    BY <1>1, <2>4, <2>5
<1>4. ASSUME NotBehind(c, d, q), c # Head(q), d # Head(q)
      PROVE  NotBehind(c, d, Tail(q))
  <2>1. PICK i, j \in 1..Len(q) : i <= j /\ q[i] = c /\ q[j] = d
    BY <1>4 DEF NotBehind
  <2>2. i # 1 /\ j # 1
    BY <1>1, <1>4, <2>1
  <2>3. i - 1 \in 1..Len(Tail(q)) /\ j - 1 \in 1..Len(Tail(q)) /\ i - 1 <= j - 1
    BY <1>1, <1>2, <2>1, <2>2
  <2>4. (i - 1) + 1 = i /\ (j - 1) + 1 = j
    OBVIOUS
  <2>5. Tail(q)[i - 1] = c /\ Tail(q)[j - 1] = d
    BY <1>2, <2>1, <2>3, <2>4
  <2> QED
    BY <2>3, <2>5 DEF NotBehind
<1>5. ASSUME c \in Nodes(q)
      PROVE  NotBehind(Head(q), c, q)
  <2>1. PICK i \in 1..Len(q) : q[i] = c
    BY <1>5 DEF Nodes
  <2>2. 1 \in 1..Len(q) /\ 1 <= i
    BY <1>1
  <2> QED
    BY <1>1, <2>1, <2>2 DEF NotBehind
<1> QED
  BY <1>3, <1>4, <1>5

(* At first nobody waits.                                                  *)
LEMMA InitLineInv == UseInit => LineInv
<1> SUFFICES ASSUME UseInit
             PROVE  LineInv
  OBVIOUS
<1>1. \A s \in Semaphores : line[s] = {} /\ WaitingThreads[s] = <<>>
  BY DEF UseInit, SemaphoreInit
<1>2. line \in [Semaphores -> SUBSET (Contexts \X Contexts)]
  BY DEF UseInit
<1>3. \A c, d : ~ NotBehind(c, d, <<>>)
  BY DEF NotBehind
<1> QED
  BY <1>1, <1>2, <1>3 DEF LineInv

(* Who goes down joins the queue behind everybody, or meets nobody there.  *)
LEMMA DownLine ==
  ASSUME UseInv, LineInv, NEW s \in Semaphores, NEW e \in Contexts, Down(s, e)
  PROVE  /\ LineInv'
         /\ \A r \in Semaphores : \A c \in users'[r] \ users[r], d \in InLine(r) \ users'[r] :
               <<c, d>> \in line[r]
<1>0. /\ WaitingThreads \in [Semaphores -> Seq(Contexts)]
      /\ users \in [Semaphores -> SUBSET Contexts]
      /\ line \in [Semaphores -> SUBSET (Contexts \X Contexts)]
      /\ Count[s] \in Nat
  BY DEF UseInv, UseTypeOK, SemaphoreTypeOK, LineInv
<1>1. CASE Count[s] = 0
  <2>1. /\ users' = users
        /\ WaitingThreads' = [WaitingThreads EXCEPT ![s] = Append(@, e)]
        /\ line' = [line EXCEPT ![s] = @ \cup ((InLine(s) \cup {e}) \X {e})]
    BY <1>1 DEF Down, SemaphoreDown, WaitFor
  <2>2. e \notin Nodes(WaitingThreads[s])
    <3>1. lockState[e] = "READY"
      BY DEF Down, LockingIsFree
    <3> QED
      BY <3>1 DEF UseInv, WaitersBlocked, Waiting
  <2>3. \A c \in Contexts : c \in InLine(s) <=> c \in Nodes(WaitingThreads[s])
    BY <1>0, NotBehindItself DEF LineInv, InLine
  <2>4. line' \in [Semaphores -> SUBSET (Contexts \X Contexts)]
    BY <1>0, <2>1 DEF InLine
  <2>5. ASSUME NEW r \in Semaphores, NEW c \in Contexts, NEW d \in Contexts
        PROVE  <<c, d>> \in line'[r] <=> NotBehind(c, d, WaitingThreads'[r])
    <3>1. <<c, d>> \in line[r] <=> NotBehind(c, d, WaitingThreads[r])
      BY DEF LineInv
    <3>2. CASE r = s
      <4>1. WaitingThreads'[s] = Append(WaitingThreads[s], e)
        BY <1>0, <2>1
      <4>2. <<c, d>> \in line'[s] <=> <<c, d>> \in line[s] \/ (d = e /\ c \in InLine(s) \cup {e})
        BY <1>0, <2>1
      <4>3. NotBehind(c, d, Append(WaitingThreads[s], e))
              <=> NotBehind(c, d, WaitingThreads[s]) \/ (d = e /\ c \in Nodes(WaitingThreads[s]) \cup {e})
        BY <1>0, <2>2, BehindAll
      <4> QED
        BY <2>3, <3>1, <3>2, <4>1, <4>2, <4>3
    <3>3. CASE r # s
      BY <1>0, <2>1, <3>1, <3>3
    <3> QED
      BY <3>2, <3>3
  <2> QED
    BY <2>1, <2>4, <2>5 DEF LineInv
<1>2. CASE Count[s] # 0
  <2>1. /\ users' = [users EXCEPT ![s] = @ \cup {e}]
        /\ WaitingThreads' = WaitingThreads
        /\ line' = line
    BY <1>2 DEF Down, SemaphoreDown
  <2>2. LineInv'
    BY <2>1 DEF LineInv
  <2>3. WaitingThreads[s] = <<>>
    BY <1>0, <1>2 DEF UseInv, NobodyWaitsInVain
  <2>4. \A c : ~ NotBehind(c, c, <<>>)
    BY DEF NotBehind
  <2>5. InLine(s) = {}
    BY <2>3, <2>4 DEF InLine, LineInv
  <2>6. \A r \in Semaphores : r # s => users'[r] = users[r]
    BY <1>0, <2>1
  <2> QED
    BY <2>2, <2>5, <2>6
<1> QED
  BY <1>1, <1>2

(* An up lets in the first in line.                                        *)
LEMMA RaiseLine ==
  ASSUME UseInv, LineInv, NEW s \in Semaphores, NEW gone \in SUBSET Contexts, Raise(s, gone)
  PROVE  /\ LineInv'
         /\ \A r \in Semaphores : \A c \in users'[r] \ users[r], d \in InLine(r) \ users'[r] :
               <<c, d>> \in line[r]
<1> DEFINE q == WaitingThreads[s]
<1>0. /\ WaitingThreads \in [Semaphores -> Seq(Contexts)]
      /\ users \in [Semaphores -> SUBSET Contexts]
      /\ line \in [Semaphores -> SUBSET (Contexts \X Contexts)]
      /\ q \in Seq(Contexts) /\ Distinct(q)
  BY DEF UseInv, UseTypeOK, SemaphoreTypeOK, LineInv, WaitersBlocked
<1>1. Woken = Front(s) /\ SemaphoreUp(s)
  BY WokenIsFront DEF Raise
<1>2. /\ users' = [users EXCEPT ![s] = (@ \ gone) \cup Front(s)]
      /\ line' = [line EXCEPT ![s] = @ \ {p \in @ : p[1] \in Front(s) \/ p[2] \in Front(s)}]
  BY <1>1 DEF Raise
<1>3. \A c, d \in Contexts :
         <<c, d>> \in line'[s] <=> <<c, d>> \in line[s] /\ c \notin Front(s) /\ d \notin Front(s)
  BY <1>0, <1>2
<1>4. line' \in [Semaphores -> SUBSET (Contexts \X Contexts)]
  BY <1>0, <1>2
<1>5. \A r \in Semaphores : r # s => line'[r] = line[r] /\ users'[r] = users[r]
  BY <1>0, <1>2
<1>6. users'[s] = (users[s] \ gone) \cup Front(s)
  BY <1>0, <1>2
<1>7. CASE q = <<>>
  <2>1. WaitingThreads' = WaitingThreads /\ Front(s) = {}
    BY <1>1, <1>7 DEF SemaphoreUp, Front
  <2>2. LineInv'
    BY <1>3, <1>4, <1>5, <2>1 DEF LineInv
  <2> QED
    BY <1>5, <1>6, <2>1, <2>2
<1>8. CASE q # <<>>
  <2>1. WaitingThreads' = [WaitingThreads EXCEPT ![s] = Tail(q)] /\ Front(s) = {Head(q)}
    BY <1>1, <1>8 DEF SemaphoreUp, LetIn, Front
  <2>2. ASSUME NEW r \in Semaphores, NEW c \in Contexts, NEW d \in Contexts
        PROVE  <<c, d>> \in line'[r] <=> NotBehind(c, d, WaitingThreads'[r])
    <3>1. <<c, d>> \in line[r] <=> NotBehind(c, d, WaitingThreads[r])
      BY DEF LineInv
    <3>2. CASE r = s
      <4>1. WaitingThreads'[s] = Tail(q)
        BY <1>0, <2>1
      <4>2. NotBehind(c, d, Tail(q)) <=> NotBehind(c, d, q) /\ c # Head(q) /\ d # Head(q)
        BY <1>0, <1>8, OthersKeepOrder
      <4> QED
        BY <1>3, <2>1, <3>1, <3>2, <4>1, <4>2
    <3>3. CASE r # s
      BY <1>0, <1>5, <2>1, <3>1, <3>3
    <3> QED
      BY <3>2, <3>3
  <2>3. ASSUME NEW c \in users'[s] \ users[s], NEW d \in InLine(s) \ users'[s]
        PROVE  <<c, d>> \in line[s]
    <3>1. c = Head(q) /\ d \in Contexts /\ <<d, d>> \in line[s]
      BY <1>6, <2>1, <2>3 DEF InLine
    <3>2. c \in Contexts
      BY <1>0, <1>8, <3>1, FrontNode
    <3>3. d \in Nodes(q)
      BY <1>0, <3>1, NotBehindItself DEF LineInv
    <3>4. NotBehind(c, d, q)
      BY <1>0, <1>8, <3>1, <3>3, OthersKeepOrder
    <3> QED
      BY <3>1, <3>2, <3>4 DEF LineInv
  <2>4. LineInv'
    BY <1>4, <2>2 DEF LineInv
  <2> QED
    BY <1>5, <2>3, <2>4
<1> QED
  BY <1>7, <1>8

(* Every step keeps the queues in the order of the lines, and lets nobody  *)
(* overtake.                                                               *)
LEMMA NextLine ==
  ASSUME UseInv, LineInv, [UseNext]_useVars
  PROVE  /\ LineInv'
         /\ \A r \in Semaphores : \A c \in users'[r] \ users[r], d \in InLine(r) \ users'[r] :
               <<c, d>> \in line[r]
<1>1. ASSUME UNCHANGED <<users, WaitingThreads, line>>
      PROVE  /\ LineInv'
             /\ \A r \in Semaphores : \A c \in users'[r] \ users[r], d \in InLine(r) \ users'[r] :
                   <<c, d>> \in line[r]
  BY <1>1 DEF LineInv
<1>2. ASSUME NEW s \in Semaphores, NEW c \in Contexts, Up(s, c)
      PROVE  \E r \in Semaphores, gone \in SUBSET Contexts : Raise(r, gone)
  BY <1>2 DEF Up
<1>3. ASSUME NEW s \in Semaphores, Post(s)
      PROVE  \E r \in Semaphores, gone \in SUBSET Contexts : Raise(r, gone)
  BY <1>3 DEF Post
<1>4. ASSUME UNCHANGED useVars \/ \E c \in Contexts : PollAcquired(c)
      PROVE  UNCHANGED <<users, WaitingThreads, line>>
  BY <1>4 DEF useVars, semaphoreVars, PollAcquired
<1>5. \/ UNCHANGED <<users, WaitingThreads, line>>
      \/ \E r \in Semaphores, gone \in SUBSET Contexts : Raise(r, gone)
      \/ \E r \in Semaphores, c \in Contexts : Down(r, c)
  BY <1>2, <1>3, <1>4 DEF UseNext
<1> QED
  BY <1>1, <1>5, DownLine, RaiseLine

(* "Threads will be unblocked in the order in which they were blocked":    *)
(* on every semaphore, whoever gets in came before everybody who keeps     *)
(* waiting.                                                                *)
THEOREM SemaphoreInOrder == UseSpec => InOrder
<1>1. UseInv /\ LineInv /\ [UseNext]_useVars
        => [\A s \in Semaphores : \A c \in users'[s] \ users[s], d \in InLine(s) \ users'[s] :
               <<c, d>> \in line[s]]_useVars
  BY NextLine
<1>2. UseInv /\ LineInv /\ [UseNext]_useVars => LineInv'
  BY NextLine
<1> QED
  BY <1>1, <1>2, InitLineInv, SemaphoreSafe, PTL DEF UseSpec, InOrder

-----------------------------------------------------------------------------

MeetTypes ==
  /\ lockState \in [Contexts -> LockingStates]
  /\ SignalState \in BOOLEAN
  /\ BarrierList \in Seq(Contexts) /\ Distinct(BarrierList)
  /\ SignalWaiting \in Seq(Contexts) /\ Distinct(SignalWaiting)
  /\ meeting \in [Contexts -> {"start", "signal", "ready", "barrier"}]
  /\ arrived \in [Contexts -> Nat]
  /\ passed \in [Contexts -> Nat]

(* A context is in the list of what it waits for, or in none; it is        *)
(* blocked there, and READY between its calls.                             *)
InLists ==
  /\ \A c \in Nodes(BarrierList) : meeting[c] = "barrier"
  /\ \A c \in Nodes(SignalWaiting) : meeting[c] = "signal"
  /\ \A c \in Contexts :
       /\ lockState[c] = "BLOCKING" <=> c \in Nodes(BarrierList) \cup Nodes(SignalWaiting)
       /\ meeting[c] \in {"start", "ready"} => lockState[c] = "READY"

(* Everybody has called BarrierSync r times, those who wait once more.     *)
Round(r) == \A c \in Contexts : arrived[c] = IF c \in Nodes(BarrierList) THEN r + 1 ELSE r

(* A context goes on once for each call.                                   *)
InStep ==
  /\ \E r \in Nat : Round(r)
  /\ \A c \in Contexts : arrived[c] = IF meeting[c] = "barrier" THEN passed[c] + 1 ELSE passed[c]

Counted ==
  /\ Present = Len(BarrierList)
  /\ SignalState => SignalWaiting = <<>>
  /\ stopped = FALSE

RendezvousInv == MeetTypes /\ InLists /\ InStep /\ Counted

(* Two queues without a common node, one after the other.                  *)
LEMMA ConcatNodes ==
  ASSUME NEW S, NEW p \in Seq(S), NEW q \in Seq(S), Distinct(p), Distinct(q),
         Nodes(p) \cap Nodes(q) = {}
  PROVE  Nodes(p \o q) = Nodes(p) \cup Nodes(q) /\ Distinct(p \o q)
<1>1. /\ Len(p) \in Nat /\ Len(q) \in Nat
      /\ Len(p \o q) = Len(p) + Len(q)
      /\ \A i \in 1 .. Len(p) + Len(q) :
            (p \o q)[i] = IF i <= Len(p) THEN p[i] ELSE q[i - Len(p)]
  BY ConcatProperties, LenProperties
<1> DEFINE r == p \o q
<1>2. \A i \in 1 .. Len(p) : i \in 1 .. Len(r) /\ r[i] = p[i]
  BY <1>1
<1>3. \A i \in 1 .. Len(q) : i + Len(p) \in 1 .. Len(r) /\ r[i + Len(p)] = q[i]
  <2> SUFFICES ASSUME NEW i \in 1 .. Len(q)
               PROVE  i + Len(p) \in 1 .. Len(r) /\ r[i + Len(p)] = q[i]
    OBVIOUS
  <2>1. i + Len(p) \in 1 .. Len(p) + Len(q) /\ ~ (i + Len(p) <= Len(p)) /\ (i + Len(p)) - Len(p) = i
    BY <1>1
  <2> QED
    BY <1>1, <2>1
<1>4. \A i \in 1 .. Len(r) : \/ i \in 1 .. Len(p) /\ r[i] = p[i]
                             \/ i - Len(p) \in 1 .. Len(q) /\ r[i] = q[i - Len(p)]
  BY <1>1
<1> HIDE DEF r
<1>5. Nodes(r) = Nodes(p) \cup Nodes(q)
  <2>1. Nodes(p) \subseteq Nodes(r)
    BY <1>2 DEF Nodes
  <2>2. Nodes(q) \subseteq Nodes(r)
    BY <1>3 DEF Nodes
  <2>3. ASSUME NEW x \in Nodes(r)
        PROVE  x \in Nodes(p) \cup Nodes(q)
    <3>1. PICK i \in 1 .. Len(r) : x = r[i]
      BY <2>3 DEF Nodes
    <3> QED
      BY <3>1, <1>4 DEF Nodes
  <2> QED
    BY <2>1, <2>2, <2>3
<1>6. Distinct(r)
  <2> SUFFICES ASSUME NEW i \in 1 .. Len(r), NEW j \in 1 .. Len(r), r[i] = r[j]
               PROVE  i = j
    BY DEF Distinct
  <2>0. Len(r) \in Nat
    BY <1>1 DEF r
  <2>1. CASE i \in 1 .. Len(p) /\ r[i] = p[i] /\ j \in 1 .. Len(p) /\ r[j] = p[j]
    BY <2>1 DEF Distinct
  <2>2. CASE /\ i - Len(p) \in 1 .. Len(q) /\ r[i] = q[i - Len(p)]
             /\ j - Len(p) \in 1 .. Len(q) /\ r[j] = q[j - Len(p)]
    <3>1. i - Len(p) = j - Len(p)
      BY <2>2 DEF Distinct
    <3> QED
      BY <3>1, <2>0, <1>1
  <2>3. \A k, l : ~ (/\ k \in 1 .. Len(p) /\ l - Len(p) \in 1 .. Len(q)
                     /\ p[k] = q[l - Len(p)])
    BY DEF Nodes
  <2> QED
    BY <1>4, <2>1, <2>2, <2>3
<1> QED
  BY <1>5, <1>6 DEF r

(* RendezvousInv has MeetInv.                                              *)
LEMMA RendezvousInvMeet == RendezvousInv => MeetInv
<1> SUFFICES ASSUME RendezvousInv PROVE MeetInv
  OBVIOUS
<1> USE DEF RendezvousInv
<1>1. Nodes(BarrierList) \cap Nodes(SignalWaiting) = {}
  BY DEF InLists
<1>2. /\ Nodes(BarrierList \o SignalWaiting) = Nodes(BarrierList) \cup Nodes(SignalWaiting)
      /\ Distinct(BarrierList \o SignalWaiting)
  BY <1>1, ConcatNodes DEF MeetTypes
<1>3. \A c, d \in Contexts : passed[c] <= arrived[d]
  <2>1. PICK r \in Nat : Round(r)
    BY DEF InStep
  <2> SUFFICES ASSUME NEW c \in Contexts, NEW d \in Contexts
               PROVE  passed[c] <= arrived[d]
    OBVIOUS
  <2>2. passed[c] \in Nat /\ arrived[d] \in Nat /\ arrived[c] \in Nat
    BY DEF MeetTypes
  <2>3. passed[c] <= r
    BY <2>1, <2>2 DEF Round, InStep, InLists
  <2>4. r <= arrived[d]
    BY <2>1, <2>2 DEF Round
  <2> QED
    BY <2>2, <2>3, <2>4
<1> QED
  BY <1>2, <1>3 DEF MeetInv, InLists, Counted

(* Nobody has called anything yet.                                         *)
LEMMA RendezvousInvInit == MeetInit => RendezvousInv
<1> SUFFICES ASSUME MeetInit PROVE RendezvousInv
  OBVIOUS
<1> USE DEF MeetInit, LockingInit, BarrierInit, SignalInit
<1>1. /\ BarrierList \in Seq(Contexts) /\ Len(BarrierList) = 0
      /\ SignalWaiting \in Seq(Contexts) /\ Len(SignalWaiting) = 0
  OBVIOUS
<1>2. /\ Nodes(BarrierList) = {} /\ Nodes(SignalWaiting) = {}
      /\ Distinct(BarrierList) /\ Distinct(SignalWaiting)
  BY <1>1 DEF Nodes, Distinct
<1>3. SignalState \in BOOLEAN
  OBVIOUS
<1>4. MeetTypes
  BY <1>1, <1>2, <1>3 DEF MeetTypes, LockingStates
<1>5. InLists
  BY <1>2 DEF InLists
<1>6. Round(0)
  BY <1>2 DEF Round
<1>7. InStep
  BY <1>6 DEF InStep
<1>8. Counted
  BY <1>1 DEF Counted
<1> QED
  BY <1>4, <1>5, <1>7, <1>8 DEF RendezvousInv

(* The state a wake function leaves is READY or ACQUIRED.                  *)
LEMMA WakeStates ==
  ASSUME NEW c
  PROVE  WakeFunction(c) \in LockingStates /\ WakeFunction(c) # "BLOCKING"
  BY DEF WakeFunction, LockingStates

(* A context that comes to a signal goes through or joins the queue.       *)
LEMMA WaitForSignalInv ==
  ASSUME RendezvousInv, NEW c \in Contexts, Wait(c)
  PROVE  RendezvousInv'
<1> USE DEF RendezvousInv
<1>1. /\ meeting[c] = "start" /\ meeting' = [meeting EXCEPT ![c] = "signal"]
      /\ UNCHANGED <<Present, BarrierList, arrived, passed>>
  BY DEF Wait, Goes, barrierVars
<1>2. lockState[c] = "READY"
  BY <1>1 DEF InLists
<1>3. c \notin Nodes(BarrierList) /\ c \notin Nodes(SignalWaiting)
  BY <1>1 DEF InLists
<1>4. InStep'
  BY <1>1 DEF InStep, Round, MeetTypes
<1>5. meeting' \in [Contexts -> {"start", "signal", "ready", "barrier"}]
  BY <1>1 DEF MeetTypes
<1>6. CASE SignalState
  <2>1. /\ lockState' = [d \in Contexts |-> IF d \in {c} THEN WakeFunction(d) ELSE lockState[d]]
        /\ UNCHANGED <<SignalState, SignalWaiting>>
    BY <1>6 DEF Wait, SignalWaitForSignal, LockingAcquire, signalVars
  <2>2. stopped' = FALSE
    BY <1>2, <1>6 DEF Wait, Acquires, CanAcquire, Counted
  <2>3. MeetTypes'
    BY <1>1, <1>5, <2>1, WakeStates DEF MeetTypes
  <2>4. InLists'
    BY <1>1, <1>3, <2>1, WakeStates DEF MeetTypes, InLists
  <2> QED
    BY <1>1, <1>4, <2>1, <2>2, <2>3, <2>4 DEF Counted
<1>7. CASE ~ SignalState
  <2>1. /\ lockState' = [lockState EXCEPT ![c] = "BLOCKING"]
        /\ SignalWaiting' = Append(SignalWaiting, c) /\ SignalState' = SignalState
    BY <1>3, <1>7 DEF Wait, SignalWaitForSignal, LockingBlock, LinkedListEnqueue
  <2>2. stopped' = FALSE
    BY <1>7 DEF Wait, Acquires, Counted
  <2>3. /\ SignalWaiting' \in Seq(Contexts) /\ Distinct(SignalWaiting')
        /\ Nodes(SignalWaiting') = Nodes(SignalWaiting) \cup {c}
    BY <1>3, <2>1, AppendNode DEF MeetTypes
  <2>4. MeetTypes'
    BY <1>1, <1>5, <2>1, <2>3 DEF MeetTypes, LockingStates
  <2>5. Nodes(SignalWaiting) \subseteq Contexts /\ Nodes(BarrierList) \subseteq Contexts
    BY FrontNode DEF MeetTypes
  <2>6. InLists'
    BY <1>1, <1>3, <2>1, <2>3, <2>5 DEF MeetTypes, InLists
  <2> QED
    BY <1>1, <1>4, <1>7, <2>1, <2>2, <2>4, <2>6 DEF Counted
<1> QED
  BY <1>6, <1>7

(* When all but one wait at the barrier, those who wait and the one that   *)
(* comes are everybody.                                                    *)
LEMMA LastToCome ==
  ASSUME Needed = Cardinality(Contexts), MeetTypes, Counted, EverybodyHere,
         NEW c \in Contexts, c \notin Nodes(BarrierList)
  PROVE  {c} \cup Nodes(BarrierList) = Contexts
<1> DEFINE n == Len(BarrierList)
<1>1. n \in Nat /\ n \in 0 .. n
  BY LenProperties DEF MeetTypes
<1>2. Nodes(BarrierList) = {BarrierList[i] : i \in 1 .. n}
  BY DEF Nodes
<1>3. IsFiniteSet(Nodes(BarrierList)) /\ Cardinality(Nodes(BarrierList)) = n
  <2>1. BarrierList \in Seq(Contexts) /\ Distinct(BarrierList)
    BY DEF MeetTypes
  <2>2. /\ IsFiniteSet({BarrierList[i] : i \in 1 .. n})
        /\ Cardinality({BarrierList[i] : i \in 1 .. n}) = n
    BY <1>1, <2>1, CountNodes
  <2> QED
    BY <1>2, <2>2
<1> DEFINE all == Nodes(BarrierList) \cup {c}
<1>4. Cardinality(all) = n + 1
  BY <1>3, FS_AddElement
<1>5. all \subseteq Contexts
  BY FrontNode DEF MeetTypes
<1>6. Cardinality(all) = Cardinality(Contexts)
  BY <1>1, <1>4 DEF Counted, EverybodyHere
<1>7. all = Contexts
  BY <1>5, <1>6, ContextsAssumption, FS_Subset
<1> QED
  BY <1>7

(* A context that comes to the barrier waits, or begins the next round for *)
(* everybody.                                                              *)
LEMMA SyncInv ==
  ASSUME Needed = Cardinality(Contexts), RendezvousInv, NEW c \in Contexts, Sync(c)
  PROVE  RendezvousInv'
<1> USE DEF RendezvousInv
<1>1. /\ meeting[c] = "ready" /\ meeting' = [meeting EXCEPT ![c] = "barrier"]
      /\ arrived' = [arrived EXCEPT ![c] = arrived[c] + 1]
      /\ UNCHANGED <<SignalState, SignalWaiting, passed>>
  BY DEF Sync, Goes, signalVars
<1>2. lockState[c] = "READY"
  BY <1>1 DEF InLists
<1>3. c \notin Nodes(BarrierList) /\ c \notin Nodes(SignalWaiting)
  BY <1>1 DEF InLists
<1>4. /\ meeting' \in [Contexts -> {"start", "signal", "ready", "barrier"}]
      /\ arrived' \in [Contexts -> Nat]
  BY <1>1 DEF MeetTypes
<1>5. \A d \in Contexts : arrived'[d] = IF meeting'[d] = "barrier" THEN passed[d] + 1 ELSE passed[d]
  BY <1>1 DEF InStep, MeetTypes
<1>6. PICK r \in Nat : Round(r)
  BY DEF InStep
<1>7. Nodes(SignalWaiting) \subseteq Contexts /\ Nodes(BarrierList) \subseteq Contexts
  BY FrontNode DEF MeetTypes
<1>8. CASE EverybodyHere
  <2>0. {c} \cup Nodes(BarrierList) = Contexts
    BY <1>3, <1>8, LastToCome
  <2>1. /\ lockState' = [d \in Contexts |-> WakeFunction(d)]
        /\ Present' = 0 /\ BarrierList' = <<>>
    BY <1>8, <2>0 DEF Sync, BarrierSync, LockingAcquire
  <2>2. \A d \in Contexts : CanAcquire(d)
    BY <1>2, <2>0 DEF CanAcquire, InLists
  <2>3. stopped' = FALSE
    BY <1>8, <2>0, <2>2 DEF Sync, Acquires, Counted
  <2>4. BarrierList' \in Seq(Contexts) /\ Len(BarrierList') = 0
    BY <2>1
  <2>5. Distinct(BarrierList') /\ Nodes(BarrierList') = {}
    BY <2>4 DEF Distinct, Nodes
  <2>6. MeetTypes'
    BY <1>1, <1>4, <2>1, <2>4, <2>5, WakeStates DEF MeetTypes
  <2>7. Nodes(SignalWaiting) = {}
    BY <1>3, <1>7, <2>0 DEF InLists
  <2>8. \A d \in Contexts : meeting'[d] = "barrier"
    BY <1>1, <2>0 DEF MeetTypes, InLists
  <2>9. InLists'
    BY <1>1, <2>1, <2>5, <2>7, <2>8, WakeStates DEF InLists
  <2>10. Round(r + 1)'
    BY <1>1, <1>3, <1>6, <2>0, <2>5 DEF Round, MeetTypes
  <2>11. InStep'
    <3>1. r + 1 \in Nat
      BY <1>6
    <3>2. (\E q \in Nat : Round(q))'
      BY <2>10, <3>1
    <3>3. (\A d \in Contexts :
             arrived[d] = IF meeting[d] = "barrier" THEN passed[d] + 1 ELSE passed[d])'
      BY <1>1, <1>5
    <3> QED
      BY <3>2, <3>3 DEF InStep
  <2> QED
    BY <1>1, <2>1, <2>3, <2>4, <2>6, <2>9, <2>11 DEF Counted
<1>9. CASE ~ EverybodyHere
  <2>1. /\ lockState' = [lockState EXCEPT ![c] = "BLOCKING"]
        /\ Present' = Present + 1
        /\ BarrierList' = Append(BarrierList, c)
    BY <1>3, <1>9 DEF Sync, BarrierSync, LockingBlock, LinkedListEnqueue
  <2>2. stopped' = FALSE
    BY <1>9 DEF Sync, Acquires, Counted
  <2>3. /\ BarrierList' \in Seq(Contexts) /\ Distinct(BarrierList')
        /\ Nodes(BarrierList') = Nodes(BarrierList) \cup {c}
    BY <1>3, <2>1, AppendNode DEF MeetTypes
  <2>4. Len(BarrierList') = Len(BarrierList) + 1
    BY <2>1, AppendProperties DEF MeetTypes
  <2>5. MeetTypes'
    BY <1>1, <1>4, <2>1, <2>3 DEF MeetTypes, LockingStates
  <2>6. InLists'
    BY <1>1, <1>3, <1>7, <2>1, <2>3 DEF MeetTypes, InLists
  <2>7. Round(r)'
    BY <1>1, <1>3, <1>6, <2>3 DEF Round, MeetTypes
  <2>8. InStep'
    BY <1>1, <1>5, <1>6, <2>7 DEF InStep
  <2> QED
    BY <1>1, <2>1, <2>2, <2>4, <2>5, <2>6, <2>8 DEF Counted
<1> QED
  BY <1>8, <1>9

(* A context that was let go is in no list.                                *)
LEMMA ReturnInv ==
  ASSUME RendezvousInv, NEW c \in Contexts, Return(c)
  PROVE  RendezvousInv'
<1> USE DEF RendezvousInv
<1>1. /\ UNCHANGED <<Present, BarrierList, SignalState, SignalWaiting, arrived, stopped>>
      /\ lockState[c] # "BLOCKING"
      /\ lockState' = [lockState EXCEPT ![c] = "READY"]
  BY DEF Return, Released, LockingIsFree, LockingIsAcquired, barrierVars, signalVars, MeetTypes
<1>2. c \notin Nodes(BarrierList) /\ c \notin Nodes(SignalWaiting)
  BY <1>1 DEF InLists
<1>3. Nodes(SignalWaiting) \subseteq Contexts /\ Nodes(BarrierList) \subseteq Contexts
  BY FrontNode DEF MeetTypes
<1>4. \/ /\ meeting[c] = "signal" /\ meeting' = [meeting EXCEPT ![c] = "ready"]
         /\ passed' = passed
      \/ /\ meeting[c] = "barrier" /\ meeting' = [meeting EXCEPT ![c] = "start"]
         /\ passed' = [passed EXCEPT ![c] = passed[c] + 1]
  BY DEF Return, Goes
<1>5. MeetTypes'
  <2>1. meeting' \in [Contexts -> {"start", "signal", "ready", "barrier"}]
    BY <1>4 DEF MeetTypes
  <2>2. passed' \in [Contexts -> Nat]
    <3>1. passed \in [Contexts -> Nat] /\ passed[c] + 1 \in Nat
      BY DEF MeetTypes
    <3>2. passed' = passed \/ passed' = [passed EXCEPT ![c] = passed[c] + 1]
      BY <1>4
    <3> QED
      BY <3>1, <3>2
  <2>3. lockState' \in [Contexts -> LockingStates]
    BY <1>1 DEF MeetTypes, LockingStates
  <2> QED
    BY <1>1, <2>1, <2>2, <2>3 DEF MeetTypes
<1>6. InLists'
  BY <1>1, <1>2, <1>3, <1>4 DEF MeetTypes, InLists
<1>7. InStep'
  BY <1>1, <1>4 DEF InStep, Round, MeetTypes
<1> QED
  BY <1>1, <1>5, <1>6, <1>7 DEF Counted

(* Setting the signal lets everybody go who waits for it.                  *)
LEMMA SetInv == RendezvousInv /\ Set => RendezvousInv'
<1> SUFFICES ASSUME RendezvousInv, Set PROVE RendezvousInv'
  OBVIOUS
<1> USE DEF RendezvousInv
<1>1. UNCHANGED <<Present, BarrierList, meeting, arrived, passed>>
  BY DEF Set, barrierVars
<1>2. InStep'
  BY <1>1 DEF InStep, Round
<1>3. Nodes(SignalWaiting) \subseteq Contexts /\ Nodes(BarrierList) \subseteq Contexts
  BY FrontNode DEF MeetTypes
<1>4. CASE SignalState
  <2>1. UNCHANGED <<lockState, SignalState, SignalWaiting>> /\ stopped' = FALSE
    BY <1>4 DEF Set, SignalSet, signalVars, Acquires, Counted
  <2> QED
    BY <1>1, <1>2, <2>1 DEF MeetTypes, InLists, Counted
<1>5. CASE ~ SignalState
  <2>1. /\ lockState' = [d \in Contexts |->
                           IF d \in Nodes(SignalWaiting) THEN WakeFunction(d) ELSE lockState[d]]
        /\ SignalWaiting' = <<>>
    BY <1>5 DEF Set, SignalSet, LockingAcquire
  <2>2. SignalState' \in BOOLEAN
    BY <1>5 DEF Set, SignalSet
  <2>3. stopped' = FALSE
    BY <1>3, <1>5 DEF Set, Acquires, Counted, CanAcquire, InLists
  <2>4. SignalWaiting' \in Seq(Contexts) /\ Len(SignalWaiting') = 0
    BY <2>1
  <2>5. Distinct(SignalWaiting') /\ Nodes(SignalWaiting') = {}
    BY <2>4 DEF Distinct, Nodes
  <2>6. MeetTypes'
    BY <1>1, <2>1, <2>2, <2>4, <2>5, WakeStates DEF MeetTypes
  <2>7. InLists'
    BY <1>1, <1>3, <2>1, <2>5, WakeStates DEF MeetTypes, InLists
  <2> QED
    BY <1>1, <1>2, <2>1, <2>3, <2>6, <2>7 DEF Counted
<1> QED
  BY <1>4, <1>5

(* Unsetting it concerns only those who come later.                        *)
LEMMA UnsetInv == RendezvousInv /\ Unset => RendezvousInv'
<1> SUFFICES ASSUME RendezvousInv, Unset PROVE RendezvousInv'
  OBVIOUS
<1> USE DEF RendezvousInv
<1>1. /\ UNCHANGED <<lockState, SignalWaiting, Present, BarrierList, meeting, arrived, passed,
                     stopped>>
      /\ SignalState' = FALSE
  BY DEF Unset, SignalUnset, barrierVars
<1>2. SignalState' \in BOOLEAN
  BY <1>1
<1>3. MeetTypes'
  BY <1>1, <1>2 DEF MeetTypes
<1> QED
  BY <1>1, <1>3 DEF InLists, InStep, Round, Counted

(* Every step keeps the invariant.                                         *)
LEMMA RendezvousInvStep ==
  ASSUME Needed = Cardinality(Contexts)
  PROVE  RendezvousInv /\ [MeetNext]_meetVars => RendezvousInv'
<1> SUFFICES ASSUME RendezvousInv, [MeetNext]_meetVars PROVE RendezvousInv'
  OBVIOUS
<1>1. CASE UNCHANGED meetVars
  BY <1>1 DEF meetVars, barrierVars, signalVars, RendezvousInv, MeetTypes, InLists, InStep, Round,
              Counted
<1> QED
  BY <1>1, WaitForSignalInv, SyncInv, ReturnInv, SetInv, UnsetInv DEF MeetNext

(* Whatever contexts meet at a barrier made for all of them, and whenever  *)
(* the signal is set and unset: nobody gets a round ahead, nobody waits    *)
(* for a signal that is set, nobody is in two lists, and no assertion of   *)
(* signal.c or locking.c fails.                                            *)
THEOREM RendezvousSafe ==
  ASSUME Needed = Cardinality(Contexts)
  PROVE  MeetSpec => []MeetInv
<1>1. RendezvousInv /\ [MeetNext]_meetVars => RendezvousInv'
  BY RendezvousInvStep
<1> QED
  BY <1>1, RendezvousInvInit, RendezvousInvMeet, PTL DEF MeetSpec
=============================================================================
