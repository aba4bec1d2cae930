--------------------------- MODULE ResourceProofs ---------------------------
(***************************************************************************)
(* The safety of the resource unit, for any finite set of contexts of any  *)
(* kind: ResourceInv is an invariant of ResourceSpec and nobody is         *)
(* overtaken.  And what SchedulerJoinThread promises on top of it.         *)
(***************************************************************************)
EXTENDS ThreadJoin, QueueTheorems

(* The contexts that hold the lock in a mode are finitely many.            *)
LEMMA HoldersFinite ==
  ASSUME NEW mode
  PROVE  /\ IsFiniteSet(Holders(mode))
         /\ Cardinality(Holders(mode)) \in Nat
<1>1. Holders(mode) \in SUBSET Contexts
  BY DEF Holders
<1>2. IsFiniteSet(Holders(mode))
  BY <1>1, ContextsAssumption, FS_Subset
<1> QED
  BY <1>2, FS_CardinalityType

(* ResourceInit establishes the invariant, in either state.                *)
LEMMA InitResourceInv == ResourceInit => ResourceInv
<1> SUFFICES ASSUME ResourceInit
             PROVE  ResourceInv
  OBVIOUS
<1> USE DEF ResourceInit, LockingInit, NoneHeld
<1>1. ResourceTypeOK
  <2>1. held \in [Contexts -> ResourceModes \cup {"NONE"}]
    BY DEF ResourceModes
  <2>2. panic \in BOOLEAN
    OBVIOUS
  <2>3. State \in ResourceModes /\ NumShared \in Nat /\ WaitingThreads \in Seq(Contexts)
    BY DEF ResourceModes
  <2>4. /\ lockState \in [Contexts -> LockingStates]
        /\ ResourceWaitState \in [Contexts -> ResourceModes]
    BY DEF LockingStates, ResourceModes
  <2> QED
    BY <2>1, <2>2, <2>3, <2>4 DEF ResourceTypeOK
<1>2. Len(WaitingThreads) = 0 /\ Waiting = {}
  BY DEF Waiting, Nodes
<1>3. HoldersAgree
  <2>1. Holders("SHARED") = {} /\ Cardinality(Holders("SHARED")) = 0
    BY FS_EmptySet DEF Holders
  <2>2. State = "SHARED" => Holders("EXCLUSIVE") = {}
    BY DEF Holders
  <2>3. State = "EXCLUSIVE" => \E c \in Contexts : Holders("EXCLUSIVE") = {c}
    BY DEF Holders
  <2> QED
    BY <2>1, <2>2, <2>3 DEF HoldersAgree
<1>4. WaitersWillBeWoken
  BY <1>2 DEF WaitersWillBeWoken, Distinct
<1>5. FrontIsIncompatible /\ AcquiredHolds /\ NoPanic
  BY DEF FrontIsIncompatible, AcquiredHolds, NoPanic
<1> QED
  BY <1>1, <1>3, <1>4, <1>5 DEF ResourceInv

(* A context that gets in line behind a holder or a queue keeps the        *)
(* invariant, provided the front of the queue stays incompatible.          *)
LEMMA GetInLineInv ==
  ASSUME ResourceInv, NEW c \in Contexts, MayLock(c), NEW mode \in ResourceModes,
         GetInLine(c, mode),
         \E d \in Contexts : held[d] # "NONE",
         WaitingThreads = <<>> /\ State = "SHARED" => mode = "EXCLUSIVE"
  PROVE  ResourceInv'
<1> USE DEF ResourceInv, GetInLine, MayLock, LockingIsFree, LockingBlock
<1>1. c \notin Waiting
  BY DEF WaitersWillBeWoken
<1>2. /\ WaitingThreads' \in Seq(Contexts)
      /\ Waiting' = Waiting \cup {c}
      /\ Distinct(WaitingThreads')
  BY <1>1, AppendNode DEF ResourceTypeOK, Waiting, WaitersWillBeWoken
<1>3. ResourceTypeOK'
  BY <1>2 DEF ResourceTypeOK, LockingStates, ResourceModes
<1>4. HoldersAgree'
  BY DEF HoldersAgree, Holders
<1>5. WaitersWillBeWoken'
  BY <1>2 DEF WaitersWillBeWoken, ResourceTypeOK
<1>6. FrontIsIncompatible'
  <2>1. CASE WaitingThreads = <<>>
    <3>1. Head(WaitingThreads') = c
      BY <2>1, HeadTailAppend DEF ResourceTypeOK
    <3> QED
      BY <2>1, <3>1 DEF FrontIsIncompatible, ResourceTypeOK
  <2>2. CASE WaitingThreads # <<>>
    <3>1. Head(WaitingThreads') = Head(WaitingThreads)
      BY <2>2, HeadTailAppend DEF ResourceTypeOK
    <3>2. Head(WaitingThreads) = WaitingThreads[1] /\ 1 \in 1..Len(WaitingThreads)
      BY <2>2 DEF ResourceTypeOK
    <3>3. Head(WaitingThreads) # c
      BY <3>2, <1>1 DEF Waiting, Nodes
    <3> QED
      BY <2>2, <3>1, <3>3 DEF FrontIsIncompatible, ResourceTypeOK
  <2> QED
    BY <2>1, <2>2
<1>7. AcquiredHolds' /\ NoPanic'
  BY DEF AcquiredHolds, NoPanic, ResourceTypeOK
<1> QED
  BY <1>3, <1>4, <1>5, <1>6, <1>7

(* A context that finds the lock open to it joins the holders.             *)
LEMMA LockSharedInv ==
  ASSUME ResourceInv, NEW c \in Contexts, ResourceLockShared(c)
  PROVE  ResourceInv'
<1> USE DEF ResourceInv
<1>0. MayLock(c)
  BY DEF ResourceLockShared
<1>1. CASE /\ SharedAvailable
           /\ NumShared' = NumShared + 1
           /\ Hand({c}, "SHARED", held)
           /\ UNCHANGED <<State, WaitingThreads, ResourceWaitState>>
  <2> USE <1>0, <1>1 DEF Hand, LockingAcquire, WakeFunction, MayLock, LockingIsFree, SharedAvailable
  <2>1. Waiting = {} /\ Waiting' = {}
    BY DEF Waiting, Nodes
  <2>2. /\ Holders("SHARED")' = Holders("SHARED") \cup {c}
        /\ c \notin Holders("SHARED")
        /\ Holders("EXCLUSIVE")' = Holders("EXCLUSIVE")
    BY DEF Holders, ResourceTypeOK
  <2>3. Cardinality(Holders("SHARED")') = Cardinality(Holders("SHARED")) + 1
    BY <2>2, HoldersFinite, FS_AddElement
  <2>4. HoldersAgree'
    BY <2>2, <2>3 DEF HoldersAgree
  <2>5. panic' = FALSE
    BY DEF CanAcquire
  <2>6. ResourceTypeOK'
    <3>1. lockState' \in [Contexts -> LockingStates]
      BY DEF ResourceTypeOK, LockingStates
    <3>2. held' \in [Contexts -> ResourceModes \cup {"NONE"}]
      BY DEF ResourceTypeOK, ResourceModes
    <3>3. panic' \in BOOLEAN
      BY <2>5
    <3> QED
      BY <3>1, <3>2, <3>3 DEF ResourceTypeOK
  <2>7. WaitersWillBeWoken'
    BY <2>1 DEF WaitersWillBeWoken, ResourceTypeOK
  <2>8. FrontIsIncompatible' /\ AcquiredHolds'
    BY DEF FrontIsIncompatible, AcquiredHolds, ResourceTypeOK
  <2>9. NoPanic'
    BY <2>5 DEF NoPanic
  <2> QED
    BY <2>4, <2>6, <2>7, <2>8, <2>9
<1>2. CASE ~ SharedAvailable /\ GetInLine(c, "SHARED")
  <2>1. \E d \in Contexts : held[d] # "NONE"
    <3>1. CASE WaitingThreads = <<>>
      BY <1>2, <3>1 DEF SharedAvailable, HoldersAgree, Holders, ResourceTypeOK, ResourceModes
    <3>2. CASE WaitingThreads # <<>>
      <4>1. Waiting # {}
        BY <3>2, FrontNode DEF Waiting, ResourceTypeOK
      <4> QED
        BY <4>1 DEF WaitersWillBeWoken
    <3> QED
      BY <3>1, <3>2
  <2> QED
    BY <1>0, <1>2, <2>1, GetInLineInv DEF SharedAvailable, ResourceModes
<1> QED
  BY <1>1, <1>2 DEF ResourceLockShared

LEMMA LockExclusiveInv ==
  ASSUME ResourceInv, NEW c \in Contexts, ResourceLockExclusive(c)
  PROVE  ResourceInv'
<1> USE DEF ResourceInv
<1>0. MayLock(c)
  BY DEF ResourceLockExclusive
<1>1. CASE /\ ExclusiveAvailable
           /\ State' = "EXCLUSIVE"
           /\ Hand({c}, "EXCLUSIVE", held)
           /\ UNCHANGED <<NumShared, WaitingThreads, ResourceWaitState>>
  <2> USE <1>0, <1>1 DEF Hand, LockingAcquire, WakeFunction, MayLock, LockingIsFree, ExclusiveAvailable
  <2>1. Waiting = {} /\ Waiting' = {}
    BY DEF Waiting, Nodes
  <2>2. Holders("SHARED") = {}
    BY HoldersFinite, FS_EmptySet DEF HoldersAgree
  <2>3. Holders("EXCLUSIVE") = {}
    BY DEF HoldersAgree
  <2>4. Holders("SHARED")' = {} /\ Holders("EXCLUSIVE")' = {c}
    BY <2>2, <2>3 DEF Holders, ResourceTypeOK
  <2>5. HoldersAgree'
    BY <2>4, FS_EmptySet DEF HoldersAgree
  <2>6. panic' = FALSE
    BY DEF CanAcquire
  <2>7. ResourceTypeOK'
    <3>1. lockState' \in [Contexts -> LockingStates]
      BY DEF ResourceTypeOK, LockingStates
    <3>2. held' \in [Contexts -> ResourceModes \cup {"NONE"}]
      BY DEF ResourceTypeOK, ResourceModes
    <3>3. panic' \in BOOLEAN
      BY <2>6
    <3> QED
      BY <3>1, <3>2, <3>3 DEF ResourceTypeOK, ResourceModes
  <2>8. WaitersWillBeWoken'
    BY <2>1 DEF WaitersWillBeWoken, ResourceTypeOK
  <2>9. FrontIsIncompatible' /\ AcquiredHolds'
    BY DEF FrontIsIncompatible, AcquiredHolds, ResourceTypeOK
  <2>10. NoPanic'
    BY <2>6 DEF NoPanic
  <2> QED
    BY <2>5, <2>7, <2>8, <2>9, <2>10
<1>2. CASE ~ ExclusiveAvailable /\ GetInLine(c, "EXCLUSIVE")
  <2>1. \E d \in Contexts : held[d] # "NONE"
    <3>1. CASE WaitingThreads = <<>> /\ State = "SHARED"
      <4>1. Holders("SHARED") # {}
        BY <1>2, <3>1, FS_EmptySet DEF ExclusiveAvailable, HoldersAgree
      <4> QED
        BY <4>1 DEF Holders
    <3>2. CASE WaitingThreads = <<>> /\ State # "SHARED"
      BY <3>2 DEF HoldersAgree, Holders, ResourceTypeOK, ResourceModes
    <3>3. CASE WaitingThreads # <<>>
      <4>1. Waiting # {}
        BY <3>3, FrontNode DEF Waiting, ResourceTypeOK
      <4> QED
        BY <4>1 DEF WaitersWillBeWoken
    <3> QED
      BY <3>1, <3>2, <3>3
  <2> QED
    BY <1>0, <1>2, <2>1, GetInLineInv DEF ResourceModes
<1> QED
  BY <1>1, <1>2 DEF ResourceLockExclusive

(* When the lock has just become free, what ResourceWakeThreads does with  *)
(* the queue makes the front of it the new holders.                        *)
LEMMA WakeInv ==
  ASSUME ResourceInv, WaitingThreads # <<>>,
         NEW r \in Contexts, lockState[r] = "READY",
         \A c \in Contexts : c # r => held[c] = "NONE",
         ResourceWakeThreads([held EXCEPT ![r] = "NONE"])
  PROVE  ResourceInv'
<1> USE DEF ResourceInv
<1> DEFINE w == WaitingThreads
           base == [held EXCEPT ![r] = "NONE"]
<1>00. \A c \in Contexts : base[c] = "NONE"
  BY DEF ResourceTypeOK
<1> HIDE DEF base
<1>0. /\ w \in Seq(Contexts) /\ Len(w) \in Nat /\ Len(w) >= 1
      /\ Distinct(w) /\ Head(w) = w[1]
  BY FrontNode DEF ResourceTypeOK, WaitersWillBeWoken
<1>1. ASSUME NEW n \in 1..Len(w), NEW mode \in ResourceModes,
             State' = mode,
             Hand({w[i] : i \in 1..n}, mode, base),
             NumShared' = IF mode = "SHARED" THEN n ELSE 0,
             WaitingThreads' = SubSeq(w, n + 1, Len(w)),
             UNCHANGED ResourceWaitState,
             mode = "EXCLUSIVE" => n = 1,
             mode = "SHARED" /\ n < Len(w) => ResourceWaitState[w[n + 1]] = "EXCLUSIVE"
      PROVE  ResourceInv'
  <2> DEFINE woken == {w[i] : i \in 1..n}
             rest == SubSeq(w, n + 1, Len(w))
  <2>0. n \in 0..Len(w)
    BY <1>0
  <2> HIDE DEF w
  <2>00. /\ rest \in Seq(Contexts)
         /\ Len(rest) = Len(w) - n
         /\ \A i \in 1..Len(rest) : rest[i] = w[n + i]
         /\ Nodes(rest) = Nodes(w) \ woken
         /\ woken \subseteq Nodes(w)
         /\ Distinct(rest)
    BY <2>0, <1>0, DropNodes
  <2> HIDE DEF rest, woken
  <2>1. /\ WaitingThreads' \in Seq(Contexts)
        /\ Len(WaitingThreads') = Len(w) - n
        /\ \A i \in 1..Len(WaitingThreads') : WaitingThreads'[i] = w[n + i]
        /\ Waiting' = Waiting \ woken
        /\ woken \subseteq Waiting
        /\ Distinct(WaitingThreads')
    <3>1. WaitingThreads' = rest
      BY <1>1 DEF rest
    <3>2. Waiting' = Nodes(rest) /\ Waiting = Nodes(w)
      BY <3>1 DEF Waiting, w
    <3> QED
      BY <3>1, <3>2, <2>00
  <2>2. IsFiniteSet(woken) /\ Cardinality(woken) = n
    BY <2>0, <1>0, CountNodes DEF woken
  <2> USE <1>00, <1>1 DEF Hand, LockingAcquire, WakeFunction
  <2>3. woken \subseteq Contexts /\ woken # {} /\ w[1] \in woken
    <3>1. 1 \in 1..n /\ \A i \in 1..n : w[i] \in Contexts
      BY <1>0, ElementOfSeq
    <3> QED
      BY <3>1 DEF woken
  <2>4. \A c \in Contexts : held'[c] = IF c \in woken THEN mode ELSE "NONE"
    BY DEF woken, w
  <2>5. Holders(mode)' = woken
    BY <2>3, <2>4 DEF Holders, ResourceModes
  <2>6. \A m \in ResourceModes \ {mode} : Holders(m)' = {}
    BY <2>4 DEF Holders, ResourceModes
  <2>7. HoldersAgree'
    <3>1. CASE mode = "SHARED"
      BY <3>1, <2>2, <2>5, <2>6 DEF HoldersAgree, ResourceModes
    <3>2. CASE mode = "EXCLUSIVE"
      <4>1. woken = {w[1]}
        BY <3>2 DEF woken
      <4>2. Cardinality(Holders("SHARED")') = 0
        BY <3>2, <2>6, FS_EmptySet DEF ResourceModes
      <4> QED
        BY <3>2, <4>1, <4>2, <2>3, <2>5, <2>6 DEF HoldersAgree, ResourceModes
    <3> QED
      BY <3>1, <3>2 DEF ResourceModes
  <2>8. \A c \in woken : lockState[c] = "BLOCKING"
    BY <2>1, <2>3 DEF WaitersWillBeWoken
  <2>9. panic' = FALSE
    BY <2>8 DEF CanAcquire, woken, w
  <2>10. \A c \in Contexts :
            lockState'[c] = IF c \in woken THEN (IF Kind[c] = "THREAD" THEN "READY" ELSE "ACQUIRED")
                            ELSE lockState[c]
    BY DEF woken, w
  <2>11. ResourceTypeOK'
    <3>1. lockState' \in [Contexts -> LockingStates]
      BY DEF ResourceTypeOK, LockingStates, woken, w
    <3>2. held' \in [Contexts -> ResourceModes \cup {"NONE"}]
      BY DEF ResourceModes, woken, w
    <3>3. NumShared' \in Nat
      BY <1>0 DEF w
    <3>4. panic' \in BOOLEAN
      BY <2>9
    <3> QED
      BY <3>1, <3>2, <3>3, <3>4, <2>1 DEF ResourceTypeOK
  <2>12. WaitersWillBeWoken'
    <3>1. \A c \in Contexts : lockState'[c] = "BLOCKING" <=> c \in Waiting'
      BY <2>1, <2>8, <2>10 DEF WaitersWillBeWoken
    <3>2. Waiting' \subseteq Contexts
      BY <2>1, <1>0, FrontNode DEF Waiting, w
    <3>3. \A c \in Waiting' : held'[c] = "NONE"
      BY <3>2, <2>1, <2>4
    <3>4. \E c \in Contexts : held'[c] # "NONE"
      BY <2>3, <2>4 DEF ResourceModes
    <3> QED
      BY <2>1, <3>1, <3>3, <3>4 DEF WaitersWillBeWoken
  <2>13. FrontIsIncompatible'
    <3> SUFFICES ASSUME WaitingThreads' # <<>>, mode = "SHARED"
                 PROVE  ResourceWaitState[Head(WaitingThreads')] = "EXCLUSIVE"
      BY DEF FrontIsIncompatible
    <3>1. Len(WaitingThreads') \in Nat /\ Len(WaitingThreads') >= 1 /\ Head(WaitingThreads') = WaitingThreads'[1]
      BY <2>1
    <3>2. n < Len(w)
      BY <3>1, <2>1, <1>0
    <3>3. WaitingThreads'[1] = w[n + 1]
      BY <3>1, <2>1
    <3> QED
      BY <3>1, <3>2, <3>3
  <2>14. AcquiredHolds'
    <3>1. \A c \in Contexts : c \notin woken => lockState[c] # "ACQUIRED"
      BY DEF AcquiredHolds
    <3> QED
      BY <3>1, <2>4, <2>10 DEF AcquiredHolds, ResourceModes
  <2>15. NoPanic'
    BY <2>9 DEF NoPanic
  <2> QED
    BY <2>7, <2>11, <2>12, <2>13, <2>14, <2>15
<1>2. CASE /\ ResourceWaitState[Head(w)] = "EXCLUSIVE"
           /\ State' = "EXCLUSIVE"
           /\ NumShared' = 0
           /\ Hand({Head(w)}, "EXCLUSIVE", base)
           /\ WaitingThreads' = Tail(w)
           /\ UNCHANGED ResourceWaitState
  <2>1. Tail(w) = SubSeq(w, 1 + 1, Len(w))
    BY <1>0, TailIsSubSeq
  <2>2. {Head(w)} = {w[i] : i \in 1..1}
    BY <1>0
  <2>3. 1 \in 1..Len(w)
    BY <1>0
  <2> QED
    BY <1>1, <1>2, <2>1, <2>2, <2>3 DEF ResourceModes
<1>3. ASSUME NEW n \in 1..Len(w),
             SharedRun(n),
             State' = "SHARED",
             NumShared' = n,
             Hand({w[i] : i \in 1..n}, "SHARED", base),
             WaitingThreads' = SubSeq(w, n + 1, Len(w)),
             UNCHANGED ResourceWaitState
      PROVE  ResourceInv'
  BY <1>1, <1>3 DEF ResourceModes, SharedRun
<1> QED
  BY <1>2, <1>3 DEF ResourceWakeThreads, base

(* A reader that leaves other readers behind, or an empty queue, only      *)
(* takes its share back; the last one in front of a queue lets it in.      *)
LEMMA UnlockSharedInv ==
  ASSUME ResourceInv, NEW c \in Contexts, ResourceUnlockShared(c)
  PROVE  ResourceInv'
<1> USE DEF ResourceInv
<1> DEFINE freed == [held EXCEPT ![c] = "NONE"]
<1>0. held[c] = "SHARED" /\ lockState[c] = "READY" /\ c \in Holders("SHARED")
  BY DEF ResourceUnlockShared, MayUnlock, LockingIsFree, Holders
<1>1. State = "SHARED"
  BY <1>0 DEF HoldersAgree, ResourceTypeOK, ResourceModes
<1>2. Holders("EXCLUSIVE") = {} /\ NumShared = Cardinality(Holders("SHARED"))
  BY <1>1 DEF HoldersAgree
<1>3. /\ IsFiniteSet(Holders("SHARED") \ {c})
      /\ Cardinality(Holders("SHARED") \ {c}) = NumShared - 1
  BY <1>0, <1>2, HoldersFinite, FS_RemoveElement
<1>4. CASE LastShare /\ ResourceWakeThreads(freed)
  <2>1. Holders("SHARED") \ {c} = {}
    BY <1>3, <1>4, FS_EmptySet DEF LastShare
  <2>2. \A d \in Contexts : d # c => held[d] = "NONE"
    BY <1>2, <2>1 DEF Holders, ResourceTypeOK, ResourceModes
  <2>3. WaitingThreads # <<>>
    BY <1>4 DEF LastShare
  <2> QED
    BY <1>0, <1>4, <2>2, <2>3, WakeInv
<1>5. CASE /\ ~ LastShare
           /\ NumShared' = NumShared - 1
           /\ held' = freed
           /\ UNCHANGED <<lockState, State, WaitingThreads, ResourceWaitState, panic>>
  <2> USE <1>5
  <2>1. /\ Holders("SHARED")' = Holders("SHARED") \ {c}
        /\ Holders("EXCLUSIVE")' = {}
    BY <1>2 DEF Holders, ResourceTypeOK
  <2>2. HoldersAgree'
    BY <1>1, <1>3, <2>1 DEF HoldersAgree
  <2>3. NumShared' \in Nat
    BY <1>3, FS_CardinalityType
  <2>4. ResourceTypeOK'
    <3>1. held' \in [Contexts -> ResourceModes \cup {"NONE"}]
      BY DEF ResourceTypeOK
    <3> QED
      BY <2>3, <3>1 DEF ResourceTypeOK
  <2>5. WaitersWillBeWoken'
    <3>1. Waiting' = Waiting /\ Waiting \subseteq Contexts
      BY FrontNode DEF Waiting, ResourceTypeOK
    <3>2. ASSUME Waiting # {}
          PROVE  \E d \in Contexts : held'[d] # "NONE"
      <4>1. WaitingThreads # <<>>
        BY <3>2, FrontNode DEF Waiting, ResourceTypeOK
      <4>2. Holders("SHARED") \ {c} # {}
        BY <1>3, <4>1, FS_EmptySet DEF LastShare, ResourceTypeOK
      <4>3. PICK d \in Contexts : d # c /\ held[d] = "SHARED"
        BY <4>2 DEF Holders
      <4> QED
        BY <4>3 DEF ResourceTypeOK
    <3>3. \A d \in Waiting : held'[d] = "NONE"
      BY <3>1 DEF WaitersWillBeWoken, ResourceTypeOK
    <3> QED
      BY <3>1, <3>2, <3>3 DEF WaitersWillBeWoken
  <2>6. FrontIsIncompatible' /\ NoPanic'
    BY DEF FrontIsIncompatible, NoPanic
  <2>7. AcquiredHolds'
    BY <1>0 DEF AcquiredHolds, ResourceTypeOK
  <2> QED
    BY <2>2, <2>4, <2>5, <2>6, <2>7
<1> QED
  BY <1>1, <1>4, <1>5 DEF ResourceUnlockShared

(* A writer hands over to the queue, or leaves the lock open.              *)
LEMMA UnlockExclusiveInv ==
  ASSUME ResourceInv, NEW c \in Contexts, ResourceUnlockExclusive(c)
  PROVE  ResourceInv'
<1> USE DEF ResourceInv
<1> DEFINE freed == [held EXCEPT ![c] = "NONE"]
<1>0. held[c] = "EXCLUSIVE" /\ lockState[c] = "READY" /\ c \in Holders("EXCLUSIVE")
  BY DEF ResourceUnlockExclusive, MayUnlock, LockingIsFree, Holders
<1>1. State = "EXCLUSIVE"
  BY <1>0 DEF HoldersAgree, ResourceTypeOK, ResourceModes
<1>2. Holders("SHARED") = {} /\ Holders("EXCLUSIVE") = {c}
  BY <1>0, <1>1 DEF HoldersAgree
<1>3. NumShared = 0
  BY <1>2, FS_EmptySet DEF HoldersAgree
<1>4. \A d \in Contexts : d # c => held[d] = "NONE"
  BY <1>2 DEF Holders, ResourceTypeOK, ResourceModes
<1>5. CASE WaitingThreads # <<>> /\ ResourceWakeThreads(freed)
  BY <1>0, <1>4, <1>5, WakeInv
<1>6. CASE /\ WaitingThreads = <<>>
           /\ State' = "SHARED"
           /\ held' = freed
           /\ UNCHANGED <<lockState, NumShared, WaitingThreads, ResourceWaitState, panic>>
  <2> USE <1>6
  <2>1. \A d \in Contexts : held'[d] = "NONE"
    BY <1>4 DEF ResourceTypeOK
  <2>2. Holders("SHARED")' = {} /\ Holders("EXCLUSIVE")' = {}
    BY <2>1 DEF Holders
  <2>3. HoldersAgree'
    BY <1>3, <2>2, FS_EmptySet DEF HoldersAgree
  <2>4. held' \in [Contexts -> ResourceModes \cup {"NONE"}]
    BY DEF ResourceTypeOK
  <2>5. ResourceTypeOK'
    BY <2>4 DEF ResourceTypeOK, ResourceModes
  <2>6. Waiting = {} /\ Waiting' = {}
    BY FrontNode DEF Waiting, ResourceTypeOK
  <2>7. WaitersWillBeWoken'
    BY <2>6 DEF WaitersWillBeWoken
  <2>8. FrontIsIncompatible' /\ NoPanic'
    BY DEF FrontIsIncompatible, NoPanic
  <2>9. AcquiredHolds'
    BY <1>0, <1>4 DEF AcquiredHolds
  <2> QED
    BY <2>3, <2>5, <2>7, <2>8, <2>9
<1> QED
  BY <1>1, <1>3, <1>5, <1>6 DEF ResourceUnlockExclusive

(* Polling changes only the state of the context.                          *)
LEMMA PollInv ==
  ASSUME ResourceInv, NEW c \in Contexts, PollAcquired(c)
  PROVE  ResourceInv'
<1> USE DEF ResourceInv, PollAcquired, LockingIsAcquired
<1>1. ResourceTypeOK'
  BY DEF ResourceTypeOK, LockingStates
<1>2. HoldersAgree' /\ FrontIsIncompatible' /\ NoPanic'
  BY DEF HoldersAgree, Holders, FrontIsIncompatible, NoPanic
<1>3. WaitersWillBeWoken'
  BY DEF WaitersWillBeWoken, Waiting, ResourceTypeOK
<1>4. AcquiredHolds'
  BY DEF AcquiredHolds, ResourceTypeOK
<1> QED
  BY <1>1, <1>2, <1>3, <1>4

(* Every step of the lock, and every step that leaves it alone.            *)
LEMMA NextResourceInv == ResourceInv /\ [ResourceNext]_lockVars => ResourceInv'
<1> SUFFICES ASSUME ResourceInv, [ResourceNext]_lockVars
             PROVE  ResourceInv'
  OBVIOUS
<1>1. CASE UNCHANGED lockVars
  BY <1>1 DEF lockVars, ResourceInv, ResourceTypeOK, NoPanic, HoldersAgree, Holders,
              WaitersWillBeWoken, Waiting, FrontIsIncompatible, AcquiredHolds
<1>2. CASE ResourceNext
  BY <1>2, LockSharedInv, LockExclusiveInv, UnlockSharedInv, UnlockExclusiveInv, PollInv
     DEF ResourceNext
<1> QED
  BY <1>1, <1>2

(* ResourceInv holds throughout: the words State and NumShared always      *)
(* agree with who was granted the lock, no wake up is lost, and neither an *)
(* assertion nor a panic of resource.c and locking.c is reached.           *)
THEOREM ResourceSafe == ResourceSpec => []ResourceInv
BY InitResourceInv, NextResourceInv, PTL DEF ResourceSpec

(* What the lock's own words say of its holders is right.                  *)
THEOREM ResourceExclusion == ResourceSpec => [](ResourceTypeOK /\ HoldersAgree)
<1>1. ResourceInv => ResourceTypeOK /\ HoldersAgree
  BY DEF ResourceInv
<1> QED
  BY <1>1, ResourceSafe, PTL

(* No context sleeps in the queue without a holder that will wake it, and  *)
(* readers wait only behind a writer.                                      *)
THEOREM ResourceNoLostWakeup == ResourceSpec => [](WaitersWillBeWoken /\ FrontIsIncompatible)
<1>1. ResourceInv => WaitersWillBeWoken /\ FrontIsIncompatible
  BY DEF ResourceInv
<1> QED
  BY <1>1, ResourceSafe, PTL

(* No assertion fails and KernelPanic() is not called.                     *)
THEOREM ResourceNeverPanics == ResourceSpec => []NoPanic
<1>1. ResourceInv => NoPanic
  BY DEF ResourceInv
<1> QED
  BY <1>1, ResourceSafe, PTL

(* The condition of NoOvertaking on one step.                              *)
Overtakes(c, d) ==
  /\ held[c] = "NONE" /\ held'[c] # "NONE"
  /\ d \in Waiting /\ d \in Waiting'
  /\ ~ \E i, j \in 1..Len(WaitingThreads) :
          WaitingThreads[i] = c /\ WaitingThreads[j] = d /\ i < j

(* What ResourceWakeThreads grants, it grants to the front of the queue.   *)
LEMMA WakeInOrder ==
  ASSUME ResourceInv, WaitingThreads # <<>>, NEW r \in Contexts, held[r] # "NONE",
         ResourceWakeThreads([held EXCEPT ![r] = "NONE"]),
         NEW c \in Contexts, NEW d \in Contexts
  PROVE  ~ Overtakes(c, d)
<1> SUFFICES ASSUME Overtakes(c, d)
             PROVE  FALSE
  OBVIOUS
<1> DEFINE w == WaitingThreads
<1>0. /\ w \in Seq(Contexts) /\ Len(w) \in Nat /\ Len(w) >= 1
      /\ Distinct(w) /\ Head(w) = w[1]
  BY FrontNode DEF ResourceInv, ResourceTypeOK, WaitersWillBeWoken
<1>1. PICK n \in 1..Len(w), mode \in ResourceModes :
         /\ Hand({w[i] : i \in 1..n}, mode, [held EXCEPT ![r] = "NONE"])
         /\ WaitingThreads' = SubSeq(w, n + 1, Len(w))
  <2>1. CASE /\ Hand({Head(w)}, "EXCLUSIVE", [held EXCEPT ![r] = "NONE"])
             /\ WaitingThreads' = Tail(w)
    <3>1. Tail(w) = SubSeq(w, 1 + 1, Len(w)) /\ {Head(w)} = {w[i] : i \in 1..1}
      BY <1>0, TailIsSubSeq
    <3>2. 1 \in 1..Len(w) /\ "EXCLUSIVE" \in ResourceModes
      BY <1>0 DEF ResourceModes
    <3> QED
      BY <2>1, <3>1, <3>2
  <2>2. CASE \E n \in 1..Len(w) :
               /\ Hand({w[i] : i \in 1..n}, "SHARED", [held EXCEPT ![r] = "NONE"])
               /\ WaitingThreads' = SubSeq(w, n + 1, Len(w))
    BY <2>2 DEF ResourceModes
  <2> QED
    BY <2>1, <2>2 DEF ResourceWakeThreads
<1> DEFINE woken == {w[i] : i \in 1..n}
           rest == SubSeq(w, n + 1, Len(w))
<1>2. c \in woken
  BY <1>1 DEF Hand, Overtakes, ResourceInv, ResourceTypeOK
<1>3. PICK i \in 1..n : w[i] = c
  BY <1>2
<1>4. n \in 0..Len(w)
  BY <1>0
<1> HIDE DEF w
<1>5. /\ rest \in Seq(Contexts)
      /\ Len(rest) = Len(w) - n
      /\ \A k \in 1..Len(rest) : rest[k] = w[n + k]
      /\ Nodes(rest) = Nodes(w) \ woken
      /\ woken \subseteq Nodes(w)
      /\ Distinct(rest)
  BY <1>0, <1>4, DropNodes
<1>6. d \in Nodes(w) \ woken
  BY <1>1, <1>5 DEF Overtakes, Waiting, w
<1>7. PICK j \in 1..Len(w) : w[j] = d /\ j \notin 1..n
  BY <1>6 DEF Nodes
<1>8. i \in 1..Len(w) /\ i < j
  BY <1>0, <1>3, <1>7
<1> QED
  BY <1>3, <1>7, <1>8 DEF Overtakes, w

(* A context that asks for the lock or gets one handed over never passes   *)
(* one that keeps waiting, "starvation safe" in every step.                *)
THEOREM ResourceInOrder == ResourceSpec => NoOvertaking
<1>1. ASSUME ResourceInv, [ResourceNext]_lockVars, NEW c \in Contexts, NEW d \in Contexts
      PROVE  ~ Overtakes(c, d)
  <2>1. WaitingThreads = <<>> => Waiting = {}
    BY <1>1, FrontNode DEF ResourceInv, ResourceTypeOK, Waiting
  <2>2. CASE held' = held
    BY <2>2 DEF Overtakes
  <2>3. CASE WaitingThreads = <<>>
    BY <2>1, <2>3 DEF Overtakes
  <2>4. ASSUME NEW r \in Contexts, held' = [held EXCEPT ![r] = "NONE"]
        PROVE  ~ Overtakes(c, d)
    BY <1>1, <2>4 DEF Overtakes, ResourceInv, ResourceTypeOK
  <2>5. ASSUME NEW r \in Contexts, held[r] # "NONE", WaitingThreads # <<>>,
               ResourceWakeThreads([held EXCEPT ![r] = "NONE"])
        PROVE  ~ Overtakes(c, d)
    BY <1>1, <2>5, WakeInOrder
  <2>6. CASE UNCHANGED lockVars
    BY <2>2, <2>6 DEF lockVars
  <2>7. ASSUME NEW r \in Contexts, ResourceLockShared(r) \/ ResourceLockExclusive(r)
        PROVE  ~ Overtakes(c, d)
    BY <2>2, <2>3, <2>7 DEF ResourceLockShared, ResourceLockExclusive, GetInLine,
                            SharedAvailable, ExclusiveAvailable
  <2>8. ASSUME NEW r \in Contexts, ResourceUnlockShared(r)
        PROVE  ~ Overtakes(c, d)
    BY <2>2, <2>4, <2>5, <2>8 DEF ResourceUnlockShared, KernelPanic, MayUnlock, LastShare
  <2>9. ASSUME NEW r \in Contexts, ResourceUnlockExclusive(r)
        PROVE  ~ Overtakes(c, d)
    BY <2>2, <2>4, <2>5, <2>9 DEF ResourceUnlockExclusive, KernelPanic, MayUnlock
  <2>10. ASSUME NEW r \in Contexts, PollAcquired(r)
         PROVE  ~ Overtakes(c, d)
    BY <2>2, <2>10 DEF PollAcquired
  <2> QED
    BY <1>1, <2>6, <2>7, <2>8, <2>9, <2>10 DEF ResourceNext
<1>2. ResourceInv /\ [ResourceNext]_lockVars
        => [\A c, d \in Contexts :
              (/\ held[c] = "NONE" /\ held'[c] # "NONE"
               /\ d \in Waiting /\ d \in Waiting')
              => \E i, j \in 1..Len(WaitingThreads) :
                    WaitingThreads[i] = c /\ WaitingThreads[j] = d /\ i < j]_lockVars
  BY <1>1 DEF Overtakes
<1> QED
  BY <1>2, ResourceSafe, PTL DEF ResourceSpec, NoOvertaking

-----------------------------------------------------------------------------

(* While the main of a thread runs, and once the thread is DONE, it has    *)
(* its ResultLock exclusively.                                             *)
JoinInv ==
  /\ ResourceInv
  /\ JoinTypeOK
  /\ \A t \in Joiners : at[t] = "joined" => at[Target] # "main"
  /\ at[Target] \in {"main", "done"} => held[Target] = "EXCLUSIVE"

(* An exclusive holder is the only one, in the words of held.              *)
LEMMA HeldAlone ==
  ASSUME ResourceInv, NEW c \in Contexts, held[c] = "EXCLUSIVE"
  PROVE  \A d \in Contexts : d # c => held[d] = "NONE"
<1>1. c \in Holders("EXCLUSIVE")
  BY DEF Holders
<1>2. State = "EXCLUSIVE"
  BY <1>1 DEF ResourceInv, HoldersAgree, ResourceTypeOK, ResourceModes
<1>3. Holders("EXCLUSIVE") = {c} /\ Holders("SHARED") = {}
  BY <1>1, <1>2 DEF ResourceInv, HoldersAgree
<1>4. held \in [Contexts -> {"SHARED", "EXCLUSIVE", "NONE"}]
  BY DEF ResourceInv, ResourceTypeOK, ResourceModes
<1> QED
  BY <1>3, <1>4 DEF Holders

(* What a thread does on its way out, or to join another, is a use of the  *)
(* lock or leaves it alone.                                                *)
LEMMA JoinUsesLock == [JoinNext]_joinVars => [ResourceNext]_lockVars
<1>1. Target \in Contexts /\ Joiners \subseteq Contexts
  BY TargetAssumption DEF Joiners
<1> QED
  BY <1>1 DEF JoinNext, joinVars, ResourceNext, ExitUnlock, ExitLock, ExitDone,
              SchedulerJoinThread, JoinReturn, SchedulerReleaseThread

(* Main has not returned and nobody holds the Result shared.               *)
LEMMA JoinInvInit == JoinInit => JoinInv
<1> SUFFICES ASSUME JoinInit PROVE JoinInv
  OBVIOUS
<1>1. ResourceInv
  BY InitResourceInv DEF JoinInit
<1>2. at = [t \in Contexts |-> "main"] /\ held[Target] = "EXCLUSIVE" /\ Target \in Contexts
  BY TargetAssumption DEF JoinInit
<1>3. JoinTypeOK
  BY <1>1, <1>2 DEF JoinTypeOK, ResourceInv
<1>4. \A t \in Joiners : at[t] = "main"
  BY <1>2 DEF Joiners
<1> QED
  BY <1>1, <1>2, <1>3, <1>4 DEF JoinInv

(* The step of a joiner does not take the lock from its owner.             *)
LEMMA OwnerKeeps ==
  ASSUME ResourceInv, held[Target] = "EXCLUSIVE", NEW t \in Joiners,
         SchedulerJoinThread(t) \/ JoinReturn(t) \/ SchedulerReleaseThread(t)
  PROVE  held'[Target] = "EXCLUSIVE"
<1>1. t \in Contexts /\ t # Target /\ Target \in Contexts
  BY TargetAssumption DEF Joiners
<1>2. held[t] = "NONE"
  BY <1>1, HeldAlone
<1>3. CASE SchedulerJoinThread(t)
  BY <1>1, <1>3 DEF SchedulerJoinThread, ResourceLockShared, Hand, GetInLine
<1>4. CASE JoinReturn(t)
  BY <1>4 DEF JoinReturn, lockVars
<1>5. CASE SchedulerReleaseThread(t)
  BY <1>2, <1>5 DEF SchedulerReleaseThread, ResourceUnlockShared, MayUnlock
<1> QED
  BY <1>3, <1>4, <1>5

(* Every step of a thread that ends, joins or releases.                   *)
LEMMA JoinInvStep == JoinInv /\ [JoinNext]_joinVars => JoinInv'
<1> SUFFICES ASSUME JoinInv, [JoinNext]_joinVars PROVE JoinInv'
  OBVIOUS
<1>1. ResourceInv /\ ResourceInv'
  BY JoinUsesLock, NextResourceInv DEF JoinInv
<1>2. Target \in Contexts /\ Joiners \subseteq Contexts /\ Target \notin Joiners
  BY TargetAssumption DEF Joiners
<1>3. JoinTypeOK /\ ResourceTypeOK'
  BY <1>1 DEF JoinInv, ResourceInv
<1> DEFINE places == {"main", "unlocked", "locking", "done", "joining", "joined", "released"}
<1>4. at \in [Contexts -> places]
  BY <1>3 DEF JoinTypeOK
<1>5. ASSUME NEW c \in Contexts, NEW from, NEW to \in places, Move(c, from, to)
      PROVE  at' \in [Contexts -> places] /\ at[c] = from /\ at'[c] = to
             /\ (\A d \in Contexts : d # c => at'[d] = at[d])
  BY <1>4, <1>5 DEF Move
<1>6. at' \in [Contexts -> places]
  BY <1>2, <1>4, <1>5 DEF JoinNext, joinVars, ExitUnlock, ExitLock, ExitDone,
                          SchedulerJoinThread, JoinReturn, SchedulerReleaseThread
<1>7. at'[Target] \in {"main", "done"} => held'[Target] = "EXCLUSIVE"
  <2>1. CASE ExitUnlock \/ ExitLock
    BY <1>2, <1>5, <2>1 DEF ExitUnlock, ExitLock
  <2>2. CASE ExitDone
    BY <2>2 DEF ExitDone, Returned, lockVars
  <2>3. ASSUME NEW t \in Joiners,
               SchedulerJoinThread(t) \/ JoinReturn(t) \/ SchedulerReleaseThread(t)
        PROVE  at'[Target] \in {"main", "done"} => held'[Target] = "EXCLUSIVE"
    <3>1. at'[Target] = at[Target]
      BY <1>2, <1>5, <2>3 DEF SchedulerJoinThread, JoinReturn, SchedulerReleaseThread
    <3> QED
      BY <1>1, <2>3, <3>1, OwnerKeeps DEF JoinInv
  <2>4. CASE UNCHANGED joinVars
    BY <2>4 DEF joinVars, lockVars, JoinInv
  <2> QED
    BY <2>1, <2>2, <2>3, <2>4 DEF JoinNext
<1>8. ASSUME NEW t \in Joiners, at'[t] = "joined" PROVE at'[Target] # "main"
  <2>1. CASE at[t] = "joined"
    <3>1. at[Target] # "main"
      BY <2>1 DEF JoinInv
    <3> QED
      BY <1>2, <1>4, <3>1 DEF JoinNext, joinVars, Move, ExitUnlock, ExitLock, ExitDone,
                              SchedulerJoinThread, JoinReturn, SchedulerReleaseThread
  <2>2. CASE at[t] # "joined"
    <3>1. JoinReturn(t)
      BY <1>2, <1>4, <1>8, <2>2 DEF JoinNext, joinVars, Move, ExitUnlock, ExitLock, ExitDone,
                              SchedulerJoinThread, JoinReturn, SchedulerReleaseThread
    <3>2. held[t] = "SHARED" /\ at'[Target] = at[Target]
      BY <1>2, <1>5, <3>1 DEF JoinReturn, Returned
    <3>3. held[Target] # "EXCLUSIVE"
      BY <1>1, <1>2, <3>2, HeldAlone
    <3> QED
      BY <3>2, <3>3 DEF JoinInv
  <2> QED
    BY <2>1, <2>2
<1>9. JoinTypeOK'
  BY <1>3, <1>6 DEF JoinTypeOK
<1> QED
  BY <1>1, <1>7, <1>8, <1>9 DEF JoinInv

(* Whoever joins a thread, and whenever: the Result it reads is the one    *)
(* main returned, and the thread is not DONE, its structure not free for a *)
(* new thread, before everybody who joined it has released it.             *)
THEOREM JoinAlwaysSound == JoinSpec => []JoinSound
<1>1. JoinInv => JoinSound
  <2> SUFFICES ASSUME JoinInv PROVE JoinSound
    OBVIOUS
  <2>1. ASSUME TargetState = "DONE" PROVE \A t \in Joiners : held[t] = "NONE"
    <3>1. held[Target] = "EXCLUSIVE"
      BY <2>1 DEF TargetState, JoinInv
    <3> QED
      BY <3>1, HeldAlone, TargetAssumption DEF JoinInv, Joiners
  <2> QED
    BY <2>1 DEF JoinInv, JoinSound
<1> QED
  BY <1>1, JoinInvInit, JoinInvStep, PTL DEF JoinSpec
=============================================================================
