-------------------------- MODULE RefinementProofs --------------------------
(***************************************************************************)
(* The resource unit implements the abstract reader/writer lock of         *)
(* RWLock.tla, for any finite set of contexts of any kind.                 *)
(***************************************************************************)
EXTENDS ResourceProofs

Asks == [who : Contexts, mode : ResourceModes]

(* The abstract queue of a queue of contexts and what they wait for.       *)
Line(w, s) == [i \in 1 .. Len(w) |-> [who |-> w[i], mode |-> s[w[i]]]]

(* It has a request for every context.                                     *)
LEMMA LineProperties ==
  ASSUME NEW w \in Seq(Contexts), NEW s \in [Contexts -> ResourceModes]
  PROVE  /\ Line(w, s) \in Seq(Asks)
         /\ Len(Line(w, s)) = Len(w)
         /\ \A i \in 1 .. Len(w) : Line(w, s)[i] = [who |-> w[i], mode |-> s[w[i]]]
         /\ Line(w, s) = <<>> <=> w = <<>>
<1>1. Len(w) \in Nat /\ \A i \in 1 .. Len(w) : w[i] \in Contexts
  BY LenProperties, ElementOfSeq
<1>2. Line(w, s) \in [1 .. Len(w) -> Asks]
  BY <1>1 DEF Line, Asks
<1>3. Line(w, s) \in Seq(Asks)
  BY <1>1, <1>2, SeqDef
<1>4. DOMAIN Line(w, s) = 1 .. Len(w) /\ DOMAIN Line(w, s) = 1 .. Len(Line(w, s))
  BY <1>3, LenProperties DEF Line
<1>5. Len(Line(w, s)) \in Nat
  BY <1>3, LenProperties
<1>6. Len(Line(w, s)) = Len(w)
  BY <1>1, <1>4, <1>5
<1>7. \A i \in 1 .. Len(w) : Line(w, s)[i] = [who |-> w[i], mode |-> s[w[i]]]
  BY DEF Line
<1>8. Line(w, s) = <<>> <=> w = <<>>
  BY <1>3, <1>6, EmptySeq
<1> QED
  BY <1>3, <1>6, <1>7, <1>8

(* A context that joins the queue adds its request to the end.             *)
LEMMA LineAppend ==
  ASSUME NEW w \in Seq(Contexts), NEW s \in [Contexts -> ResourceModes],
         NEW c \in Contexts, c \notin Nodes(w), NEW m \in ResourceModes
  PROVE  Line(Append(w, c), [s EXCEPT ![c] = m]) = Append(Line(w, s), [who |-> c, mode |-> m])
<1> DEFINE w2 == Append(w, c)
           s2 == [s EXCEPT ![c] = m]
           a == [who |-> c, mode |-> m]
<1>1. /\ w2 \in Seq(Contexts) /\ Len(w2) = Len(w) + 1 /\ Len(w) \in Nat
      /\ \A i \in 1 .. Len(w) : w2[i] = w[i]
      /\ w2[Len(w) + 1] = c
  BY AppendProperties, LenProperties
<1>2. s2 \in [Contexts -> ResourceModes] /\ s2[c] = m /\ \A d \in Contexts \ {c} : s2[d] = s[d]
  OBVIOUS
<1>3. \A i \in 1 .. Len(w) : w[i] \in Contexts \ {c}
  BY ElementOfSeq DEF Nodes
<1>4. a \in Asks
  BY DEF Asks
<1> HIDE DEF w2, s2, a
<1>5. /\ Line(w2, s2) \in Seq(Asks) /\ Len(Line(w2, s2)) = Len(w) + 1
      /\ \A i \in 1 .. Len(w) + 1 : Line(w2, s2)[i] = [who |-> w2[i], mode |-> s2[w2[i]]]
  BY <1>1, <1>2, LineProperties
<1>6. /\ Line(w, s) \in Seq(Asks) /\ Len(Line(w, s)) = Len(w)
      /\ \A i \in 1 .. Len(w) : Line(w, s)[i] = [who |-> w[i], mode |-> s[w[i]]]
  BY LineProperties
<1>7. /\ Append(Line(w, s), a) \in Seq(Asks)
      /\ Len(Append(Line(w, s), a)) = Len(w) + 1
      /\ \A i \in 1 .. Len(w) : Append(Line(w, s), a)[i] = Line(w, s)[i]
      /\ Append(Line(w, s), a)[Len(w) + 1] = a
  BY <1>4, <1>6, AppendProperties
<1>8. \A i \in 1 .. Len(w) + 1 : Line(w2, s2)[i] = Append(Line(w, s), a)[i]
  <2> SUFFICES ASSUME NEW i \in 1 .. Len(w) + 1
               PROVE  Line(w2, s2)[i] = Append(Line(w, s), a)[i]
    OBVIOUS
  <2>1. CASE i \in 1 .. Len(w)
    <3>1. w2[i] = w[i] /\ s2[w[i]] = s[w[i]]
      BY <2>1, <1>1, <1>2, <1>3
    <3>2. Line(w2, s2)[i] = [who |-> w2[i], mode |-> s2[w2[i]]]
      BY <1>5
    <3>3. Append(Line(w, s), a)[i] = [who |-> w[i], mode |-> s[w[i]]]
      BY <2>1, <1>6, <1>7
    <3> QED
      BY <3>1, <3>2, <3>3
  <2>2. CASE i = Len(w) + 1
    BY <2>2, <1>1, <1>2, <1>5, <1>7 DEF a
  <2>3. i \in 1 .. Len(w) \/ i = Len(w) + 1
    BY <1>1
  <2> QED
    BY <2>1, <2>2, <2>3
<1>9. Line(w2, s2) = Append(Line(w, s), a)
  BY <1>5, <1>7, <1>8, SeqEqual
<1> QED
  BY <1>9 DEF w2, s2, a

(* Contexts that leave the front of the queue take their requests away.    *)
LEMMA LineDrop ==
  ASSUME NEW w \in Seq(Contexts), NEW s \in [Contexts -> ResourceModes], NEW n \in 0 .. Len(w)
  PROVE  Line(SubSeq(w, n + 1, Len(w)), s) = SubSeq(Line(w, s), n + 1, Len(Line(w, s)))
<1> DEFINE w2 == SubSeq(w, n + 1, Len(w))
           q == Line(w, s)
           q2 == SubSeq(q, n + 1, Len(q))
<1>1. Len(w) \in Nat /\ n \in Nat /\ n <= Len(w) /\ \A i \in 1 .. Len(w) : w[i] \in Contexts
  BY LenProperties, ElementOfSeq
<1>2. /\ q \in Seq(Asks) /\ Len(q) = Len(w)
      /\ \A i \in 1 .. Len(w) : q[i] = [who |-> w[i], mode |-> s[w[i]]]
  BY LineProperties
<1>3. \A i \in (n + 1) .. Len(w) : w[i] \in Contexts /\ q[i] \in Asks
  BY <1>1, <1>2, ElementOfSeq
<1>4. /\ w2 \in Seq(Contexts)
      /\ Len(w2) = IF n + 1 <= Len(w) THEN Len(w) - (n + 1) + 1 ELSE 0
      /\ \A i \in 1 .. Len(w) - (n + 1) + 1 : w2[i] = w[n + 1 + i - 1]
  BY <1>1, <1>3, SubSeqProperties
<1> HIDE DEF q
<1>5. /\ q2 \in Seq(Asks)
      /\ Len(q2) = IF n + 1 <= Len(w) THEN Len(w) - (n + 1) + 1 ELSE 0
      /\ \A i \in 1 .. Len(w) - (n + 1) + 1 : q2[i] = q[n + 1 + i - 1]
  BY <1>1, <1>2, <1>3, SubSeqProperties
<1> HIDE DEF w2, q2
<1>6. Len(w2) = Len(w) - n /\ Len(q2) = Len(w) - n
  BY <1>1, <1>4, <1>5
<1>7. \A i \in 1 .. Len(w) - n : w2[i] = w[n + i] /\ q2[i] = q[n + i] /\ n + i \in 1 .. Len(w)
  <2> SUFFICES ASSUME NEW i \in 1 .. Len(w) - n
               PROVE  w2[i] = w[n + i] /\ q2[i] = q[n + i] /\ n + i \in 1 .. Len(w)
    OBVIOUS
  <2>1. /\ i \in 1 .. Len(w) - (n + 1) + 1 /\ n + 1 + i - 1 = n + i
        /\ n + i \in 1 .. Len(w)
    BY <1>1
  <2> QED
    BY <1>4, <1>5, <2>1
<1>8. /\ Line(w2, s) \in Seq(Asks) /\ Len(Line(w2, s)) = Len(w) - n
      /\ \A i \in 1 .. Len(w) - n : Line(w2, s)[i] = [who |-> w2[i], mode |-> s[w2[i]]]
  BY <1>4, <1>6, LineProperties
<1>9. ASSUME NEW i \in 1 .. Len(w) - n PROVE Line(w2, s)[i] = q2[i]
  <2>1. n + i \in 1 .. Len(w) /\ w2[i] = w[n + i] /\ q2[i] = q[n + i]
    BY <1>7
  <2>2. q2[i] = [who |-> w[n + i], mode |-> s[w[n + i]]]
    BY <1>2, <2>1
  <2>3. Line(w2, s)[i] = [who |-> w2[i], mode |-> s[w2[i]]]
    BY <1>8
  <2> QED
    BY <2>1, <2>2, <2>3
<1>10. Line(w2, s) = q2
  BY <1>5, <1>6, <1>8, <1>9, SeqEqual
<1> QED
  BY <1>10 DEF w2, q2, q

(* The holders once the first n contexts of the queue w are let in.        *)
LetFirstIn(w, s, n, h) ==
  [c \in Contexts |-> IF c \in {w[i] : i \in 1 .. n} THEN s[c] ELSE h[c]]

(* Granting the first n requests gives each of the first n contexts what   *)
(* it waits for.                                                           *)
LEMMA GrantedIs ==
  ASSUME NEW w \in Seq(Contexts), Distinct(w), NEW s \in [Contexts -> ResourceModes],
         NEW n \in 0 .. Len(w), NEW h
  PROVE  RW!Granted(h, Line(w, s), n) = LetFirstIn(w, s, n, h)
<1> DEFINE q == Line(w, s)
<1>1. Len(w) \in Nat /\ n \in Nat /\ n <= Len(w)
  BY LenProperties
<1>2. \A i \in 1 .. Len(w) : q[i] = [who |-> w[i], mode |-> s[w[i]]]
  BY LineProperties
<1> HIDE DEF q
<1>2a. \A i \in 1 .. n : i \in 1 .. Len(w)
  BY <1>1
<1>2b. \A i \in 1 .. n : q[i].who = w[i] /\ q[i].mode = s[w[i]]
  <2> SUFFICES ASSUME NEW i \in 1 .. n
               PROVE  q[i].who = w[i] /\ q[i].mode = s[w[i]]
    OBVIOUS
  <2>1. q[i] = [who |-> w[i], mode |-> s[w[i]]]
    BY <1>2, <1>2a
  <2> QED
    BY <2>1
<1>3. ASSUME NEW c \in Contexts
      PROVE  (IF \E i \in 1 .. n : q[i].who = c
              THEN q[CHOOSE i \in 1 .. n : q[i].who = c].mode
              ELSE h[c])
             = IF c \in {w[i] : i \in 1 .. n} THEN s[c] ELSE h[c]
  <2>1. CASE \E i \in 1 .. n : q[i].who = c
    <3> DEFINE k == CHOOSE i \in 1 .. n : q[i].who = c
    <3>1. k \in 1 .. n /\ q[k].who = c
      BY <2>1
    <3> HIDE DEF k
    <3>2. w[k] = c /\ q[k].mode = s[c]
      BY <1>2b, <3>1
    <3>3. c \in {w[i] : i \in 1 .. n}
      BY <3>1, <3>2
    <3> QED
      BY <2>1, <3>2, <3>3 DEF k
  <2>2. CASE ~ \E i \in 1 .. n : q[i].who = c
    <3>1. c \notin {w[i] : i \in 1 .. n}
      BY <1>2b, <2>2
    <3> QED
      BY <2>2, <3>1
  <2> QED
    BY <2>1, <2>2
<1>4. RW!Granted(h, q, n) =
        [c \in Contexts |-> IF \E i \in 1 .. n : q[i].who = c
                            THEN q[CHOOSE i \in 1 .. n : q[i].who = c].mode
                            ELSE h[c]]
  BY DEF RW!Granted
<1>5. RW!Granted(h, q, n) =
        [c \in Contexts |-> IF c \in {w[i] : i \in 1 .. n} THEN s[c] ELSE h[c]]
  BY <1>3, <1>4
<1> QED
  BY <1>5 DEF q, LetFirstIn

(* What the steps below use of the invariant.                              *)
LEMMA RequestFacts ==
  ASSUME ResourceInv
  PROVE  /\ WaitingThreads \in Seq(Contexts) /\ Distinct(WaitingThreads)
         /\ ResourceWaitState \in [Contexts -> ResourceModes]
         /\ held \in [Contexts -> ResourceModes \cup {"NONE"}]
         /\ Requests = Line(WaitingThreads, ResourceWaitState)
         /\ Requests = <<>> <=> WaitingThreads = <<>>
         /\ Len(Requests) = Len(WaitingThreads)
         /\ Len(Requests) \in Nat
         /\ \A c \in Contexts : c \notin Waiting =>
               \A i \in 1 .. Len(Requests) : Requests[i].who # c
<1>1. /\ WaitingThreads \in Seq(Contexts) /\ Distinct(WaitingThreads)
      /\ ResourceWaitState \in [Contexts -> ResourceModes]
      /\ held \in [Contexts -> ResourceModes \cup {"NONE"}]
  BY DEF ResourceInv, ResourceTypeOK, WaitersWillBeWoken
<1>2. Requests = Line(WaitingThreads, ResourceWaitState)
  BY DEF Requests, Line
<1>3. /\ Requests = <<>> <=> WaitingThreads = <<>>
      /\ Len(Requests) = Len(WaitingThreads)
      /\ \A i \in 1 .. Len(WaitingThreads) :
            Requests[i] = [who |-> WaitingThreads[i],
                           mode |-> ResourceWaitState[WaitingThreads[i]]]
  BY <1>1, <1>2, LineProperties
<1>4. Len(WaitingThreads) \in Nat
  BY <1>1, LenProperties
<1>5. ASSUME NEW c \in Contexts, c \notin Waiting, NEW i \in 1 .. Len(Requests)
      PROVE  Requests[i].who # c
  <2>1. i \in 1 .. Len(WaitingThreads)
    BY <1>3
  <2>2. Requests[i] = [who |-> WaitingThreads[i], mode |-> ResourceWaitState[WaitingThreads[i]]]
    BY <1>3, <2>1
  <2>3. WaitingThreads[i] # c
    BY <1>5, <2>1 DEF Waiting, Nodes
  <2> QED
    BY <2>2, <2>3
<1> QED
  BY <1>1, <1>2, <1>3, <1>4, <1>5

(* A free lock, or one that its owner holds.                               *)
LEMMA InitImplements == ResourceInit => RW!Init
<1> SUFFICES ASSUME ResourceInit PROVE RW!Init
  OBVIOUS
<1>1. ResourceInv
  BY InitResourceInv
<1>2. Requests = <<>>
  BY <1>1, RequestFacts DEF ResourceInit
<1> QED
  BY <1>2 DEF ResourceInit, NoneHeld, RW!Init, RW!Idle

(* A context that cannot have the lock queues up in both.                  *)
LEMMA GetInLineImplements ==
  ASSUME ResourceInv, NEW c \in Contexts, NEW m \in ResourceModes, MayLock(c), GetInLine(c, m),
         WaitingThreads # <<>> \/ ~ RW!Compatible([held EXCEPT ![c] = m])
  PROVE  RW!Lock(c, m)
<1>1. held[c] = "NONE" /\ c \notin Waiting
  BY DEF MayLock, LockingIsFree, ResourceInv, WaitersWillBeWoken
<1>2. c \notin Nodes(WaitingThreads)
  BY <1>1 DEF Waiting
<1>3. Requests' = Append(Requests, [who |-> c, mode |-> m]) /\ held' = held
  <2>1. /\ WaitingThreads' = Append(WaitingThreads, c)
        /\ ResourceWaitState' = [ResourceWaitState EXCEPT ![c] = m]
        /\ held' = held
    BY DEF GetInLine
  <2>2. Requests' = Line(WaitingThreads', ResourceWaitState')
    BY DEF Requests, Line
  <2>3. Line(Append(WaitingThreads, c), [ResourceWaitState EXCEPT ![c] = m])
          = Append(Requests, [who |-> c, mode |-> m])
    <3>1. /\ WaitingThreads \in Seq(Contexts)
          /\ ResourceWaitState \in [Contexts -> ResourceModes]
          /\ Requests = Line(WaitingThreads, ResourceWaitState)
      BY RequestFacts
    <3>2. Line(Append(WaitingThreads, c), [ResourceWaitState EXCEPT ![c] = m])
            = Append(Line(WaitingThreads, ResourceWaitState), [who |-> c, mode |-> m])
      BY <1>2, <3>1, LineAppend
    <3> QED
      BY <3>1, <3>2
  <2> QED
    BY <2>1, <2>2, <2>3
<1> QED
  BY <1>1, <1>3, RequestFacts DEF RW!Lock

(* A context that can have the lock has it in both.                        *)
LEMMA TakeImplements ==
  ASSUME ResourceInv, NEW c \in Contexts, NEW m \in ResourceModes, MayLock(c),
         WaitingThreads = <<>>, RW!Compatible([held EXCEPT ![c] = m]),
         Hand({c}, m, held), UNCHANGED <<WaitingThreads, ResourceWaitState>>
  PROVE  RW!Lock(c, m)
<1>1. held[c] = "NONE" /\ c \notin Waiting
  BY DEF MayLock, LockingIsFree, ResourceInv, WaitersWillBeWoken
<1>2. held' = [held EXCEPT ![c] = m]
  BY RequestFacts DEF Hand
<1>3. Requests' = Requests
  BY DEF Requests
<1> QED
  BY <1>1, <1>2, <1>3, RequestFacts DEF RW!Lock

(* The lock is open to a reader exactly when nobody waits and the lock is  *)
(* not held by a writer.                                                   *)
LEMMA LockSharedImplements ==
  ASSUME ResourceInv, NEW c \in Contexts, ResourceLockShared(c)
  PROVE  RW!Next
<1>1. MayLock(c) /\ held[c] = "NONE" /\ "SHARED" \in ResourceModes
  BY DEF ResourceLockShared, MayLock, ResourceModes
<1> DEFINE taken == [held EXCEPT ![c] = "SHARED"]
<1>2. \A d \in Contexts : taken[d] = IF d = c THEN "SHARED" ELSE held[d]
  BY RequestFacts
<1> HIDE DEF taken
<1>3. CASE SharedAvailable
  <2>1. \A d \in Contexts : held[d] # "EXCLUSIVE"
    BY <1>3 DEF SharedAvailable, ResourceInv, HoldersAgree, Holders
  <2>2. RW!Compatible(taken)
    BY <1>2, <2>1 DEF RW!Compatible
  <2>3. RW!Lock(c, "SHARED")
    BY <1>1, <1>3, <2>2, TakeImplements DEF ResourceLockShared, SharedAvailable, taken
  <2> QED
    BY <2>3 DEF RW!Next, RW!Modes
<1>4. CASE ~ SharedAvailable
  <2>2. WaitingThreads # <<>> \/ ~ RW!Compatible(taken)
    <3>1. ASSUME WaitingThreads = <<>> PROVE ~ RW!Compatible(taken)
      <4>1. PICK d \in Contexts : held[d] = "EXCLUSIVE"
        BY <1>4, <3>1 DEF SharedAvailable, ResourceInv, ResourceTypeOK, ResourceModes,
                          HoldersAgree, Holders
      <4> QED
        BY <1>1, <1>2, <4>1 DEF RW!Compatible
    <3> QED
      BY <3>1
  <2>3. RW!Lock(c, "SHARED")
    BY <1>1, <1>4, <2>2, GetInLineImplements DEF ResourceLockShared, taken
  <2> QED
    BY <2>3 DEF RW!Next, RW!Modes
<1> QED
  BY <1>3, <1>4

(* It is open to a writer exactly when nobody waits and nobody holds it.   *)
LEMMA LockExclusiveImplements ==
  ASSUME ResourceInv, NEW c \in Contexts, ResourceLockExclusive(c)
  PROVE  RW!Next
<1>1. MayLock(c) /\ held[c] = "NONE" /\ "EXCLUSIVE" \in ResourceModes
  BY DEF ResourceLockExclusive, MayLock, ResourceModes
<1> DEFINE taken == [held EXCEPT ![c] = "EXCLUSIVE"]
<1>2. \A d \in Contexts : taken[d] = IF d = c THEN "EXCLUSIVE" ELSE held[d]
  BY RequestFacts
<1> HIDE DEF taken
<1>3. CASE ExclusiveAvailable
  <2>1. Holders("SHARED") = {}
    BY <1>3, HoldersFinite, FS_EmptySet DEF ExclusiveAvailable, ResourceInv, HoldersAgree
  <2>2. \A d \in Contexts : held[d] = "NONE"
    BY <1>3, <2>1 DEF ExclusiveAvailable, ResourceInv, HoldersAgree, Holders, ResourceTypeOK,
                      ResourceModes
  <2>3. RW!Compatible(taken)
    BY <1>2, <2>2 DEF RW!Compatible
  <2>4. RW!Lock(c, "EXCLUSIVE")
    BY <1>1, <1>3, <2>3, TakeImplements DEF ResourceLockExclusive, ExclusiveAvailable, taken
  <2> QED
    BY <2>4 DEF RW!Next, RW!Modes
<1>4. CASE ~ ExclusiveAvailable
  <2>1. WaitingThreads # <<>> \/ ~ RW!Compatible(taken)
    <3>1. ASSUME WaitingThreads = <<>> PROVE ~ RW!Compatible(taken)
      <4>1. \E d \in Contexts : held[d] # "NONE"
        <5>1. CASE State = "SHARED"
          <6>1. Holders("SHARED") # {}
            BY <1>4, <3>1, <5>1, FS_EmptySet DEF ExclusiveAvailable, ResourceInv, HoldersAgree
          <6> QED
            BY <6>1 DEF Holders
        <5>2. CASE State # "SHARED"
          BY <5>2 DEF ResourceInv, ResourceTypeOK, ResourceModes, HoldersAgree, Holders
        <5> QED
          BY <5>1, <5>2
      <4> QED
        BY <1>1, <1>2, <4>1 DEF RW!Compatible
    <3> QED
      BY <3>1
  <2>2. RW!Lock(c, "EXCLUSIVE")
    BY <1>1, <1>4, <2>1, GetInLineImplements DEF ResourceLockExclusive, taken
  <2> QED
    BY <2>2 DEF RW!Next, RW!Modes
<1> QED
  BY <1>3, <1>4

(* The same of the resource's own queue.                                   *)
Given(h, n) == LetFirstIn(WaitingThreads, ResourceWaitState, n, h)

(* A release that lets the longest compatible prefix of the queue in is a  *)
(* release of the abstract lock.                                           *)
LEMMA UnlockImplements ==
  ASSUME ResourceInv, NEW c \in Contexts, held[c] # "NONE",
         NEW h, h = [held EXCEPT ![c] = "NONE"],
         NEW n \in 0 .. Len(WaitingThreads),
         RW!Compatible(Given(h, n)),
         n < Len(WaitingThreads) => ~ RW!Compatible(Given(h, n + 1)),
         held' = Given(h, n),
         WaitingThreads' = SubSeq(WaitingThreads, n + 1, Len(WaitingThreads)),
         ResourceWaitState' = ResourceWaitState
  PROVE  RW!Next
<1>1. /\ WaitingThreads \in Seq(Contexts) /\ Distinct(WaitingThreads)
      /\ ResourceWaitState \in [Contexts -> ResourceModes]
      /\ Requests = Line(WaitingThreads, ResourceWaitState)
      /\ Len(Requests) = Len(WaitingThreads) /\ Len(WaitingThreads) \in Nat
  BY RequestFacts
<1>2. \A k \in 0 .. Len(WaitingThreads) : RW!Granted(h, Requests, k) = Given(h, k)
  BY <1>1, GrantedIs DEF Given
<1>3. n < Len(WaitingThreads) => n + 1 \in 0 .. Len(WaitingThreads)
  BY <1>1
<1>4. RW!Longest(h, Requests, n)
  BY <1>1, <1>2, <1>3 DEF RW!Longest
<1>5. held' = RW!Granted(h, Requests, n)
  BY <1>2
<1>6. Requests' = SubSeq(Requests, n + 1, Len(Requests))
  <2>1. Requests' = Line(WaitingThreads', ResourceWaitState')
    BY DEF Requests, Line
  <2>2. Line(SubSeq(WaitingThreads, n + 1, Len(WaitingThreads)), ResourceWaitState)
          = SubSeq(Line(WaitingThreads, ResourceWaitState), n + 1,
                   Len(Line(WaitingThreads, ResourceWaitState)))
    BY <1>1, LineDrop
  <2> QED
    BY <1>1, <2>1, <2>2
<1>7. n \in 0 .. Len(Requests)
  BY <1>1
<1>8. RW!Unlock(c)
  BY <1>4, <1>5, <1>6, <1>7 DEF RW!Unlock
<1> QED
  BY <1>8 DEF RW!Next

(* ResourceWakeThreads, called when nobody holds the lock any more, lets   *)
(* in as many as the abstract lock does: one writer, or all the readers    *)
(* before the first writer.                                                *)
LEMMA WakeImplements ==
  ASSUME ResourceInv, WaitingThreads # <<>>, NEW r \in Contexts, held[r] # "NONE",
         \A d \in Contexts : d # r => held[d] = "NONE",
         ResourceWakeThreads([held EXCEPT ![r] = "NONE"])
  PROVE  RW!Next
<1> DEFINE w == WaitingThreads
           s == ResourceWaitState
           h == [held EXCEPT ![r] = "NONE"]
<1>0. /\ w \in Seq(Contexts) /\ Len(w) \in Nat /\ Len(w) >= 1
      /\ Distinct(w) /\ Head(w) = w[1]
      /\ s \in [Contexts -> ResourceModes]
      /\ \A i \in 1 .. Len(w) : w[i] \in Contexts
  BY FrontNode, RequestFacts, ElementOfSeq
<1>1. \A d \in Contexts : h[d] = "NONE"
  BY RequestFacts
<1>2. h = [held EXCEPT ![r] = "NONE"]
  OBVIOUS
<1> HIDE DEF w, s, h
<1>3. \A n \in 0 .. Len(w) : \A d \in Contexts :
        Given(h, n)[d] = IF d \in {w[i] : i \in 1 .. n} THEN s[d] ELSE "NONE"
  BY <1>1 DEF Given, LetFirstIn, w, s
<1>4. ASSUME NEW n \in 1 .. Len(w), NEW m \in ResourceModes,
             Hand({w[i] : i \in 1 .. n}, m, h),
             w' = SubSeq(w, n + 1, Len(w)), s' = s,
             \A i \in 1 .. n : s[w[i]] = m,
             m = "EXCLUSIVE" => n = 1,
             m = "SHARED" /\ n < Len(w) => s[w[n + 1]] = "EXCLUSIVE"
      PROVE  RW!Next
  <2> DEFINE woken == {w[i] : i \in 1 .. n}
  <2>1. n \in 0 .. Len(w) /\ 1 \in 1 .. n /\ woken \subseteq Contexts /\ w[1] \in woken
    BY <1>0
  <2>2. \A d \in woken : s[d] = m
    BY <1>4
  <2>3. held' = Given(h, n)
    BY <1>4, <2>2 DEF Hand, Given, LetFirstIn, w, s
  <2>4. \A d \in Contexts : Given(h, n)[d] = IF d \in woken THEN m ELSE "NONE"
    BY <1>3, <2>1, <2>2
  <2>5. RW!Compatible(Given(h, n))
    <3>1. CASE m = "EXCLUSIVE"
      <4>1. woken = {w[1]}
        BY <1>4, <3>1
      <4> HIDE DEF woken
      <4> QED
        BY <2>4, <4>1 DEF RW!Compatible
    <3>2. CASE m = "SHARED"
      BY <2>4, <3>2 DEF RW!Compatible
    <3> QED
      BY <3>1, <3>2 DEF ResourceModes
  <2>6. ASSUME n < Len(w) PROVE ~ RW!Compatible(Given(h, n + 1))
    <3> DEFINE more == {w[i] : i \in 1 .. n + 1}
    <3>1. /\ n + 1 \in 0 .. Len(w) /\ 1 \in 1 .. Len(w) /\ n + 1 \in 1 .. Len(w) /\ n + 1 # 1
          /\ 1 \in 1 .. n + 1 /\ n + 1 \in 1 .. n + 1
      BY <1>0, <2>6
    <3>2. w[1] \in Contexts /\ w[n + 1] \in Contexts /\ w[1] # w[n + 1]
      BY <1>0, <3>1 DEF Distinct
    <3>3. w[1] \in more /\ w[n + 1] \in more
      BY <3>1
    <3>4. \A d \in Contexts : Given(h, n + 1)[d] = IF d \in more THEN s[d] ELSE "NONE"
      BY <1>3, <3>1
    <3> HIDE DEF more
    <3>5. Given(h, n + 1)[w[1]] = m /\ Given(h, n + 1)[w[n + 1]] = s[w[n + 1]]
      BY <1>4, <2>1, <3>2, <3>3, <3>4
    <3>6. s[w[n + 1]] \in ResourceModes
      BY <1>0, <3>2
    <3>7. m = "EXCLUSIVE" \/ s[w[n + 1]] = "EXCLUSIVE"
      BY <1>4, <2>6 DEF ResourceModes
    <3> QED
      BY <3>2, <3>5, <3>6, <3>7 DEF RW!Compatible, ResourceModes
  <2> QED
    BY <1>2, <1>4, <2>1, <2>3, <2>5, <2>6, UnlockImplements DEF w, s
<1>5. CASE /\ s[Head(w)] = "EXCLUSIVE"
           /\ Hand({Head(w)}, "EXCLUSIVE", h)
           /\ w' = Tail(w)
           /\ s' = s
  <2>1. Tail(w) = SubSeq(w, 1 + 1, Len(w)) /\ {Head(w)} = {w[i] : i \in 1 .. 1}
    <3>1. w # <<>>
      BY DEF w
    <3> QED
      BY <1>0, <3>1, TailIsSubSeq
  <2>2. 1 \in 1 .. Len(w) /\ "EXCLUSIVE" \in ResourceModes
    BY <1>0 DEF ResourceModes
  <2>3. \A i \in 1 .. 1 : s[w[i]] = "EXCLUSIVE"
    BY <1>0, <1>5
  <2> QED
    BY <1>4, <1>5, <2>1, <2>2, <2>3
<1>6. CASE \E n \in 1 .. Len(w) :
             /\ SharedRun(n)
             /\ Hand({w[i] : i \in 1 .. n}, "SHARED", h)
             /\ w' = SubSeq(w, n + 1, Len(w))
             /\ s' = s
  <2>1. PICK n \in 1 .. Len(w) :
             /\ SharedRun(n)
             /\ Hand({w[i] : i \in 1 .. n}, "SHARED", h)
             /\ w' = SubSeq(w, n + 1, Len(w))
             /\ s' = s
    BY <1>6
  <2>2. /\ \A i \in 1 .. n : s[w[i]] = "SHARED"
        /\ n < Len(w) => s[w[n + 1]] = "EXCLUSIVE"
    BY <2>1 DEF SharedRun, w, s
  <2>3. "SHARED" \in ResourceModes
    BY DEF ResourceModes
  <2> QED
    BY <1>4, <2>1, <2>2, <2>3
<1> QED
  BY <1>5, <1>6 DEF ResourceWakeThreads, w, s, h

(* A release that leaves the lock to those who hold it, or to nobody, lets *)
(* nobody in because nobody could be let in.                               *)
LEMMA LeaveImplements ==
  ASSUME ResourceInv, NEW c \in Contexts, held[c] # "NONE",
         held' = [held EXCEPT ![c] = "NONE"],
         UNCHANGED <<WaitingThreads, ResourceWaitState>>,
         \A d \in Contexts : d # c => held[d] # "EXCLUSIVE",
         WaitingThreads # <<>> =>
            /\ ResourceWaitState[Head(WaitingThreads)] = "EXCLUSIVE"
            /\ \E d \in Contexts : d # c /\ held[d] # "NONE"
  PROVE  RW!Next
<1> DEFINE w == WaitingThreads
           h == [held EXCEPT ![c] = "NONE"]
<1>1. w \in Seq(Contexts) /\ Len(w) \in Nat
  BY RequestFacts, LenProperties
<1>2. \A d \in Contexts : h[d] = IF d = c THEN "NONE" ELSE held[d]
  BY RequestFacts
<1>3. h = [held EXCEPT ![c] = "NONE"] /\ held' = h /\ h = [d \in Contexts |-> h[d]]
  BY RequestFacts
<1> HIDE DEF h, w
<1>4. Given(h, 0) = h
  <2>1. {WaitingThreads[i] : i \in 1 .. 0} = {}
    OBVIOUS
  <2> QED
    BY <1>3, <2>1 DEF Given, LetFirstIn
<1>5. RW!Compatible(Given(h, 0))
  BY <1>2, <1>4 DEF RW!Compatible
<1>6. ASSUME 0 < Len(w) PROVE ~ RW!Compatible(Given(h, 0 + 1))
  <2>1. w # <<>> /\ Head(w) = w[1] /\ w[1] \in Waiting /\ w[1] \in Contexts
    BY <1>1, <1>6, FrontNode, EmptySeq DEF Waiting, w
  <2>2. held[w[1]] = "NONE"
    BY <2>1 DEF ResourceInv, WaitersWillBeWoken
  <2>3. PICK d \in Contexts : d # c /\ held[d] # "NONE"
    BY <2>1 DEF w
  <2>4. {WaitingThreads[i] : i \in 1 .. 0 + 1} = {w[1]}
    BY DEF w
  <2>5. Given(h, 0 + 1)[w[1]] = "EXCLUSIVE"
    BY <2>1, <2>4 DEF Given, LetFirstIn, w
  <2>6. Given(h, 0 + 1)[d] = held[d]
    BY <1>2, <2>2, <2>3, <2>4 DEF Given, LetFirstIn
  <2> QED
    BY <2>1, <2>2, <2>3, <2>5, <2>6 DEF RW!Compatible
<1>7. w' = SubSeq(w, 0 + 1, Len(w))
  BY <1>1, SubSeqFull DEF w
<1>8. 0 \in 0 .. Len(w)
  BY <1>1
<1> QED
  BY <1>3, <1>4, <1>5, <1>6, <1>7, <1>8, UnlockImplements DEF w

(* A reader leaves.                                                        *)
LEMMA UnlockSharedImplements ==
  ASSUME ResourceInv, NEW c \in Contexts, ResourceUnlockShared(c)
  PROVE  RW!Next
<1> USE DEF ResourceInv
<1>1. held[c] = "SHARED" /\ c \in Holders("SHARED") /\ held[c] # "NONE"
  BY DEF ResourceUnlockShared, MayUnlock, Holders
<1>2. State = "SHARED"
  BY <1>1 DEF HoldersAgree, ResourceTypeOK, ResourceModes
<1>3. Holders("EXCLUSIVE") = {} /\ NumShared = Cardinality(Holders("SHARED"))
  BY <1>2 DEF HoldersAgree
<1>4. /\ IsFiniteSet(Holders("SHARED") \ {c})
      /\ Cardinality(Holders("SHARED") \ {c}) = NumShared - 1
  BY <1>1, <1>3, HoldersFinite, FS_RemoveElement
<1>5. CASE LastShare
  <2>1. Holders("SHARED") \ {c} = {}
    BY <1>4, <1>5, FS_EmptySet DEF LastShare
  <2>2. \A d \in Contexts : d # c => held[d] = "NONE"
    BY <1>3, <2>1 DEF Holders, ResourceTypeOK, ResourceModes
  <2> QED
    BY <1>1, <1>2, <1>5, <2>2, WakeImplements DEF ResourceUnlockShared, LastShare
<1>6. CASE ~ LastShare
  <2>1. held' = [held EXCEPT ![c] = "NONE"] /\ UNCHANGED <<WaitingThreads, ResourceWaitState>>
    BY <1>2, <1>6 DEF ResourceUnlockShared
  <2>2. \A d \in Contexts : held[d] # "EXCLUSIVE"
    BY <1>3 DEF Holders
  <2>3. ASSUME WaitingThreads # <<>>
        PROVE  /\ ResourceWaitState[Head(WaitingThreads)] = "EXCLUSIVE"
               /\ \E d \in Contexts : d # c /\ held[d] # "NONE"
    <3>1. Holders("SHARED") \ {c} # {}
      BY <1>4, <1>6, <2>3, FS_EmptySet DEF LastShare, ResourceTypeOK
    <3>2. \E d \in Contexts : d # c /\ held[d] = "SHARED"
      BY <3>1 DEF Holders
    <3> QED
      BY <1>2, <2>3, <3>2 DEF FrontIsIncompatible
  <2> QED
    BY <1>1, <2>1, <2>2, <2>3, LeaveImplements
<1> QED
  BY <1>5, <1>6

(* A writer leaves.                                                        *)
LEMMA UnlockExclusiveImplements ==
  ASSUME ResourceInv, NEW c \in Contexts, ResourceUnlockExclusive(c)
  PROVE  RW!Next
<1> USE DEF ResourceInv
<1>1. held[c] = "EXCLUSIVE" /\ c \in Holders("EXCLUSIVE") /\ held[c] # "NONE"
  BY DEF ResourceUnlockExclusive, MayUnlock, Holders
<1>2. State = "EXCLUSIVE"
  BY <1>1 DEF HoldersAgree, ResourceTypeOK, ResourceModes
<1>3. Holders("SHARED") = {} /\ Holders("EXCLUSIVE") = {c}
  BY <1>1, <1>2 DEF HoldersAgree
<1>4. NumShared = 0
  BY <1>3, FS_EmptySet DEF HoldersAgree
<1>5. \A d \in Contexts : d # c => held[d] = "NONE"
  BY <1>3 DEF Holders, ResourceTypeOK, ResourceModes
<1>6. CASE WaitingThreads # <<>>
  BY <1>1, <1>2, <1>4, <1>5, <1>6, WakeImplements DEF ResourceUnlockExclusive
<1>7. CASE WaitingThreads = <<>>
  <2>1. held' = [held EXCEPT ![c] = "NONE"] /\ UNCHANGED <<WaitingThreads, ResourceWaitState>>
    BY <1>2, <1>4, <1>7 DEF ResourceUnlockExclusive
  <2>2. \A d \in Contexts : d # c => held[d] # "EXCLUSIVE"
    BY <1>5
  <2> QED
    BY <1>1, <1>7, <2>1, <2>2, LeaveImplements
<1> QED
  BY <1>6, <1>7

(* Every step of the resource is one of the abstract lock or none: polling *)
(* is none.                                                                *)
LEMMA NextImplements == ResourceInv /\ [ResourceNext]_lockVars => [RW!Next]_(RW!rwVars)
<1> SUFFICES ASSUME ResourceInv, [ResourceNext]_lockVars PROVE RW!Next \/ UNCHANGED RW!rwVars
  OBVIOUS
<1>1. CASE UNCHANGED <<WaitingThreads, ResourceWaitState, held>>
  BY <1>1 DEF RW!rwVars, Requests
<1>2. CASE \E c \in Contexts : PollAcquired(c)
  BY <1>1, <1>2 DEF PollAcquired
<1>3. CASE UNCHANGED lockVars
  BY <1>1, <1>3 DEF lockVars
<1> QED
  BY <1>2, <1>3, LockSharedImplements, LockExclusiveImplements, UnlockSharedImplements,
     UnlockExclusiveImplements DEF ResourceNext

(* resource.c implements the abstract first come, first served             *)
(* reader/writer lock: what State, NumShared and the queue make it do is   *)
(* what the holders and the requests alone would.                          *)
THEOREM ResourceImplements == ResourceSpec => ImplementsRWLock
  BY InitImplements, NextImplements, ResourceSafe, PTL DEF ResourceSpec, ImplementsRWLock, RW!Spec
=============================================================================
