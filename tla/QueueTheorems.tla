--------------------------- MODULE QueueTheorems ---------------------------
(***************************************************************************)
(* Facts about the queues of the locks: sequences without repetition that  *)
(* grow at the end and shrink at the front.                                *)
(***************************************************************************)
EXTENDS Lists, FiniteSets, FunctionTheorems, FiniteSetTheorems, SequenceTheorems, TLAPS

(* The nodes of a queue, and the one in front.                             *)
LEMMA FrontNode ==
  ASSUME NEW S, NEW q \in Seq(S)
  PROVE  /\ Nodes(q) \subseteq S
         /\ q # <<>> => /\ Len(q) \in Nat /\ Len(q) >= 1
                       /\ Head(q) = q[1] /\ q[1] \in Nodes(q)
         /\ q = <<>> => Nodes(q) = {}
<1>1. Len(q) \in Nat /\ \A i \in 1..Len(q) : q[i] \in S
  BY LenProperties, ElementOfSeq
<1>2. Nodes(q) \subseteq S
  BY <1>1 DEF Nodes
<1>3. ASSUME q # <<>>
      PROVE  Len(q) >= 1 /\ Head(q) = q[1]
  BY <1>1, <1>3, EmptySeq
<1>4. ASSUME q # <<>>
      PROVE  q[1] \in Nodes(q)
  <2>1. 1 \in 1..Len(q)
    BY <1>1, <1>3, <1>4
  <2> QED
    BY <2>1 DEF Nodes
<1>5. ASSUME q = <<>>
      PROVE  Nodes(q) = {}
  <2>1. Len(q) = 0
    BY <1>5, EmptySeq
  <2> QED
    BY <2>1 DEF Nodes
<1> QED
  BY <1>1, <1>2, <1>3, <1>4, <1>5

(* Enqueueing a node that is not in the queue adds that node and keeps the *)
(* order of the others.                                                    *)
LEMMA AppendNode ==
  ASSUME NEW S, NEW q \in Seq(S), NEW e \in S, e \notin Nodes(q), Distinct(q)
  PROVE  /\ Append(q, e) \in Seq(S)
         /\ Append(q, e) # <<>>
         /\ Nodes(Append(q, e)) = Nodes(q) \cup {e}
         /\ Distinct(Append(q, e))
<1>1. /\ Append(q, e) \in Seq(S)
      /\ Append(q, e) # <<>>
      /\ Len(Append(q, e)) = Len(q) + 1
      /\ \A i \in 1..Len(q) : Append(q, e)[i] = q[i]
      /\ Append(q, e)[Len(q) + 1] = e
  BY AppendProperties
<1>2. Len(q) \in Nat
  BY LenProperties
<1>3. 1..Len(Append(q, e)) = (1..Len(q)) \cup {Len(q) + 1}
  BY <1>1, <1>2
<1>4. Nodes(Append(q, e)) = Nodes(q) \cup {e}
  BY <1>1, <1>2, <1>3 DEF Nodes
<1>5. Distinct(Append(q, e))
  BY <1>1, <1>2, <1>3 DEF Nodes, Distinct
<1> QED
  BY <1>1, <1>4, <1>5

(* Taking the first n nodes away leaves the others in their order.         *)
LEMMA DropNodes ==
  ASSUME NEW S, NEW q \in Seq(S), Distinct(q), NEW n \in 0..Len(q)
  PROVE  LET r == SubSeq(q, n + 1, Len(q))
             taken == {q[i] : i \in 1..n}
         IN  /\ r \in Seq(S)
             /\ Len(r) = Len(q) - n
             /\ \A i \in 1..Len(r) : r[i] = q[n + i]
             /\ Nodes(r) = Nodes(q) \ taken
             /\ taken \subseteq Nodes(q)
             /\ Distinct(r)
<1> DEFINE r == SubSeq(q, n + 1, Len(q))
           taken == {q[i] : i \in 1..n}
<1>1. Len(q) \in Nat /\ n \in Nat /\ n <= Len(q)
  BY LenProperties
<1>2. \A i \in (n + 1)..Len(q) : q[i] \in S
  BY <1>1, ElementOfSeq
<1>3. /\ r \in Seq(S)
      /\ Len(r) = IF n + 1 <= Len(q) THEN Len(q) - (n + 1) + 1 ELSE 0
      /\ \A i \in 1..Len(q) - (n + 1) + 1 : r[i] = q[n + 1 + i - 1]
  BY <1>1, <1>2, SubSeqProperties
<1>4. Len(r) = Len(q) - n
  BY <1>1, <1>3
<1>5. \A i \in 1..Len(r) : r[i] = q[n + i]
  BY <1>1, <1>3, <1>4
<1>6. taken \subseteq Nodes(q)
  BY <1>1 DEF Nodes
<1>7. Nodes(r) = Nodes(q) \ taken
  <2>1. ASSUME NEW x \in Nodes(r)
        PROVE  x \in Nodes(q) \ taken
    <3>1. PICK i \in 1..Len(r) : x = r[i]
      BY <2>1 DEF Nodes
    <3>2. n + i \in 1..Len(q) /\ x = q[n + i]
      BY <3>1, <1>1, <1>4, <1>5
    <3>3. \A j \in 1..n : q[j] # x
      BY <3>2, <1>1 DEF Distinct
    <3> QED
      BY <3>2, <3>3 DEF Nodes
  <2>2. ASSUME NEW x \in Nodes(q) \ taken
        PROVE  x \in Nodes(r)
    <3>1. PICK i \in 1..Len(q) : x = q[i]
      BY <2>2 DEF Nodes
    <3>2. i > n
      BY <3>1, <2>2, <1>1
    <3>3. i - n \in 1..Len(r) /\ r[i - n] = q[n + (i - n)]
      BY <3>1, <3>2, <1>1, <1>4, <1>5
    <3>4. n + (i - n) = i
      BY <1>1
    <3>5. x = r[i - n]
      BY <3>1, <3>3, <3>4
    <3> HIDE DEF r
    <3> QED
      BY <3>3, <3>5 DEF Nodes
  <2> QED
    BY <2>1, <2>2
<1>8. Distinct(r)
  <2> HIDE DEF r
  <2> SUFFICES ASSUME NEW i \in 1..Len(r), NEW j \in 1..Len(r), r[i] = r[j]
               PROVE  i = j
    BY DEF Distinct
  <2>1. n + i \in 1..Len(q) /\ n + j \in 1..Len(q)
    BY <1>1, <1>4
  <2>2. q[n + i] = q[n + j]
    BY <1>5
  <2>3. n + i = n + j
    BY <2>1, <2>2 DEF Distinct
  <2> QED
    BY <1>1, <1>4, <2>3
<1> QED
  BY <1>3, <1>4, <1>5, <1>6, <1>7, <1>8

(* Popping a queue takes its first node away.                              *)
LEMMA TailNodes ==
  ASSUME NEW S, NEW q \in Seq(S), Distinct(q), q # <<>>
  PROVE  /\ Tail(q) \in Seq(S)
         /\ Distinct(Tail(q))
         /\ Nodes(Tail(q)) = Nodes(q) \ {Head(q)}
<1>1. Len(q) \in Nat /\ Len(q) >= 1 /\ Head(q) = q[1]
  BY FrontNode
<1>2. Tail(q) = SubSeq(q, 1 + 1, Len(q))
  BY TailIsSubSeq
<1>3. 1 \in 0..Len(q)
  BY <1>1
<1>4. {q[i] : i \in 1..1} = {Head(q)}
  BY <1>1
<1>5. LET r == SubSeq(q, 1 + 1, Len(q))
          taken == {q[i] : i \in 1..1}
      IN  /\ r \in Seq(S)
          /\ Len(r) = Len(q) - 1
          /\ \A i \in 1..Len(r) : r[i] = q[1 + i]
          /\ Nodes(r) = Nodes(q) \ taken
          /\ taken \subseteq Nodes(q)
          /\ Distinct(r)
  BY <1>3, DropNodes
<1> QED
  BY <1>2, <1>4, <1>5

(* The first n nodes of a queue are n nodes.                               *)
LEMMA CountNodes ==
  ASSUME NEW S, NEW q \in Seq(S), Distinct(q), NEW n \in 0..Len(q)
  PROVE  /\ IsFiniteSet({q[i] : i \in 1..n})
         /\ Cardinality({q[i] : i \in 1..n}) = n
<1> DEFINE taken == {q[i] : i \in 1..n}
           f == [i \in 1..n |-> q[i]]
<1>1. Len(q) \in Nat /\ n \in Nat /\ n <= Len(q)
  BY LenProperties
<1>2. f \in [1..n -> taken]
  OBVIOUS
<1>3. \A i, j \in 1..n : f[i] = f[j] => i = j
  BY <1>1 DEF Distinct
<1>4. \A y \in taken : \E i \in 1..n : f[i] = y
  OBVIOUS
<1>5. f \in Bijection(1..n, taken)
  BY <1>2, <1>3, <1>4 DEF Bijection, Injection, Surjection, IsInjective
<1>6. ExistsBijection(1..n, taken)
  BY <1>5 DEF ExistsBijection
<1>7. Cardinality(taken) = n
  BY <1>1, <1>6, FS_CountingElements
<1>8. IsFiniteSet(taken)
  BY <1>1, <1>6, FS_NatBijection
<1> QED
  BY <1>7, <1>8
(* Pushing a node that is not in the list adds that node in front.         *)
LEMMA PushNode ==
  ASSUME NEW S, NEW q \in Seq(S), NEW e \in S, e \notin Nodes(q), Distinct(q)
  PROVE  /\ LinkedListPush(e, q) \in Seq(S)
         /\ LinkedListPush(e, q) # <<>>
         /\ Nodes(LinkedListPush(e, q)) = Nodes(q) \cup {e}
         /\ Distinct(LinkedListPush(e, q))
<1> DEFINE r == <<e>> \o q
<1>1. /\ <<e>> \in Seq(S) /\ Len(<<e>>) = 1 /\ <<e>>[1] = e
      /\ Len(q) \in Nat
  BY LenProperties
<1>2. /\ r \in Seq(S)
      /\ Len(r) = Len(q) + 1
      /\ \A i \in 1..Len(q) + 1 : r[i] = IF i <= 1 THEN <<e>>[i] ELSE q[i - 1]
  BY <1>1, ConcatProperties
<1>3. r[1] = e /\ \A i \in 1..Len(q) : r[i + 1] = q[i]
  BY <1>1, <1>2
<1>4. r # <<>>
  BY <1>1, <1>2, EmptySeq
<1>5. Nodes(r) = Nodes(q) \cup {e}
  <2>1. ASSUME NEW x \in Nodes(r) PROVE x \in Nodes(q) \cup {e}
    <3>1. PICK i \in 1..Len(r) : x = r[i]
      BY DEF Nodes
    <3>2. CASE i = 1
      BY <3>1, <3>2, <1>3
    <3>3. CASE i # 1
      <4>1. i - 1 \in 1..Len(q) /\ (i - 1) + 1 = i
        BY <3>3, <1>1, <1>2
      <4>2. x = q[i - 1]
        BY <3>1, <4>1, <1>3
      <4> QED
        BY <4>1, <4>2 DEF Nodes
    <3> QED
      BY <3>2, <3>3
  <2>2. e \in Nodes(r)
    BY <1>1, <1>2, <1>3 DEF Nodes
  <2>3. ASSUME NEW x \in Nodes(q) PROVE x \in Nodes(r)
    <3>1. PICK i \in 1..Len(q) : x = q[i]
      BY DEF Nodes
    <3>2. i + 1 \in 1..Len(r) /\ x = r[i + 1]
      BY <3>1, <1>1, <1>2, <1>3
    <3> QED
      BY <3>2 DEF Nodes
  <2> QED
    BY <2>1, <2>2, <2>3
<1>6. Distinct(r)
  <2> SUFFICES ASSUME NEW i \in 1..Len(r), NEW j \in 1..Len(r), r[i] = r[j]
               PROVE  i = j
    BY DEF Distinct
  <2>1. ASSUME NEW k \in 1..Len(r), k # 1
        PROVE  k - 1 \in 1..Len(q) /\ r[k] = q[k - 1] /\ r[k] \in Nodes(q)
    <3>1. k - 1 \in 1..Len(q) /\ (k - 1) + 1 = k
      BY <2>1, <1>1, <1>2
    <3>2. r[k] = q[k - 1]
      BY <3>1, <1>3
    <3> QED
      BY <3>1, <3>2 DEF Nodes
  <2>2. CASE i = 1 \/ j = 1
    BY <2>1, <2>2, <1>3
  <2>3. CASE i # 1 /\ j # 1
    <3>1. i - 1 = j - 1
      BY <2>1, <2>3 DEF Distinct
    <3> QED
      BY <3>1, <1>1, <1>2
  <2> QED
    BY <2>2, <2>3
<1> QED
  BY <1>2, <1>4, <1>5, <1>6 DEF LinkedListPush

(* Enqueueing any node gives a list without repetition in which the node   *)
(* is, even when it was in the list before and others are lost.            *)
LEMMA EnqueueNode ==
  ASSUME NEW S, NEW q \in Seq(S), NEW e \in S, Distinct(q)
  PROVE  /\ LinkedListEnqueue(e, q) \in Seq(S)
         /\ LinkedListEnqueue(e, q) # <<>>
         /\ e \notin Nodes(q) => Nodes(LinkedListEnqueue(e, q)) = Nodes(q) \cup {e}
         /\ Nodes(LinkedListEnqueue(e, q)) \subseteq Nodes(q) \cup {e}
         /\ Distinct(LinkedListEnqueue(e, q))
<1> DEFINE n == Place(e, q)
           r == SubSeq(q, 1, n)
<1>1. CASE e \notin Nodes(q)
  <2>1. LinkedListEnqueue(e, q) = Append(q, e)
    BY <1>1 DEF LinkedListEnqueue
  <2> QED
    BY <1>1, <2>1, AppendNode
<1>2. CASE e \in Nodes(q)
  <2>1. Len(q) \in Nat
    BY LenProperties
  <2>2. n \in 1..Len(q) /\ q[n] = e
    BY <1>2 DEF Nodes, Place
  <2>3. /\ <<e>> \in Seq(S) /\ <<e>> # <<>> /\ Len(<<e>>) = 1 /\ <<e>>[1] = e
    BY LenProperties, EmptySeq
  <2>4. Nodes(<<e>>) = {e} /\ Distinct(<<e>>)
    BY <2>3 DEF Nodes, Distinct
  <2>5. /\ r \in Seq(S) /\ Len(r) = n /\ \A i \in 1..n : r[i] = q[i]
    <3>1. \A i \in 1..n : q[i] \in S
      BY <2>1, <2>2, ElementOfSeq
    <3>2. 1 \in Int /\ n \in Int /\ 1 <= n
      BY <2>1, <2>2
    <3>3. /\ r \in Seq(S)
          /\ Len(r) = IF 1 <= n THEN n - 1 + 1 ELSE 0
          /\ \A i \in 1 .. n - 1 + 1 : r[i] = q[1 + i - 1]
      BY <3>1, <3>2, SubSeqProperties
    <3> QED
      BY <3>2, <3>3
  <2>6. r # <<>>
    BY <2>2, <2>5, EmptySeq
  <2>7. Nodes(r) \subseteq Nodes(q)
    BY <2>1, <2>2, <2>5 DEF Nodes
  <2>8. Distinct(r)
    BY <2>1, <2>2, <2>5 DEF Distinct
  <2>9. LinkedListEnqueue(e, q) \in {<<e>>, r}
    BY <1>2 DEF LinkedListEnqueue
  <2> QED
    BY <1>2, <2>3, <2>4, <2>5, <2>6, <2>7, <2>8, <2>9
<1> QED
  BY <1>1, <1>2
=============================================================================
