-------------------------------- MODULE Heap --------------------------------
(***************************************************************************)
(* utils/heap.c: a binary heap of linked nodes.  The n-th node is found    *)
(* from the head by the binary digits of n.                                *)
(***************************************************************************)
EXTENDS WeightedLinks

(* The node and its parent change places.                                  *)
HeapPromote(node, h) ==
  LET parent == h.Parent[node]
      grandParent == h.Parent[parent]
      onLeft == h.Left[parent] = node
      sibling == IF onLeft THEN h.Right[parent] ELSE h.Left[parent]
      grandLeft == grandParent # NULL /\ h.Left[grandParent] = parent
  IN [h EXCEPT
        !.Left = [Put(@, IF grandLeft THEN grandParent ELSE NULL, node) EXCEPT
                    ![node] = IF onLeft THEN parent ELSE sibling, ![parent] = h.Left[node]],
        !.Right = [Put(@, IF grandLeft THEN NULL ELSE grandParent, node) EXCEPT
                     ![node] = IF onLeft THEN sibling ELSE parent, ![parent] = h.Right[node]],
        !.Parent = Put(Put(Put([@ EXCEPT ![node] = grandParent, ![parent] = node],
                               sibling, node), h.Left[node], parent), h.Right[node], parent)]

(* Of the three the one of least weight, the first one if there are more;  *)
(* a node that is not there weighs most.                                   *)
HeapSmallest(nodes, h) ==
  LET Of(i) == IF nodes[i] = NULL THEN MaxWeight ELSE h.Weight[nodes[i]]
  IN nodes[CHOOSE i \in 1..3 : \A j \in 1..3 : Of(i) < Of(j) \/ (Of(i) = Of(j) /\ i <= j)]

RECURSIVE HeapFindElement(_, _)
HeapFindElement(index, h) ==
  IF index = 1 THEN h.Head
  ELSE LET above == HeapFindElement(index \div 2, h)
       IN IF index % 2 = 1 THEN h.Right[above] ELSE h.Left[above]

(* The loop of HeapAdd.                                                    *)
RECURSIVE PercolateUp(_, _)
PercolateUp(node, h) ==
  IF h.Parent[node] # NULL /\ h.Weight[node] < h.Weight[h.Parent[node]]
  THEN PercolateUp(node, HeapPromote(node, h))
  ELSE h

HeapAdd(weight, node, heap) ==
  LET h == [heap EXCEPT !.Weight[node] = weight, !.Left[node] = NULL, !.Right[node] = NULL,
                        !.Size = @ + 1]
      parent == HeapFindElement(h.Size \div 2, h)
      tail == IF h.Left[parent] = NULL THEN [h EXCEPT !.Left[parent] = node, !.Parent[node] = parent]
              ELSE [h EXCEPT !.Right[parent] = node, !.Parent[node] = parent]
      up == PercolateUp(node, tail)
  IN IF h.Size = 1 THEN [h EXCEPT !.Head = node, !.Parent[node] = NULL]
     ELSE IF up.Parent[node] = NULL THEN [up EXCEPT !.Head = node] ELSE up

(* The loop of HeapPop.                                                    *)
RECURSIVE PercolateDown(_, _)
PercolateDown(tail, h) ==
  LET smallest == HeapSmallest(<<tail, h.Left[tail], h.Right[tail]>>, h)
      next == HeapPromote(smallest, h)
  IN IF smallest = tail THEN h
     ELSE PercolateDown(tail, IF next.Parent[smallest] = NULL
                              THEN [next EXCEPT !.Head = smallest] ELSE next)

(* Bug: the new head keeps its parent.                                     *)
BugTailAtHead(tail, popped, h) ==
  [h EXCEPT !.Size = @ - 1, !.Head = tail,
            !.Left[tail] = h.Left[popped], !.Right[tail] = h.Right[popped],
            !.Parent = Put(Put(@, h.Left[popped], tail), h.Right[popped], tail)]

(* The tail in place of the head.                                          *)
TailAtHead(tail, popped, h) ==
  [h EXCEPT !.Size = @ - 1, !.Head = tail,
            !.Left[tail] = h.Left[popped], !.Right[tail] = h.Right[popped],
            !.Parent = Put(Put([@ EXCEPT ![tail] = NULL], h.Left[popped], tail),
                           h.Right[popped], tail)]

(* The node popped from a heap that is not empty, and what is left.        *)
HeapPop(heap) ==
  LET tail == HeapFindElement(heap.Size, heap)
      above == heap.Parent[tail]
      h == IF heap.Right[above] = tail THEN [heap EXCEPT !.Right[above] = NULL]
           ELSE [heap EXCEPT !.Left[above] = NULL]
  IN IF above = NULL
     THEN [popped |-> tail, heap |-> Unlinked(tail, [heap EXCEPT !.Size = 0, !.Head = NULL])]
     ELSE [popped |-> h.Head,
           heap |-> Unlinked(h.Head, PercolateDown(tail, TailAtHead(tail, h.Head, h)))]

HeapHeadWeight(heap) == heap.Weight[heap.Head]

HeapSize(heap) == heap.Size

HeapInit == NoLinks

-----------------------------------------------------------------------------

VARIABLES
  heap,
  popped        \* the weight popped last, and the least weight there was

heapVars == <<heap, popped>>

HeapStart == heap = HeapInit /\ popped = <<0, 0>>

(* The calls of the timer unit and of utils/linktest.c.                    *)
Add(value) ==
  /\ \E node \in WeightedNode \ Members(heap) : heap' = HeapAdd(value, node, heap)
  /\ popped' = <<0, 0>>

Pop ==
  /\ HeapSize(heap) > 0
  /\ heap' = HeapPop(heap).heap
  /\ popped' = <<HeapHeadWeight(heap), heap.Weight[HeapPop(heap).popped]>>

HeapNext == (\E value \in Weights : Add(value)) \/ Pop

(* The heap is a complete tree of Size nodes, no node weighs less than its *)
(* parent, and so the head that HeapHeadWeight reads is what HeapPop       *)
(* returns, and nothing in the heap weighs less.                           *)
HeapSound ==
  /\ WellLinked(heap)
  /\ Cardinality(Members(heap)) = heap.Size
  /\ {HeapFindElement(i, heap) : i \in 1..heap.Size} = Members(heap)
  /\ \A n \in Members(heap) : heap.Weight[heap.Head] <= heap.Weight[n]
  /\ \A n \in Members(heap) \ {heap.Head} : heap.Weight[heap.Parent[n]] <= heap.Weight[n]
  /\ popped[1] = popped[2]
=============================================================================
