----------------------------- MODULE LinkedList -----------------------------
(***************************************************************************)
(* The linked list unit (utils/linkedlist.c) at the level of its pointers: *)
(* a circular doubly linked list, reached from Head, with the links in the *)
(* nodes.  listOrder is the sequence the list stands for, kept by the      *)
(* operators of Lists.tla, which the other modules use.                    *)
(***************************************************************************)
EXTENDS Lists, Links

VARIABLES
  ListHead,      \* list->Head
  LinkNext,      \* node->Next
  Prev,          \* node->Prev
  listOrder,     \* the list as a sequence
  clean          \* no node was ever enqueued while it was in the list

listVars == <<ListHead, LinkNext, Prev, listOrder, clean>>

LinkedListInit ==
  /\ ListHead = NULL
  /\ LinkNext = [n \in Node |-> NULL]
  /\ Prev = [n \in Node |-> NULL]
  /\ listOrder = <<>>
  /\ clean = TRUE

(* The four assignments in their order: each reads what the ones before it *)
(* wrote, which matters when node is in the list.                          *)
Linked(node, list) ==
  LET next1 == [LinkNext EXCEPT ![node] = list]
      prev1 == [Prev EXCEPT ![node] = Prev[list]]
      next2 == [next1 EXCEPT ![prev1[list]] = node]
      prev2 == [prev1 EXCEPT ![list] = node]
  IN  [next |-> next2, prev |-> prev2]

LinkedListInsert(node, list) ==
  LET links == IF list = NULL
               THEN [next |-> [LinkNext EXCEPT ![node] = node],
                     prev |-> [Prev EXCEPT ![node] = node]]
               ELSE Linked(node, list)
  IN  LinkNext' = links.next /\ Prev' = links.prev

(* Bug: the node before the removed one keeps pointing at it.              *)
BugLinkedListRemove(node) ==
  LET next1 == LinkNext
      prev1 == [Prev EXCEPT ![next1[node]] = Prev[node]]
  IN  /\ LinkNext' = [next1 EXCEPT ![node] = node]
      /\ Prev' = [prev1 EXCEPT ![node] = node]

LinkedListRemove(node) ==
  LET next1 == [LinkNext EXCEPT ![Prev[node]] = LinkNext[node]]
      prev1 == [Prev EXCEPT ![next1[node]] = Prev[node]]
  IN  /\ LinkNext' = [next1 EXCEPT ![node] = node]
      /\ Prev' = [prev1 EXCEPT ![node] = node]

PushNode(node) ==
  /\ node \notin Nodes(listOrder)
  /\ LinkedListInsert(node, ListHead)
  /\ ListHead' = node
  /\ listOrder' = LinkedListPush(node, listOrder)
  /\ UNCHANGED clean

EnqueueNode(node) ==
  /\ LinkedListInsert(node, ListHead)
  /\ ListHead' = LinkNext'[node]
  /\ listOrder' = LinkedListEnqueue(node, listOrder)
  /\ clean' = (clean /\ node \notin Nodes(listOrder))

LinkedListPop ==
  /\ ListHead # NULL
  /\ \/ ListHead = LinkNext[ListHead] /\ ListHead' = NULL /\ UNCHANGED <<LinkNext, Prev>>
     \/ ListHead # LinkNext[ListHead] /\ ListHead' = LinkNext[ListHead] /\ LinkedListRemove(ListHead)
  /\ listOrder' = Tail(listOrder)
  /\ UNCHANGED clean

LinkedListNext ==
  \/ \E node \in Node : PushNode(node) \/ EnqueueNode(node)
  \/ LinkedListPop

LinkedListSpec == LinkedListInit /\ [][LinkedListNext]_listVars

-----------------------------------------------------------------------------

After(i) == IF i = Len(listOrder) THEN 1 ELSE i + 1

(* Following Next from Head visits the nodes of the sequence that          *)
(* Lists.tla computes and comes back, and the head's Prev is the last      *)
(* node, whether or not a node was enqueued while it was in the list.  As  *)
(* long as none was, Prev undoes Next all the way round; after that it     *)
(* need not.                                                               *)
ListSound ==
  /\ ListHead = NULL <=> listOrder = <<>>
  /\ listOrder # <<>> => ListHead = listOrder[1] /\ Prev[ListHead] = listOrder[Len(listOrder)]
  /\ \A i \in 1..Len(listOrder) : LinkNext[listOrder[i]] = listOrder[After(i)]
  /\ Distinct(listOrder)
  /\ clean => \A i \in 1..Len(listOrder) : Prev[listOrder[After(i)]] = listOrder[i]
=============================================================================
