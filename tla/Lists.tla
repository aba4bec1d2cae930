------------------------------- MODULE Lists -------------------------------
(***************************************************************************)
(* What the linked list unit (utils/linkedlist.c) does to the sequence of  *)
(* nodes reached from Head.  LinkedList.tla holds the pointers and shows   *)
(* these operators to be what they compute.                                *)
(***************************************************************************)
EXTENDS Integers, Sequences

Nodes(list) == {list[i] : i \in 1..Len(list)}

(* No node is in the list twice.                                           *)
Distinct(list) == \A i, j \in 1..Len(list) : list[i] = list[j] => i = j

(* The place of a node in the list.                                        *)
Place(node, list) == CHOOSE i \in 1..Len(list) : list[i] = node

(* Enqueue goes to the end.  A node that is in the list already is linked  *)
(* in a second time: the list then runs from its head to the node and      *)
(* starts over, and when the node is the first or the last it is all that  *)
(* is left.                                                                *)
LinkedListEnqueue(node, list) ==
  IF node \notin Nodes(list) THEN Append(list, node)
  ELSE IF Place(node, list) \in {1, Len(list)} THEN <<node>>
       ELSE SubSeq(list, 1, Place(node, list))

(* Push goes to the front; no caller pushes a node that is in the list.    *)
LinkedListPush(node, list) == <<node>> \o list
=============================================================================
